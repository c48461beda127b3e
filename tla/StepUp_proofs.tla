---------------------------- MODULE StepUp_proofs ----------------------------
(***************************************************************************)
(* The properties of StepUp, for any actions and any number of              *)
(* confirmations.  The invariant relates five clocks: what the API counts   *)
(* as recent, the sign-in times of the store's token, of the answers on     *)
(* their way, of the refused actions, and the time a link must beat.        *)
(***************************************************************************)
EXTENDS StepUp, TLAPS

-----------------------------------------------------------------------------
(* The invariant. *)

Waiting == {a \in Acts : act[a].stage = "waiting"}

\* The body lives between the first waiter and the last, and what it waits for
\* with it.
BodyFits ==
    /\ Mounted <=> open /\ chunk = "loaded"
    /\ ~Mounted => attempt = NoAttempt /\ link = NoLink /\ resume = NoResume
    /\ view \in {"email", "resuming", "resume_failed"} \/ resume # NoResume => lock
    /\ lock => Mounted

\* No token is newer than the session's last confirmation; an action that has the
\* store's token has its time; a confirmation's answer is recent; and a refresh
\* brings no older token than the store's, unless a recent one has landed since.
TimesFit ==
    /\ threshold <= session + 1 /\ token <= session
    /\ \A a \in Acts : act[a].auth <= session
    /\ \A a \in Acts : InFlight(a) /\ act[a].current => act[a].auth = token
    /\ \A p \in Posts : verify[p].stage = "served" =>
                            threshold <= verify[p].auth /\ verify[p].auth <= session
    /\ refresh.stage = "served" =>
          /\ refresh.auth <= session
          /\ token <= refresh.auth \/ threshold <= token

\* Every waiter was refused for a token that was no newer than what the store,
\* or a refresh, brings; one of them is as old as what a link must beat.
WaitersFit ==
    /\ \A a \in Waiting :
          /\ act[a].auth < threshold /\ act[a].auth <= token
          /\ refresh.stage = "served" => act[a].auth <= refresh.auth
    /\ lock => \E a \in Waiting : act[a].auth <= baseline

\* The second refresh of a resume was asked for after the message was heard.
ResumeFits ==
    /\ resume.heard <= session
    /\ resume.stage = "second" /\ refresh.stage = "served" => resume.heard <= refresh.auth

StepUpInv == TypeOK /\ NobodyForgotten /\ BodyFits /\ TimesFit /\ WaitersFit /\ ResumeFits

-----------------------------------------------------------------------------
(* Records and types. *)

ActRecords == [stage : {"idle", "sent", "resent", "waiting", "retried", "refused"},
               auth : Times, current : BOOLEAN]
PostRecords == [stage : {"none", "sent", "served"}, auth : Times]

\* Sign-in times are bounded numbers.
LEMMA TimesAreNat ==
    /\ Times \subseteq Nat /\ 0 \in Times /\ MaxConfirms \in Nat
    /\ \A t \in Times : t < MaxConfirms => t + 1 \in Times
BY StepUpAssumption DEF Times

\* As the body unmounts, of its posted passkeys one is left at most.
LEMMA OrphanOf ==
    ASSUME NEW posts \in [Posts -> PostRecords]
    PROVE  /\ Orphaned(posts) \in [Posts -> PostRecords]
           /\ Orphaned(posts)["live"] = NoPost /\ Orphaned(posts)["left"] = NoPost
           /\ \E q \in Posts : Orphaned(posts)["orphan"] = posts[q]
<1> DEFINE S == {posts[q] : q \in Posts}
           Fits(post) == post = NoPost => \A q \in Posts : posts[q] = NoPost
           Orphan == CHOOSE post \in S : Fits(post)
<1>1. \E post \in S : Fits(post)
  <2>1. CASE \E q \in Posts : posts[q] # NoPost
    BY <2>1
  <2>2. CASE \A q \in Posts : posts[q] = NoPost
    BY <2>2 DEF Posts
  <2> QED
    BY <2>1, <2>2
<1>2. Orphan \in S
  BY <1>1
<1>3. NoPost \in PostRecords
  BY TimesAreNat DEF NoPost, PostRecords
<1>4. Orphaned(posts) = [p \in Posts |-> IF p # "orphan" THEN NoPost ELSE Orphan]
  BY DEF Orphaned
<1> HIDE DEF Orphan
<1> QED
  BY <1>2, <1>3, <1>4 DEF Posts

\* Every waiter is answered, and nobody else.
LEMMA AnsweredActs ==
    ASSUME NEW acts \in [Acts -> ActRecords], NEW confirmed \in BOOLEAN, NEW tok \in Times
    PROVE  /\ Answered(acts, confirmed, tok) \in [Acts -> ActRecords]
           /\ \A a \in Acts :
                LET new == Answered(acts, confirmed, tok)[a] IN
                /\ acts[a].stage # "waiting" => new = acts[a]
                /\ acts[a].stage = "waiting" =>
                     IF confirmed THEN new = Sent("retried", tok)
                     ELSE new.stage = "refused" /\ new.auth = acts[a].auth
BY DEF Answered, Told, Sent, ActRecords

\* A token that lands outdates what is in flight and changes nothing else.
LEMMA OutdatedActs ==
    ASSUME NEW acts \in [Acts -> ActRecords]
    PROVE  /\ Outdated(acts) \in [Acts -> ActRecords]
           /\ \A a \in Acts :
                /\ Outdated(acts)[a].stage = acts[a].stage
                /\ Outdated(acts)[a].auth = acts[a].auth
                /\ acts[a].stage \in {"sent", "resent", "retried"} => ~Outdated(acts)[a].current
BY DEF Outdated, ActRecords

RefreshRecords == [stage : {"none", "sent", "served"}, auth : Times]
AttemptRecords == [stage : {"none", "options", "prompt", "verify"}, from : Views]
LinkRecords == [stage : {"none", "sent", "mailed"}, from : Views]
ResumeRecords == [stage : {"none", "first", "second"}, heard : Times]
ConfirmRecords == [stage : {"none", "posting", "again", "spent", "confirmed", "failed", "over"},
                   held : BOOLEAN]

\* Nothing has its place among the records.
LEMMA Starters ==
    /\ Idle \in ActRecords /\ NoPost \in PostRecords /\ NoRefresh \in RefreshRecords
    /\ NoAttempt \in AttemptRecords /\ NoLink \in LinkRecords /\ NoResume \in ResumeRecords
BY TimesAreNat DEF Idle, ActRecords, NoPost, PostRecords, NoRefresh, RefreshRecords, NoAttempt,
   AttemptRecords, NoLink, LinkRecords, NoResume, ResumeRecords, Views

\* The provider starts with nobody waiting.
LEMMA InitInv == Init => StepUpInv
<1> SUFFICES ASSUME Init PROVE StepUpInv
  OBVIOUS
<1>1. TypeOK
  <2>1. act \in [Acts -> ActRecords] /\ verify \in [Posts -> PostRecords]
        /\ refresh \in RefreshRecords /\ attempt \in AttemptRecords /\ link \in LinkRecords
        /\ resume \in ResumeRecords
    BY Starters DEF Init
  <2>2. confirm \in ConfirmRecords
    BY DEF Init, ConfirmRecords
  <2>3. session \in Times /\ threshold \in Times /\ token \in Times /\ baseline \in Times
    BY StepUpAssumption DEF Init, Times
  <2>4. attempt.stage = "none" /\ verify["live"].stage = "none"
    BY DEF Init, NoAttempt, NoPost, Posts
  <2>5. mailed = FALSE /\ open = FALSE /\ hasPasskey = FALSE /\ lock = FALSE /\ message = FALSE
        /\ chunk = "none" /\ view = "closed"
    BY DEF Init
  <2> QED
    BY <2>1, <2>2, <2>3, <2>4, <2>5 DEF TypeOK, ActRecords, PostRecords, RefreshRecords,
       AttemptRecords, LinkRecords, ResumeRecords, ConfirmRecords, Views
<1>2. \A a \in Acts : act[a].stage = "idle" /\ act[a].auth = 0
  BY DEF Init, Idle
<1>3. \A p \in Posts : verify[p].stage = "none"
  BY DEF Init, NoPost
<1>4. refresh.stage = "none" /\ resume.stage = "none" /\ resume.heard = 0
  BY DEF Init, NoRefresh, NoResume
<1>5. NobodyForgotten /\ BodyFits
  BY <1>2 DEF Init, NobodyForgotten, BodyFits, Mounted
<1>6. TimesFit /\ WaitersFit /\ ResumeFits
  BY <1>2, <1>3, <1>4, TimesAreNat DEF Init, TimesFit, WaitersFit, ResumeFits, Waiting, InFlight
<1> QED
  BY <1>1, <1>5, <1>6 DEF StepUpInv

Flags ==
    /\ session \in Times /\ threshold \in Times /\ token \in Times /\ baseline \in Times
    /\ mailed \in BOOLEAN /\ open \in BOOLEAN /\ hasPasskey \in BOOLEAN /\ lock \in BOOLEAN
    /\ message \in BOOLEAN /\ chunk \in {"none", "loading", "loaded"} /\ view \in Views
Records ==
    /\ act \in [Acts -> ActRecords] /\ verify \in [Posts -> PostRecords]
    /\ refresh \in RefreshRecords /\ attempt \in AttemptRecords /\ link \in LinkRecords
    /\ resume \in ResumeRecords /\ confirm \in ConfirmRecords
LiveIsPosted == attempt.stage = "verify" <=> verify["live"].stage # "none"

\* The type invariant, in parts the provers take one at a time.
LEMMA TypeParts == TypeOK <=> Flags /\ Records /\ LiveIsPosted
BY DEF TypeOK, Flags, Records, LiveIsPosted, ActRecords, PostRecords, RefreshRecords,
   AttemptRecords, LinkRecords, ResumeRecords, ConfirmRecords

\* Every way a record moves on leaves a record.
LEMMA Moves ==
    /\ \A tok \in Times :
         /\ \A st \in {"sent", "resent", "retried"} : Sent(st, tok) \in ActRecords
         /\ \A st \in {"sent", "served"} : [stage |-> st, auth |-> tok] \in RefreshRecords \cap PostRecords
         /\ [stage |-> "first", heard |-> tok] \in ResumeRecords
    /\ \A r \in ActRecords : \A st \in {"waiting", "refused"} : [r EXCEPT !.stage = st] \in ActRecords
    /\ [NoRefresh EXCEPT !.stage = "sent"] \in RefreshRecords
    /\ \A r \in ResumeRecords : [r EXCEPT !.stage = "second"] \in ResumeRecords
    /\ \A v \in Views : /\ [stage |-> "options", from |-> v] \in AttemptRecords
                       /\ [stage |-> "sent", from |-> v] \in LinkRecords
    /\ \A r \in AttemptRecords : \A st \in {"prompt", "verify"} : [r EXCEPT !.stage = st] \in AttemptRecords
    /\ \A r \in LinkRecords : [r EXCEPT !.stage = "mailed"] \in LinkRecords
    /\ \A st \in {"posting", "again", "spent", "confirmed", "failed", "over"} :
         \A held \in BOOLEAN : [stage |-> st, held |-> held] \in ConfirmRecords
    /\ \A r \in ConfirmRecords : r.held \in BOOLEAN
BY TimesAreNat DEF Sent, ActRecords, PostRecords, RefreshRecords, NoRefresh, ResumeRecords,
   AttemptRecords,
   LinkRecords, ConfirmRecords

\* A posted passkey and a refresh carry a sign-in time.
LEMMA PostTimes == \A r \in PostRecords \union RefreshRecords : r.auth \in Times
BY DEF PostRecords, RefreshRecords

\* What an answer to the waiters does to the dialog.
LEMMA FinishFacts ==
    ASSUME Records, NEW acts \in [Acts -> ActRecords], NEW confirmed \in BOOLEAN, NEW tok \in Times,
           NEW posts \in [Posts -> PostRecords], Finish(acts, confirmed, tok, posts)
    PROVE  /\ act' \in [Acts -> ActRecords] /\ verify' \in [Posts -> PostRecords]
           /\ \A a \in Acts :
                /\ acts[a].stage # "waiting" => act'[a] = acts[a]
                /\ acts[a].stage = "waiting" =>
                     IF confirmed THEN act'[a] = Sent("retried", tok)
                     ELSE act'[a].stage = "refused" /\ act'[a].auth = acts[a].auth
           /\ verify'["live"] = NoPost /\ verify'["left"] = NoPost
           /\ \E q \in Posts : verify'["orphan"] = posts[q]
           /\ open' = FALSE /\ view' = "closed" /\ attempt' = NoAttempt /\ hasPasskey' = FALSE
           /\ link' = NoLink /\ lock' = FALSE /\ baseline' = 0 /\ resume' = NoResume
BY OrphanOf, AnsweredActs DEF Finish, UnmountBody, Released

\* What a new attempt does to the answers on their way.
LEMMA SupersededFacts ==
    ASSUME Records, Superseded
    PROVE  /\ verify' \in [Posts -> PostRecords] /\ verify'["live"] = NoPost
           /\ \A p \in Posts : verify'[p] = NoPost \/ \E q \in Posts : verify'[p] = verify[q]
BY Starters DEF Superseded, Records, Posts

NewLands ==
    /\ resume # NoResume /\ refresh.auth > baseline
    /\ Finish(Outdated(act), TRUE, refresh.auth, verify) /\ refresh' = NoRefresh
OldLands ==
    /\ act' = Outdated(act) /\ UNCHANGED <<open, keys, link, lock, baseline, verify>>
    /\ \/ /\ resume.stage = "first" /\ refresh' = [NoRefresh EXCEPT !.stage = "sent"]
          /\ resume' = [resume EXCEPT !.stage = "second"] /\ view' = view
       \/ /\ resume.stage = "second" /\ ~(refresh.auth > baseline)
          /\ resume' = NoResume /\ view' = "email" /\ refresh' = NoRefresh
       \/ resume = NoResume /\ refresh' = NoRefresh /\ UNCHANGED <<resume, view>>

\* A refresh lands as a new confirmation or as an old one.
LEMMA LandsCases ==
    ASSUME RefreshLands
    PROVE  /\ refresh.stage = "served" /\ token' = refresh.auth /\ UNCHANGED <<api, chunk, page>>
           /\ NewLands \/ OldLands
<1> DEFINE New == resume # NoResume /\ refresh.auth > baseline
<1>1. refresh.stage = "served" /\ token' = refresh.auth /\ UNCHANGED <<api, chunk, page>>
  BY DEF RefreshLands
<1>2. CASE New
  BY <1>1, <1>2, Zenon DEF RefreshLands, IsNewConfirmation, NewLands
<1>3. CASE ~New
  <2>1. /\ act' = Outdated(act) /\ UNCHANGED <<open, keys, link, lock, baseline, verify>>
        /\ \/ /\ resume.stage = "first" /\ refresh' = [NoRefresh EXCEPT !.stage = "sent"]
              /\ resume' = [resume EXCEPT !.stage = "second"] /\ view' = view
           \/ /\ resume.stage = "second"
              /\ resume' = NoResume /\ view' = "email" /\ refresh' = NoRefresh
           \/ /\ resume = NoResume
              /\ refresh' = NoRefresh /\ UNCHANGED <<resume, view>>
    BY <1>3, Zenon DEF RefreshLands, IsNewConfirmation, LastTry
  <2>2. resume.stage = "second" => ~(refresh.auth > baseline)
    BY <1>3 DEF NoResume
  <2>3. OldLands
    BY <2>1, <2>2, Zenon DEF OldLands
  <2> QED
    BY <1>1, <2>3
<1> QED
  BY <1>2, <1>3

\* A passkey's answer ends the dialog unless its own dialog has gone.
LEMMA VerifyLandsCases ==
    ASSUME NEW p \in Posts, VerifyLands(p), Records
    PROVE  /\ verify[p].stage = "served" /\ token' = verify[p].auth /\ verify[p].auth \in Times
           /\ UNCHANGED <<api, refresh, chunk, page>>
           /\ [verify EXCEPT ![p] = NoPost] \in [Posts -> PostRecords]
           /\ \/ /\ p = "orphan" /\ act' = Outdated(act) /\ verify' = [verify EXCEPT ![p] = NoPost]
                 /\ UNCHANGED <<open, body>>
              \/ /\ p # "orphan"
                 /\ Finish(Outdated(act), TRUE, verify[p].auth, [verify EXCEPT ![p] = NoPost])
BY Starters, PostTimes DEF VerifyLands, Records

\* Every step keeps the records ...
LEMMA RecordsNext ==
    ASSUME StepUpInv, [Next]_vars
    PROVE  Records'
<1> USE Starters, Moves, PostTimes DEF Records, Flags
<1> Flags /\ Records
  BY TypeParts DEF StepUpInv
<1> "opening" \in Views
  BY DEF Views
<1>1. ASSUME NEW a \in Acts, Start(a) \/ Settle(a) \/ RetryAtOnce(a) \/ Surface(a) PROVE Records'
  <2>1. \E state \in ActRecords : Becomes(a, state)
    BY <1>1 DEF Start, Settle, RetryAtOnce, Surface
  <2> QED
    BY <2>1 DEF Becomes, api, store, body, keys, links, page
<1>2. ASSUME NEW a \in Acts, Ask(a) PROVE Records'
  BY <1>2 DEF Ask, MountBody, api, store, provider, keys, links, body, page
<1>3. CASE ChunkLoads
  BY <1>3 DEF ChunkLoads, MountBody, api, store, provider, keys, links, body, page
<1>4. CASE ChunkFails
  <2>1. UNCHANGED <<api, store, page>> /\ Finish(act, FALSE, token, verify)
    BY <1>4 DEF ChunkFails
  <2> QED
    BY <2>1, FinishFacts DEF store, page
<1>5. CASE Dismiss
  <2>1. UNCHANGED <<api, store, chunk, page>> /\ Finish(act, FALSE, token, verify)
    BY <1>5 DEF Dismiss
  <2> QED
    BY <2>1, FinishFacts DEF store, page
<1>6. CASE PromptPasskey
  <2>1. verify' \in [Posts -> PostRecords]
    BY <1>6, SupersededFacts DEF PromptPasskey
  <2>2. attempt' \in AttemptRecords
    BY <1>6 DEF PromptPasskey
  <2> QED
    BY <1>6, <2>1, <2>2 DEF PromptPasskey, store, provider, links, page
<1>7. CASE SwitchToLink
  <2>1. verify' \in [Posts -> PostRecords]
    BY <1>7, SupersededFacts DEF SwitchToLink
  <2> QED
    BY <1>7, <2>1 DEF SwitchToLink, store, provider, links, page
<1>8. CASE OptionsArrive \/ OptionsRefused \/ PromptDismissed
  BY <1>8 DEF OptionsArrive, OptionsRefused, PromptDismissed, api, store, provider, keys, links,
     body, page
<1>9. CASE PromptAnswered
  <2>1. verify' \in [Posts -> PostRecords]
    BY <1>9, TimesAreNat DEF PromptAnswered
  <2>2. attempt' \in AttemptRecords
    BY <1>9 DEF PromptAnswered
  <2> QED
    BY <1>9, <2>1, <2>2 DEF PromptAnswered, store, provider, links, page
<1>10. ASSUME NEW p \in Posts, VerifyServed(p) PROVE Records'
  <2>1. session + 1 \in Times
    BY <1>10, StepUpAssumption DEF VerifyServed, Times
  <2>2. verify' \in [Posts -> PostRecords]
    BY <1>10, <2>1 DEF VerifyServed
  <2> QED
    BY <1>10, <2>2 DEF VerifyServed, store, provider, body, keys, links, page
<1>11. ASSUME NEW p \in Posts, VerifyLands(p) PROVE Records'
  <2>1. refresh' = refresh /\ confirm' = confirm
    BY <1>11, VerifyLandsCases DEF page
  <2>2. Outdated(act) \in [Acts -> ActRecords]
    BY OutdatedActs
  <2>3. CASE p = "orphan"
    BY <1>11, <2>1, <2>2, <2>3, VerifyLandsCases DEF body, keys, links
  <2>4. CASE p # "orphan"
    BY <1>11, <2>1, <2>2, <2>4, VerifyLandsCases, FinishFacts
  <2> QED
    BY <2>3, <2>4
<1>12. ASSUME NEW p \in Posts, VerifyFails(p) PROVE Records'
  BY <1>12 DEF VerifyFails, api, store, provider, keys, links, body, page
<1>13. CASE SendLink \/ LinkServed
  BY <1>13 DEF SendLink, LinkServed, api, store, provider, keys, links, body, page
<1>14. CASE LinkMailed \/ LinkRefused
  BY <1>14 DEF LinkMailed, BeginWait, LinkRefused, api, store, provider, keys, links, body, page
<1>15. CASE Hear \/ TryAgain
  BY <1>15 DEF Hear, Resume, AskRefresh, TryAgain, api, store, provider, keys, links, body, page
<1>16. CASE RefreshServed \/ RefreshFails \/ BackgroundRefresh
  BY <1>16 DEF RefreshServed, RefreshFails, FailedView, BackgroundRefresh, AskRefresh, api,
     store, provider, keys, links, body, page
<1>17. CASE RefreshLands
  <2>1. confirm' = confirm /\ refresh.auth \in Times /\ Outdated(act) \in [Acts -> ActRecords]
    BY <1>17, LandsCases, OutdatedActs DEF page
  <2>2. CASE NewLands
    BY <2>1, <2>2, FinishFacts DEF NewLands
  <2>3. CASE OldLands
    <3>1. refresh' \in RefreshRecords /\ resume' \in ResumeRecords
      BY <2>3 DEF OldLands
    <3> QED
      BY <2>1, <2>3, <3>1 DEF OldLands, keys
  <2> QED
    BY <1>17, <2>2, <2>3, LandsCases
<1>18. CASE Reload
  <2>1. /\ act' = [a \in Acts |-> Idle] /\ refresh' = NoRefresh /\ confirm' = confirm
        /\ attempt' = NoAttempt /\ link' = NoLink /\ resume' = NoResume
        /\ verify' = Orphaned([p \in Posts |-> NoPost])
    BY <1>18 DEF Reload, UnmountBody
  <2> QED
    BY <2>1, OrphanOf
<1>19. CASE OpenLink \/ PostAgain \/ PostExpired \/ PostServed \/ PostAnswered \/ PostFinal \/
            PostFails
  BY <1>19 DEF OpenLink, Page, WaitingTab, PostAgain, PostExpired, PostServed, PostAnswered,
     PostFinal, PostFails, api, store, provider, keys, links, body, page
<1>20. CASE TimePasses \/ ConfirmedElsewhere
  BY <1>20 DEF TimePasses, ConfirmedElsewhere, api, store, provider, keys, links, body, page
<1>21. CASE UNCHANGED vars
  BY <1>21 DEF vars, api, store, provider, keys, links, body, page
<1> QED
  BY <1>1, <1>2, <1>3, <1>4, <1>5, <1>6, <1>7, <1>8, <1>9, <1>10, <1>11, <1>12, <1>13, <1>14,
     <1>15, <1>16, <1>17, <1>18, <1>19, <1>20, <1>21 DEF Next

\* ... and everything else that is typed.
LEMMA FlagsNext ==
    ASSUME StepUpInv, [Next]_vars
    PROVE  Flags'
<1> USE PostTimes, TimesAreNat DEF Flags, Records
<1> Flags /\ Records
  BY TypeParts DEF StepUpInv
<1> USE DEF Views
<1>1. ASSUME NEW a \in Acts, Start(a) \/ Settle(a) \/ RetryAtOnce(a) \/ Surface(a) PROVE Flags'
  BY <1>1 DEF Start, Becomes, Sent, Settle, InFlight, RetryAtOnce, Surface, api, store,
     provider, keys, links, body, page
<1>2. ASSUME NEW a \in Acts, Ask(a) PROVE Flags'
  <2>1. open' = TRUE /\ chunk' \in {"none", "loading", "loaded"} /\ UNCHANGED <<api, store, page>>
    BY <1>2 DEF Ask
  <2>2. CASE chunk = "loaded" /\ ~open
    BY <1>2, <2>1, <2>2 DEF Ask, MountBody, api, store, page
  <2>3. CASE ~(chunk = "loaded" /\ ~open)
    BY <1>2, <2>1, <2>3 DEF Ask, body, keys, links, api, store, page
  <2> QED
    BY <2>2, <2>3
<1>3. CASE ChunkLoads
  <2>1. chunk' = "loaded" /\ UNCHANGED <<api, store, act, open, page>>
    BY <1>3 DEF ChunkLoads
  <2>2. CASE open
    BY <1>3, <2>1, <2>2 DEF ChunkLoads, MountBody, api, store, page
  <2>3. CASE ~open
    BY <1>3, <2>1, <2>3 DEF ChunkLoads, body, keys, links, api, store, page
  <2> QED
    BY <2>2, <2>3
<1>4. CASE ChunkFails
  <2>1. UNCHANGED <<api, store, page>> /\ Finish(act, FALSE, token, verify) /\ chunk' = "none"
    BY <1>4 DEF ChunkFails
  <2> QED
    BY <2>1, FinishFacts DEF api, store, page
<1>5. CASE Dismiss
  <2>1. UNCHANGED <<api, store, chunk, page>> /\ Finish(act, FALSE, token, verify)
    BY <1>5 DEF Dismiss
  <2> QED
    BY <2>1, FinishFacts DEF api, store, page
<1>6. CASE PromptPasskey \/ SwitchToLink
  BY <1>6 DEF PromptPasskey, Superseded, SwitchToLink, api, store, provider, keys, links, body,
     page
<1>7. CASE OptionsArrive \/ OptionsRefused \/ PromptDismissed
  BY <1>7 DEF OptionsArrive, OptionsRefused, PromptDismissed, api, store, provider, keys, links,
     body, page
<1>8. CASE PromptAnswered
  BY <1>8 DEF PromptAnswered, api, store, provider, keys, links, body, page
<1>9. ASSUME NEW p \in Posts, VerifyServed(p) \/ VerifyFails(p) PROVE Flags'
  BY <1>9 DEF VerifyServed, VerifyFails, api, store, provider, keys, links, body, page
<1>10. ASSUME NEW p \in Posts, VerifyLands(p) PROVE Flags'
  <2>1. token' \in Times /\ UNCHANGED <<api, chunk, page>> /\ Outdated(act) \in [Acts -> ActRecords]
    BY <1>10, VerifyLandsCases, OutdatedActs
  <2>2. CASE p = "orphan"
    BY <1>10, <2>1, <2>2, VerifyLandsCases DEF body, keys, links, api, page
  <2>3. CASE p # "orphan"
    BY <1>10, <2>1, <2>3, VerifyLandsCases, FinishFacts DEF api, page
  <2> QED
    BY <2>2, <2>3
<1>11. CASE SendLink \/ LinkServed
  BY <1>11 DEF SendLink, LinkServed, api, store, provider, keys, links, body, page
<1>12. CASE LinkMailed \/ LinkRefused
  BY <1>12 DEF LinkMailed, BeginWait, LinkRefused, api, store, provider, keys, links, body, page
<1>13. CASE Hear \/ TryAgain
  BY <1>13 DEF Hear, Resume, AskRefresh, TryAgain, api, store, provider, keys, links, body, page
<1>14. CASE RefreshServed \/ RefreshFails \/ BackgroundRefresh
  BY <1>14 DEF RefreshServed, RefreshFails, FailedView, BackgroundRefresh, AskRefresh, api,
     store, provider, keys, links, body, page
<1>15. CASE RefreshLands
  <2>1. token' \in Times /\ UNCHANGED <<api, chunk, page>> /\ Outdated(act) \in [Acts -> ActRecords]
        /\ refresh.auth \in Times
    BY <1>15, LandsCases, OutdatedActs
  <2>2. CASE NewLands
    BY <2>1, <2>2, FinishFacts DEF NewLands, api, page
  <2>3. CASE OldLands
    BY <2>1, <2>3 DEF OldLands, api, page, keys
  <2> QED
    BY <1>15, <2>2, <2>3, LandsCases
<1>16. CASE Reload
  <2>1. /\ token' = session /\ open' = FALSE /\ chunk' = "none" /\ message' = FALSE /\ view' = "closed"
        /\ hasPasskey' = FALSE /\ lock' = FALSE /\ baseline' = 0 /\ UNCHANGED api
    BY <1>16 DEF Reload, UnmountBody, Released
  <2> QED
    BY <2>1 DEF api
<1>17. CASE OpenLink \/ PostAgain \/ PostExpired \/ PostAnswered \/ PostFinal \/ PostFails
  BY <1>17, ZenonT(60) DEF OpenLink, Page, WaitingTab, PostAgain, PostExpired, PostAnswered, PostFinal,
     PostFails, api, store, provider, keys, links, body, page
<1>18. CASE PostServed
  <2>1. session' \in Times /\ mailed' = FALSE /\ UNCHANGED <<threshold, message, store, provider, body>>
    BY <1>18 DEF PostServed, Page
  <2> QED
    BY <2>1 DEF store, provider, body, keys, links
<1>19. CASE TimePasses \/ ConfirmedElsewhere
  BY <1>19 DEF TimePasses, ConfirmedElsewhere, api, store, provider, keys, links, body, page
<1>20. CASE UNCHANGED vars
  BY <1>20 DEF vars, api, store, provider, keys, links, body, page
<1> QED
  BY <1>1, <1>2, <1>3, <1>4, <1>5, <1>6, <1>7, <1>8, <1>9, <1>10, <1>11, <1>12, <1>13, <1>14,
     <1>15, <1>16, <1>17, <1>18, <1>19, <1>20 DEF Next

-----------------------------------------------------------------------------
(* The dialog and its waiters. *)

BodyKept == LiveIsPosted /\ NobodyForgotten /\ BodyFits

\* After an answer nobody waits and the dialog is gone.
LEMMA FinishedBody ==
    ASSUME Records, NEW acts \in [Acts -> ActRecords], NEW confirmed \in BOOLEAN, NEW tok \in Times,
           NEW posts \in [Posts -> PostRecords], Finish(acts, confirmed, tok, posts)
    PROVE  BodyKept'
<1>1. \A a \in Acts : act'[a].stage # "waiting"
  <2>1. \A a \in Acts :
          /\ acts[a].stage # "waiting" => act'[a] = acts[a]
          /\ acts[a].stage = "waiting" =>
               act'[a] = Sent("retried", tok) \/ act'[a].stage = "refused"
    BY FinishFacts
  <2>2. Sent("retried", tok).stage = "retried"
    BY DEF Sent
  <2> QED
    BY <2>1, <2>2
<1>2. /\ open' = FALSE /\ view' = "closed" /\ attempt' = NoAttempt /\ link' = NoLink
      /\ resume' = NoResume /\ lock' = FALSE /\ verify'["live"] = NoPost
  BY FinishFacts
<1> QED
  BY <1>1, <1>2 DEF BodyKept, LiveIsPosted, NobodyForgotten, BodyFits, Mounted, NoAttempt,
     NoPost

\* Every step keeps the dialog and its waiters in step.
LEMMA BodyNext ==
    ASSUME StepUpInv, [Next]_vars
    PROVE  BodyKept'
<1> Flags /\ Records /\ BodyKept
  BY TypeParts DEF StepUpInv, BodyKept
<1> act \in [Acts -> ActRecords] /\ verify \in [Posts -> PostRecords] /\ token \in Times
  BY DEF Records, Flags
<1>1. ASSUME NEW a \in Acts, Start(a) \/ RetryAtOnce(a) \/ Surface(a) PROVE BodyKept'
  BY <1>1 DEF Start, Becomes, Sent, RetryAtOnce, Surface, api, store, provider, keys, links,
     body, page, BodyKept, LiveIsPosted, NobodyForgotten, BodyFits, Mounted, Records, Flags,
     ActRecords, PostRecords, RefreshRecords, AttemptRecords, LinkRecords, ResumeRecords, Posts,
     NoAttempt, NoLink, NoResume, NoPost, NoRefresh
<1>2. ASSUME NEW a \in Acts, Settle(a) PROVE BodyKept'
  <2>1. /\ \A c \in Acts : act'[c].stage = "waiting" <=> act[c].stage = "waiting"
        /\ UNCHANGED <<refresh, chunk, open, view, attempt, link, resume, lock, verify>>
    BY <1>2 DEF Settle, Becomes, InFlight, Idle, Records, store, body, keys, links
  <2> QED
    BY <2>1 DEF BodyKept, LiveIsPosted, NobodyForgotten, BodyFits, Mounted
<1>3. ASSUME NEW a \in Acts, Ask(a) PROVE BodyKept'
  BY <1>3 DEF Ask, MountBody, api, store, provider, keys, links, body, page, BodyKept,
     LiveIsPosted, NobodyForgotten, BodyFits, Mounted, Records, Flags, ActRecords, PostRecords,
     RefreshRecords, AttemptRecords, LinkRecords, ResumeRecords, Posts, NoAttempt, NoLink,
     NoResume, NoPost, NoRefresh
<1>4. CASE ChunkLoads \/ PromptPasskey \/ SwitchToLink \/ OptionsArrive \/ OptionsRefused \/
            PromptAnswered \/ PromptDismissed
  BY <1>4 DEF ChunkLoads, MountBody, PromptPasskey, Superseded, SwitchToLink, OptionsArrive,
     OptionsRefused, PromptAnswered, PromptDismissed, api, store, provider, keys, links, body,
     page, BodyKept, LiveIsPosted, NobodyForgotten, BodyFits, Mounted, Records, Flags,
     ActRecords, PostRecords, RefreshRecords, AttemptRecords, LinkRecords, ResumeRecords, Posts,
     NoAttempt, NoLink, NoResume, NoPost, NoRefresh
<1>5. CASE ChunkFails
  BY <1>5, FinishedBody DEF ChunkFails
<1>6. CASE Dismiss
  BY <1>6, FinishedBody DEF Dismiss
<1>7. ASSUME NEW p \in Posts, VerifyServed(p) \/ VerifyFails(p) PROVE BodyKept'
  BY <1>7 DEF VerifyServed, VerifyFails, api, store, provider, keys, links, body, page,
     BodyKept, LiveIsPosted, NobodyForgotten, BodyFits, Mounted, Records, Flags, ActRecords,
     PostRecords, RefreshRecords, AttemptRecords, LinkRecords, ResumeRecords, Posts, NoAttempt,
     NoLink, NoResume, NoPost, NoRefresh
<1>8. ASSUME NEW p \in Posts, VerifyLands(p) PROVE BodyKept'
  <2>1. Outdated(act) \in [Acts -> ActRecords]
    BY OutdatedActs
  <2>2. CASE p = "orphan"
    <3>1. act' = Outdated(act) /\ verify' = [verify EXCEPT !["orphan"] = NoPost]
          /\ UNCHANGED <<refresh, chunk, open, view, attempt, link, resume, lock>>
      BY <1>8, <2>2, VerifyLandsCases DEF body, keys, links
    <3>2. verify'["live"] = verify["live"] /\ \A a \in Acts : act'[a].stage = act[a].stage
      BY <3>1, OutdatedActs DEF Posts
    <3> QED
      BY <3>1, <3>2 DEF BodyKept, LiveIsPosted, NobodyForgotten, BodyFits, Mounted
  <2>3. CASE p # "orphan"
    BY <1>8, <2>1, <2>3, VerifyLandsCases, FinishedBody
  <2> QED
    BY <2>2, <2>3
<1>9. CASE SendLink \/ LinkServed \/ LinkMailed \/ LinkRefused
  BY <1>9 DEF SendLink, LinkServed, LinkMailed, BeginWait, LinkRefused, api, store, provider,
     keys, links, body, page, BodyKept, LiveIsPosted, NobodyForgotten, BodyFits, Mounted,
     Records, Flags, ActRecords, PostRecords, RefreshRecords, AttemptRecords, LinkRecords,
     ResumeRecords, Posts, NoAttempt, NoLink, NoResume, NoPost, NoRefresh
<1>10. CASE Hear \/ TryAgain \/ RefreshServed \/ RefreshFails \/ BackgroundRefresh
  BY <1>10 DEF Hear, Resume, AskRefresh, TryAgain, RefreshServed, RefreshFails, FailedView,
     BackgroundRefresh, api, store, provider, keys, links, body, page, BodyKept, LiveIsPosted,
     NobodyForgotten, BodyFits, Mounted, Records, Flags, ActRecords, PostRecords,
     RefreshRecords, AttemptRecords, LinkRecords, ResumeRecords, Posts, NoAttempt, NoLink,
     NoResume, NoPost, NoRefresh
<1>11. CASE RefreshLands
  <2>1. Outdated(act) \in [Acts -> ActRecords] /\ refresh.auth \in Times
    BY OutdatedActs, PostTimes DEF Records
  <2>2. CASE NewLands
    BY <2>1, <2>2, FinishedBody DEF NewLands
  <2>3. CASE OldLands
    <3>1. UNCHANGED <<chunk, open, attempt, link, lock, verify>>
      BY <1>11, <2>3, LandsCases DEF OldLands, keys
    <3>2. \A a \in Acts : act'[a].stage = act[a].stage
      BY <2>3, OutdatedActs DEF OldLands
    <3>3. /\ view' = view \/ (view' = "email" /\ resume # NoResume)
          /\ resume' # NoResume => refresh' # NoRefresh /\ resume # NoResume
          /\ view' = "resuming" => resume' # NoResume
      BY <2>3 DEF OldLands, BodyKept, NobodyForgotten, NoResume, NoRefresh, Records,
         ResumeRecords
    <3> QED
      BY <3>1, <3>2, <3>3 DEF BodyKept, LiveIsPosted, NobodyForgotten, BodyFits, Mounted
  <2> QED
    BY <1>11, <2>2, <2>3, LandsCases
<1>12. CASE Reload
  <2>1. /\ \A a \in Acts : act'[a].stage = "idle"
        /\ open' = FALSE /\ view' = "closed" /\ attempt' = NoAttempt /\ link' = NoLink
        /\ resume' = NoResume /\ lock' = FALSE /\ verify'["live"] = NoPost
    BY <1>12 DEF Reload, UnmountBody, Released, Idle, Orphaned, Posts
  <2> QED
    BY <2>1 DEF BodyKept, LiveIsPosted, NobodyForgotten, BodyFits, Mounted, NoAttempt, NoPost
<1>13. CASE OpenLink \/ PostAgain \/ PostExpired \/ PostServed \/ PostAnswered \/ PostFinal \/
            PostFails \/ TimePasses \/ ConfirmedElsewhere
  BY <1>13 DEF OpenLink, Page, WaitingTab, PostAgain, PostExpired, PostServed, PostAnswered,
     PostFinal, PostFails, TimePasses, ConfirmedElsewhere, api, store, provider, keys, links,
     body, page, BodyKept, LiveIsPosted, NobodyForgotten, BodyFits, Mounted, Records, Flags,
     ActRecords, PostRecords, RefreshRecords, AttemptRecords, LinkRecords, ResumeRecords, Posts,
     NoAttempt, NoLink, NoResume, NoPost, NoRefresh
<1>14. CASE UNCHANGED vars
  BY <1>14 DEF vars, api, store, provider, keys, links, body, page, BodyKept, LiveIsPosted,
     NobodyForgotten, BodyFits, Mounted, Records, Flags, ActRecords, PostRecords,
     RefreshRecords, AttemptRecords, LinkRecords, ResumeRecords, Posts, NoAttempt, NoLink,
     NoResume, NoPost, NoRefresh
<1> QED
  BY <1>1, <1>2, <1>3, <1>4, <1>5, <1>6, <1>7, <1>8, <1>9, <1>10, <1>11, <1>12, <1>13, <1>14 DEF
     Next

-----------------------------------------------------------------------------
(* Times. *)

\* Every time is a number.
LEMMA AuthTimes ==
    ASSUME Flags, Records
    PROVE  /\ session \in Nat /\ threshold \in Nat /\ token \in Nat /\ baseline \in Nat
           /\ \A a \in Acts : act[a].auth \in Nat
           /\ \A p \in Posts : verify[p].auth \in Nat
           /\ refresh.auth \in Nat /\ resume.heard \in Nat
BY TimesAreNat DEF Flags, Records, ActRecords, PostRecords, RefreshRecords, ResumeRecords

\* An answer gives every waiter the time of its token.
LEMMA FinishedTimes ==
    ASSUME Records, Flags, NEW acts \in [Acts -> ActRecords], NEW confirmed \in BOOLEAN, NEW tok \in Times,
           NEW posts \in [Posts -> PostRecords], Finish(acts, confirmed, tok, posts),
           UNCHANGED <<session, threshold>>, token' = tok, tok <= session, threshold <= session + 1,
           \A a \in Acts : acts[a].auth <= session,
           \A a \in Acts : acts[a].stage \in {"sent", "resent", "retried"} /\ acts[a].current
                             => acts[a].auth = tok,
           \A p \in Posts : posts[p].stage = "served" =>
                               threshold <= posts[p].auth /\ posts[p].auth <= session,
           refresh'.stage = "served" => refresh'.auth <= session /\ (tok <= refresh'.auth \/ threshold <= tok)
    PROVE  TimesFit'
<1>1. \A a \in Acts : /\ acts[a].stage # "waiting" => act'[a] = acts[a]
                      /\ acts[a].stage = "waiting" =>
                           \/ act'[a] = Sent("retried", tok)
                           \/ act'[a].stage = "refused" /\ act'[a].auth = acts[a].auth
  BY FinishFacts
<1>2. Sent("retried", tok).auth = tok
  BY DEF Sent
<1>3. \A a \in Acts : act'[a].auth <= session /\ (InFlight(a)' /\ act'[a].current => act'[a].auth = tok)
  BY <1>1, <1>2 DEF InFlight
<1>4. verify'["live"] = NoPost /\ verify'["left"] = NoPost /\ \E q \in Posts : verify'["orphan"] = posts[q]
  BY FinishFacts
<1>5. \A p \in Posts : verify'[p].stage = "served" =>
                           threshold <= verify'[p].auth /\ verify'[p].auth <= session
  BY <1>4 DEF Posts, NoPost
<1> QED
  BY <1>3, <1>5 DEF TimesFit

\* Every step keeps the times in order.
LEMMA TimesNext ==
    ASSUME StepUpInv, [Next]_vars
    PROVE  TimesFit'
<1> Flags /\ Records /\ TimesFit
  BY TypeParts DEF StepUpInv
<1> act \in [Acts -> ActRecords] /\ verify \in [Posts -> PostRecords] /\ token \in Times
  BY DEF Records, Flags
<1> USE AuthTimes
<1>1. ASSUME NEW a \in Acts, Start(a) \/ Settle(a) \/ RetryAtOnce(a) \/ Surface(a) PROVE TimesFit'
  BY <1>1 DEF Start, Becomes, Sent, Settle, InFlight, RetryAtOnce, Surface, api, store,
     provider, keys, links, body, page, TimesFit, InFlight, Records, Flags, ActRecords,
     PostRecords, RefreshRecords, Posts, NoPost, NoRefresh, Idle
<1>2. ASSUME NEW a \in Acts, Ask(a) PROVE TimesFit'
  BY <1>2 DEF Ask, MountBody, api, store, provider, keys, links, body, page, TimesFit, InFlight,
     Records, Flags, ActRecords, PostRecords, RefreshRecords, Posts, NoPost, NoRefresh, Idle
<1>3. CASE ChunkLoads \/ PromptPasskey \/ SwitchToLink \/ OptionsArrive \/ OptionsRefused \/
            PromptAnswered \/ PromptDismissed
  BY <1>3 DEF ChunkLoads, MountBody, PromptPasskey, Superseded, SwitchToLink, OptionsArrive,
     OptionsRefused, PromptAnswered, PromptDismissed, api, store, provider, keys, links, body,
     page, TimesFit, InFlight, Records, Flags, ActRecords, PostRecords, RefreshRecords, Posts,
     NoPost, NoRefresh, Idle
<1>4. CASE ChunkFails
  BY <1>4, FinishedTimes, ZenonT(60) DEF ChunkFails, TimesFit, InFlight, api, store
<1>5. CASE Dismiss
  BY <1>5, FinishedTimes, ZenonT(60) DEF Dismiss, TimesFit, InFlight, api, store
<1>6. ASSUME NEW p \in Posts, VerifyServed(p) \/ VerifyFails(p) PROVE TimesFit'
  BY <1>6 DEF VerifyServed, VerifyFails, api, store, provider, keys, links, body, page,
     TimesFit, InFlight, Records, Flags, ActRecords, PostRecords, RefreshRecords, Posts, NoPost,
     NoRefresh, Idle
<1>7. ASSUME NEW p \in Posts, VerifyLands(p) PROVE TimesFit'
  <2> DEFINE tok == verify[p].auth
             posts == [verify EXCEPT ![p] = NoPost]
  <2>1. /\ Outdated(act) \in [Acts -> ActRecords]
        /\ \A a \in Acts : /\ Outdated(act)[a].auth <= session
                            /\ ~(Outdated(act)[a].stage \in {"sent", "resent", "retried"}
                                   /\ Outdated(act)[a].current)
    BY OutdatedActs DEF TimesFit
  <2>2. /\ token' = tok /\ tok \in Times /\ tok <= session /\ threshold <= tok
        /\ UNCHANGED <<session, threshold, refresh>> /\ posts \in [Posts -> PostRecords]
    BY <1>7, VerifyLandsCases DEF api, TimesFit
  <2>3. \A q \in Posts : posts[q].stage = "served" =>
                             threshold <= posts[q].auth /\ posts[q].auth <= session
    BY DEF TimesFit, NoPost
  <2>4. CASE p = "orphan"
    <3>1. act' = Outdated(act) /\ verify' = posts
      BY <1>7, <2>4, VerifyLandsCases
    <3> QED
      BY <2>1, <2>2, <2>3, <3>1 DEF TimesFit, InFlight
  <2>5. CASE p # "orphan"
    <3>1. Finish(Outdated(act), TRUE, tok, posts)
      BY <1>7, <2>5, VerifyLandsCases
    <3>2. threshold <= session + 1 /\ (refresh'.stage = "served" => refresh'.auth <= session)
      BY <2>2 DEF TimesFit
    <3> HIDE DEF tok, posts
    <3> QED
      BY <2>1, <2>2, <2>3, <3>1, <3>2, FinishedTimes
  <2> QED
    BY <2>4, <2>5
<1>8. CASE SendLink \/ LinkServed \/ LinkMailed \/ LinkRefused
  BY <1>8 DEF SendLink, LinkServed, LinkMailed, BeginWait, LinkRefused, api, store, provider,
     keys, links, body, page, TimesFit, InFlight, Records, Flags, ActRecords, PostRecords,
     RefreshRecords, Posts, NoPost, NoRefresh, Idle
<1>9. CASE Hear \/ TryAgain \/ RefreshServed \/ RefreshFails \/ BackgroundRefresh
  BY <1>9 DEF Hear, Resume, AskRefresh, TryAgain, RefreshServed, RefreshFails, FailedView,
     BackgroundRefresh, api, store, provider, keys, links, body, page, TimesFit, InFlight,
     Records, Flags, ActRecords, PostRecords, RefreshRecords, Posts, NoPost, NoRefresh, Idle
<1>10. CASE RefreshLands
  <2>1. /\ Outdated(act) \in [Acts -> ActRecords]
        /\ \A a \in Acts : /\ Outdated(act)[a].auth <= session
                            /\ ~(Outdated(act)[a].stage \in {"sent", "resent", "retried"}
                                   /\ Outdated(act)[a].current)
    BY OutdatedActs DEF TimesFit
  <2>2. /\ token' = refresh.auth /\ refresh.auth \in Times /\ refresh.auth <= session
        /\ UNCHANGED <<session, threshold>> /\ threshold <= session + 1
    BY <1>10, LandsCases, PostTimes DEF api, TimesFit, Records
  <2>3. CASE NewLands
    <3>1. refresh'.stage # "served"
      BY <2>3 DEF NewLands, NoRefresh
    <3> QED
      BY <2>1, <2>2, <2>3, <3>1, FinishedTimes DEF NewLands, TimesFit
  <2>4. CASE OldLands
    <3>1. refresh'.stage # "served" /\ act' = Outdated(act) /\ verify' = verify
      BY <2>4 DEF OldLands, NoRefresh
    <3> QED
      BY <2>1, <2>2, <3>1 DEF TimesFit, InFlight
  <2> QED
    BY <1>10, <2>3, <2>4, LandsCases
<1>11. CASE Reload
  <2>1. /\ \A a \in Acts : act'[a].stage = "idle" /\ act'[a].auth = 0
        /\ token' = session /\ UNCHANGED <<session, threshold>> /\ refresh'.stage = "none"
    BY <1>11 DEF Reload, Idle, NoRefresh, api
  <2>2. \A p \in Posts : verify'[p].stage = "none"
    <3>1. [p \in Posts |-> NoPost] \in [Posts -> PostRecords]
      BY Starters
    <3>2. \A p \in Posts : verify'[p] = NoPost
      BY <1>11, <3>1, OrphanOf DEF Reload, UnmountBody, Posts
    <3> QED
      BY <3>2 DEF NoPost
  <2> QED
    BY <2>1, <2>2 DEF TimesFit, InFlight
<1>12. CASE OpenLink \/ PostAgain \/ PostExpired \/ PostServed \/ PostAnswered \/ PostFinal \/
            PostFails \/ TimePasses \/ ConfirmedElsewhere
  BY <1>12 DEF OpenLink, Page, WaitingTab, PostAgain, PostExpired, PostServed, PostAnswered,
     PostFinal, PostFails, TimePasses, ConfirmedElsewhere, api, store, provider, keys, links,
     body, page, TimesFit, InFlight, Records, Flags, ActRecords, PostRecords, RefreshRecords,
     Posts, NoPost, NoRefresh, Idle
<1>13. CASE UNCHANGED vars
  BY <1>13 DEF vars, api, store, provider, keys, links, body, page, TimesFit, InFlight, Records,
     Flags, ActRecords, PostRecords, RefreshRecords, Posts, NoPost, NoRefresh, Idle
<1> QED
  BY <1>1, <1>2, <1>3, <1>4, <1>5, <1>6, <1>7, <1>8, <1>9, <1>10, <1>11, <1>12, <1>13 DEF Next

\* After an answer there is no waiter to speak of.
LEMMA FinishedWaiters ==
    ASSUME Records, NEW acts \in [Acts -> ActRecords], NEW confirmed \in BOOLEAN, NEW tok \in Times,
           NEW posts \in [Posts -> PostRecords], Finish(acts, confirmed, tok, posts)
    PROVE  WaitersFit' /\ Waiting' = {} /\ resume' = NoResume
<1>1. BodyKept' /\ open' = FALSE /\ lock' = FALSE /\ resume' = NoResume
  BY FinishedBody, FinishFacts
<1> QED
  BY <1>1 DEF BodyKept, NobodyForgotten, WaitersFit, ResumeFits, Waiting, NoResume

\* Every step keeps what is known of the waiters' times.
LEMMA WaitersNext ==
    ASSUME StepUpInv, [Next]_vars
    PROVE  WaitersFit'
<1> Flags /\ Records /\ BodyKept /\ TimesFit /\ WaitersFit
  BY TypeParts DEF StepUpInv, BodyKept
<1> act \in [Acts -> ActRecords] /\ verify \in [Posts -> PostRecords] /\ token \in Times
  BY DEF Records, Flags
<1> USE AuthTimes
<1>1. ASSUME NEW a \in Acts, Start(a) \/ Settle(a) \/ RetryAtOnce(a) \/ Surface(a) PROVE WaitersFit'
  BY <1>1 DEF Start, Becomes, Sent, Settle, InFlight, RetryAtOnce, Surface, api, store,
     provider, keys, links, body, page, WaitersFit, Waiting, Records, Flags, ActRecords,
     RefreshRecords, NoRefresh, Idle, Stale, SentWithCurrentToken, TimesFit, InFlight
<1>2. ASSUME NEW a \in Acts, Ask(a) PROVE WaitersFit'
  BY <1>2 DEF Ask, MountBody, api, store, provider, keys, links, body, page, WaitersFit,
     Waiting, Records, Flags, ActRecords, RefreshRecords, NoRefresh, Idle, Stale,
     SentWithCurrentToken, TimesFit, InFlight
<1>3. CASE ChunkLoads \/ PromptPasskey \/ SwitchToLink \/ OptionsArrive \/ OptionsRefused \/
            PromptAnswered \/ PromptDismissed
  BY <1>3 DEF ChunkLoads, MountBody, PromptPasskey, Superseded, SwitchToLink, OptionsArrive,
     OptionsRefused, PromptAnswered, PromptDismissed, api, store, provider, keys, links, body,
     page, WaitersFit, Waiting, Records, Flags, ActRecords, RefreshRecords, NoRefresh, Idle,
     Stale, SentWithCurrentToken, TimesFit, InFlight
<1>4. CASE ChunkFails
  BY <1>4, FinishedWaiters DEF ChunkFails
<1>5. CASE Dismiss
  BY <1>5, FinishedWaiters DEF Dismiss
<1>6. ASSUME NEW p \in Posts, VerifyServed(p) \/ VerifyFails(p) PROVE WaitersFit'
  BY <1>6 DEF VerifyServed, VerifyFails, api, store, provider, keys, links, body, page,
     WaitersFit, Waiting, Records, Flags, ActRecords, RefreshRecords, NoRefresh, Idle, Stale,
     SentWithCurrentToken, TimesFit, InFlight
<1>7. ASSUME NEW p \in Posts, VerifyLands(p) PROVE WaitersFit'
  <2>1. Outdated(act) \in [Acts -> ActRecords]
    BY OutdatedActs
  <2>2. CASE p = "orphan"
    <3>1. /\ act' = Outdated(act) /\ UNCHANGED <<threshold, refresh, lock, baseline>>
          /\ token' = verify[p].auth /\ threshold <= verify[p].auth
      BY <1>7, <2>2, VerifyLandsCases DEF body, links, api, TimesFit
    <3>2. Waiting' = Waiting /\ \A a \in Acts : act'[a].auth = act[a].auth
      BY <3>1, OutdatedActs DEF Waiting
    <3> QED
      BY <3>1, <3>2 DEF WaitersFit, Waiting
  <2>3. CASE p # "orphan"
    BY <1>7, <2>1, <2>3, VerifyLandsCases, FinishedWaiters
  <2> QED
    BY <2>2, <2>3
<1>8. CASE SendLink \/ LinkServed
  BY <1>8 DEF SendLink, LinkServed, api, store, provider, keys, links, body, page, WaitersFit,
     Waiting, Records, Flags, ActRecords, RefreshRecords, NoRefresh, Idle, Stale,
     SentWithCurrentToken, TimesFit, InFlight
<1>9. CASE LinkMailed
  <2>1. \E a \in Waiting : act[a].auth <= token
    BY <1>9 DEF LinkMailed, BodyKept, BodyFits, NobodyForgotten, NoLink, WaitersFit, Waiting
  <2>2. UNCHANGED <<act, threshold, token, refresh>> /\ baseline' = IF lock THEN baseline ELSE token
    BY <1>9 DEF LinkMailed, BeginWait, api, store, provider
  <2> QED
    BY <2>1, <2>2 DEF WaitersFit, Waiting
<1>10. CASE LinkRefused
  <2>1. \E a \in Waiting : act[a].auth <= token
    BY <1>10 DEF LinkRefused, BodyKept, BodyFits, NobodyForgotten, WaitersFit, Waiting
  <2>2. /\ UNCHANGED <<act, threshold, token, refresh>>
        /\ UNCHANGED <<lock, baseline>> \/ baseline' = IF lock THEN baseline ELSE token
    BY <1>10 DEF LinkRefused, BeginWait, api, store, provider
  <2> QED
    BY <2>1, <2>2 DEF WaitersFit, Waiting
<1>11. CASE Hear \/ TryAgain \/ RefreshServed \/ RefreshFails \/ BackgroundRefresh
  BY <1>11 DEF Hear, Resume, AskRefresh, TryAgain, RefreshServed, RefreshFails, FailedView,
     BackgroundRefresh, api, store, provider, keys, links, body, page, WaitersFit, Waiting,
     Records, Flags, ActRecords, RefreshRecords, NoRefresh, Idle, Stale, SentWithCurrentToken,
     TimesFit, InFlight
<1>12. CASE RefreshLands
  <2>1. Outdated(act) \in [Acts -> ActRecords] /\ refresh.auth \in Times
    BY OutdatedActs, PostTimes DEF Records
  <2>2. CASE NewLands
    BY <2>1, <2>2, FinishedWaiters DEF NewLands
  <2>3. CASE OldLands
    <3>1. /\ act' = Outdated(act) /\ UNCHANGED <<threshold, lock, baseline>>
          /\ token' = refresh.auth /\ refresh.stage = "served" /\ refresh'.stage # "served"
      BY <1>12, <2>3, LandsCases DEF OldLands, NoRefresh, api
    <3>2. Waiting' = Waiting /\ \A a \in Acts : act'[a].auth = act[a].auth
      BY <3>1, OutdatedActs DEF Waiting
    <3> QED
      BY <3>1, <3>2 DEF WaitersFit, Waiting
  <2> QED
    BY <1>12, <2>2, <2>3, LandsCases
<1>13. CASE Reload
  <2>1. lock' = FALSE /\ \A a \in Acts : act'[a].stage = "idle"
    BY <1>13 DEF Reload, UnmountBody, Released, Idle
  <2> QED
    BY <2>1 DEF WaitersFit, Waiting
<1>14. CASE OpenLink \/ PostAgain \/ PostExpired \/ PostServed \/ PostAnswered \/ PostFinal \/
            PostFails \/ TimePasses \/ ConfirmedElsewhere
  BY <1>14 DEF OpenLink, Page, WaitingTab, PostAgain, PostExpired, PostServed, PostAnswered,
     PostFinal, PostFails, TimePasses, ConfirmedElsewhere, api, store, provider, keys, links,
     body, page, WaitersFit, Waiting, Records, Flags, ActRecords, RefreshRecords, NoRefresh,
     Idle, Stale, SentWithCurrentToken, TimesFit, InFlight
<1>15. CASE UNCHANGED vars
  BY <1>15 DEF vars, api, store, provider, keys, links, body, page, WaitersFit, Waiting,
     Records, Flags, ActRecords, RefreshRecords, NoRefresh, Idle, Stale, SentWithCurrentToken,
     TimesFit, InFlight
<1> QED
  BY <1>1, <1>2, <1>3, <1>4, <1>5, <1>6, <1>7, <1>8, <1>9, <1>10, <1>11, <1>12, <1>13, <1>14,
     <1>15 DEF Next

\* Every step keeps what is known of a resume.
LEMMA ResumeNext ==
    ASSUME StepUpInv, [Next]_vars
    PROVE  ResumeFits'
<1> Flags /\ Records /\ BodyKept /\ TimesFit /\ ResumeFits
  BY TypeParts DEF StepUpInv, BodyKept
<1> act \in [Acts -> ActRecords] /\ verify \in [Posts -> PostRecords] /\ token \in Times
  BY DEF Records, Flags
<1> USE AuthTimes DEF ResumeFits
<1>1. ASSUME NEW a \in Acts, Start(a) \/ Settle(a) \/ RetryAtOnce(a) \/ Surface(a) PROVE ResumeFits'
  BY <1>1 DEF Start, Becomes, Sent, Settle, InFlight, RetryAtOnce, Surface, api, store,
     provider, keys, links, body, page, NoResume, NoRefresh, BodyKept, NobodyForgotten, Records,
     ResumeRecords, RefreshRecords
<1>2. ASSUME NEW a \in Acts, Ask(a) PROVE ResumeFits'
  BY <1>2 DEF Ask, MountBody, api, store, provider, keys, links, body, page, NoResume,
     NoRefresh, BodyKept, NobodyForgotten, Records, ResumeRecords, RefreshRecords
<1>3. CASE ChunkLoads \/ PromptPasskey \/ SwitchToLink \/ OptionsArrive \/ OptionsRefused \/
            PromptAnswered \/ PromptDismissed
  BY <1>3 DEF ChunkLoads, MountBody, PromptPasskey, Superseded, SwitchToLink, OptionsArrive,
     OptionsRefused, PromptAnswered, PromptDismissed, api, store, provider, keys, links, body,
     page, NoResume, NoRefresh, BodyKept, NobodyForgotten, Records, ResumeRecords,
     RefreshRecords
<1>4. CASE ChunkFails
  <2>1. resume' = NoResume /\ UNCHANGED session
    BY <1>4, FinishedWaiters DEF ChunkFails, api
  <2> QED
    BY <2>1 DEF NoResume
<1>5. CASE Dismiss
  <2>1. resume' = NoResume /\ UNCHANGED session
    BY <1>5, FinishedWaiters DEF Dismiss, api
  <2> QED
    BY <2>1 DEF NoResume
<1>6. ASSUME NEW p \in Posts, VerifyServed(p) \/ VerifyFails(p) PROVE ResumeFits'
  BY <1>6 DEF VerifyServed, VerifyFails, api, store, provider, keys, links, body, page,
     NoResume, NoRefresh, BodyKept, NobodyForgotten, Records, ResumeRecords, RefreshRecords
<1>7. ASSUME NEW p \in Posts, VerifyLands(p) PROVE ResumeFits'
  <2>1. UNCHANGED <<session, refresh>> /\ Outdated(act) \in [Acts -> ActRecords]
    BY <1>7, VerifyLandsCases, OutdatedActs DEF api
  <2>2. UNCHANGED resume \/ resume' = NoResume
    BY <1>7, <2>1, VerifyLandsCases, FinishedWaiters DEF body, links
  <2> QED
    BY <2>1, <2>2 DEF NoResume
<1>8. CASE SendLink \/ LinkServed \/ LinkMailed \/ LinkRefused
  BY <1>8 DEF SendLink, LinkServed, LinkMailed, BeginWait, LinkRefused, api, store, provider,
     keys, links, body, page, NoResume, NoRefresh, BodyKept, NobodyForgotten, Records,
     ResumeRecords, RefreshRecords
<1>9. CASE Hear \/ TryAgain \/ RefreshServed \/ RefreshFails \/ BackgroundRefresh
  BY <1>9 DEF Hear, Resume, AskRefresh, TryAgain, RefreshServed, RefreshFails, FailedView,
     BackgroundRefresh, api, store, provider, keys, links, body, page, NoResume, NoRefresh,
     BodyKept, NobodyForgotten, Records, ResumeRecords, RefreshRecords
<1>10. CASE RefreshLands
  <2>1. /\ UNCHANGED session /\ Outdated(act) \in [Acts -> ActRecords] /\ refresh.auth \in Times
    BY <1>10, LandsCases, OutdatedActs, PostTimes DEF api, Records
  <2>2. CASE NewLands
    <3>1. resume' = NoResume
      BY <2>1, <2>2, FinishedWaiters DEF NewLands
    <3> QED
      BY <2>1, <3>1 DEF NoResume
  <2>3. CASE OldLands
    <3>1. refresh'.stage # "served" /\ (resume' = NoResume \/ resume'.heard = resume.heard)
      BY <2>3 DEF OldLands, NoRefresh, Records, ResumeRecords
    <3> QED
      BY <2>1, <3>1 DEF NoResume
  <2> QED
    BY <1>10, <2>2, <2>3, LandsCases
<1>11. CASE Reload
  BY <1>11 DEF Reload, UnmountBody, Released, api, store, provider, keys, links, body, page,
     NoResume, NoRefresh, BodyKept, NobodyForgotten, Records, ResumeRecords, RefreshRecords
<1>12. CASE OpenLink \/ PostAgain \/ PostExpired \/ PostServed \/ PostAnswered \/ PostFinal \/
            PostFails \/ TimePasses \/ ConfirmedElsewhere
  BY <1>12 DEF OpenLink, Page, WaitingTab, PostAgain, PostExpired, PostServed, PostAnswered,
     PostFinal, PostFails, TimePasses, ConfirmedElsewhere, api, store, provider, keys, links,
     body, page, NoResume, NoRefresh, BodyKept, NobodyForgotten, Records, ResumeRecords,
     RefreshRecords
<1>13. CASE UNCHANGED vars
  BY <1>13 DEF vars, api, store, provider, keys, links, body, page, NoResume, NoRefresh,
     BodyKept, NobodyForgotten, Records, ResumeRecords, RefreshRecords
<1> QED
  BY <1>1, <1>2, <1>3, <1>4, <1>5, <1>6, <1>7, <1>8, <1>9, <1>10, <1>11, <1>12, <1>13 DEF Next

-----------------------------------------------------------------------------
(* Steps. *)

RetriedFresh ==
    \A a \in Acts : act[a].stage = "waiting" /\ act'[a].stage = "retried"
        => \E b \in Acts : act[b].stage = "waiting" /\ act[b].auth < act'[a].auth
AskedStale ==
    \A a \in Acts : act[a].stage # "waiting" /\ act'[a].stage = "waiting" => Stale(token)
WaitsOnFairly ==
    resume # NoResume /\ resume' = NoResume /\ view' = "email" => resume.heard <= baseline

\* What an answer does to those who wait.
LEMMA FinishedActs ==
    ASSUME Records, NEW acts \in [Acts -> ActRecords], NEW confirmed \in BOOLEAN, NEW tok \in Times,
           NEW posts \in [Posts -> PostRecords], Finish(acts, confirmed, tok, posts),
           \A a \in Acts : acts[a].stage = act[a].stage
    PROVE  /\ AskedStale /\ view' = "closed"
           /\ \A a \in Acts : act[a].stage = "waiting" =>
                 IF confirmed THEN act'[a].stage = "retried" /\ act'[a].auth = tok
                 ELSE act'[a].stage = "refused"
<1>1. view' = "closed" /\
      \A a \in Acts :
          /\ acts[a].stage # "waiting" => act'[a] = acts[a]
          /\ acts[a].stage = "waiting" =>
               IF confirmed THEN act'[a] = Sent("retried", tok)
               ELSE act'[a].stage = "refused"
  BY FinishFacts
<1>2. Sent("retried", tok).stage = "retried" /\ Sent("retried", tok).auth = tok
  BY DEF Sent
<1> QED
  BY <1>1, <1>2 DEF AskedStale

\* A step retries a waiter only after a newer confirmation, and asks only for a
\* stale token.
LEMMA ActsStep ==
    ASSUME StepUpInv, [Next]_vars
    PROVE  RetriedFresh /\ AskedStale
<1> Flags /\ Records /\ BodyKept /\ TimesFit /\ WaitersFit
  BY TypeParts DEF StepUpInv, BodyKept
<1> act \in [Acts -> ActRecords] /\ verify \in [Posts -> PostRecords] /\ token \in Times
  BY DEF Records, Flags
<1> USE AuthTimes
<1>1. ASSUME NEW a \in Acts, Start(a) \/ Settle(a) \/ RetryAtOnce(a) \/ Surface(a) PROVE RetriedFresh /\ AskedStale
  BY <1>1 DEF Start, Becomes, Sent, Settle, InFlight, RetryAtOnce, Surface, api, store,
     provider, keys, links, body, page, RetriedFresh, AskedStale, Records, ActRecords, Idle,
     Stale, SentWithCurrentToken, TimesFit, InFlight
<1>2. ASSUME NEW a \in Acts, Ask(a) PROVE RetriedFresh /\ AskedStale
  BY <1>2 DEF Ask, MountBody, api, store, provider, keys, links, body, page, RetriedFresh,
     AskedStale, Records, ActRecords, Idle, Stale, SentWithCurrentToken, TimesFit, InFlight
<1>3. CASE ChunkLoads \/ PromptPasskey \/ SwitchToLink \/ OptionsArrive \/ OptionsRefused \/
            PromptAnswered \/ PromptDismissed
  BY <1>3 DEF ChunkLoads, MountBody, PromptPasskey, Superseded, SwitchToLink, OptionsArrive,
     OptionsRefused, PromptAnswered, PromptDismissed, api, store, provider, keys, links, body,
     page, RetriedFresh, AskedStale, Records, ActRecords, Idle, Stale, SentWithCurrentToken,
     TimesFit, InFlight
<1>4. CASE ChunkFails
  <2>1. AskedStale /\ \A a \in Acts : act[a].stage = "waiting" => act'[a].stage = "refused"
    BY <1>4, FinishedActs DEF ChunkFails
  <2> QED
    BY <2>1 DEF RetriedFresh
<1>5. CASE Dismiss
  <2>1. AskedStale /\ \A a \in Acts : act[a].stage = "waiting" => act'[a].stage = "refused"
    BY <1>5, FinishedActs DEF Dismiss
  <2> QED
    BY <2>1 DEF RetriedFresh
<1>6. ASSUME NEW p \in Posts, VerifyServed(p) \/ VerifyFails(p) PROVE RetriedFresh /\ AskedStale
  BY <1>6 DEF VerifyServed, VerifyFails, api, store, provider, keys, links, body, page,
     RetriedFresh, AskedStale, Records, ActRecords, Idle, Stale, SentWithCurrentToken, TimesFit,
     InFlight
<1>7. ASSUME NEW p \in Posts, VerifyLands(p) PROVE RetriedFresh /\ AskedStale
  <2> DEFINE tok == verify[p].auth
             posts == [verify EXCEPT ![p] = NoPost]
  <2>1. /\ Outdated(act) \in [Acts -> ActRecords]
        /\ \A a \in Acts : Outdated(act)[a].stage = act[a].stage
    BY OutdatedActs
  <2>2. tok \in Times /\ threshold <= tok /\ posts \in [Posts -> PostRecords]
    BY <1>7, VerifyLandsCases DEF TimesFit
  <2>3. CASE p = "orphan"
    BY <1>7, <2>1, <2>3, VerifyLandsCases DEF RetriedFresh, AskedStale
  <2>4. CASE p # "orphan"
    <3>1. Finish(Outdated(act), TRUE, tok, posts)
      BY <1>7, <2>4, VerifyLandsCases
    <3>2. AskedStale /\ \A a \in Acts : act[a].stage = "waiting" => act'[a].auth = tok
      <4> HIDE DEF tok, posts
      <4> QED
        BY <2>1, <2>2, <3>1, FinishedActs
    <3>3. \A a \in Acts : act[a].stage = "waiting" => act[a].auth < tok
      BY <2>2 DEF WaitersFit, Waiting
    <3> HIDE DEF tok
    <3> QED
      BY <3>2, <3>3 DEF RetriedFresh
  <2> QED
    BY <2>3, <2>4
<1>8. CASE SendLink \/ LinkServed \/ LinkMailed \/ LinkRefused
  BY <1>8 DEF SendLink, LinkServed, LinkMailed, BeginWait, LinkRefused, api, store, provider,
     keys, links, body, page, RetriedFresh, AskedStale, Records, ActRecords, Idle, Stale,
     SentWithCurrentToken, TimesFit, InFlight
<1>9. CASE Hear \/ TryAgain \/ RefreshServed \/ RefreshFails \/ BackgroundRefresh
  BY <1>9 DEF Hear, Resume, AskRefresh, TryAgain, RefreshServed, RefreshFails, FailedView,
     BackgroundRefresh, api, store, provider, keys, links, body, page, RetriedFresh, AskedStale,
     Records, ActRecords, Idle, Stale, SentWithCurrentToken, TimesFit, InFlight
<1>10. CASE RefreshLands
  <2>1. /\ Outdated(act) \in [Acts -> ActRecords] /\ refresh.auth \in Times
        /\ \A a \in Acts : Outdated(act)[a].stage = act[a].stage
    BY OutdatedActs, PostTimes DEF Records
  <2>2. CASE NewLands
    <3>1. AskedStale /\ \A a \in Acts : act[a].stage = "waiting" => act'[a].auth = refresh.auth
      BY <2>1, <2>2, FinishedActs DEF NewLands
    <3>2. \E b \in Waiting : act[b].auth <= baseline
      BY <2>2 DEF NewLands, BodyKept, BodyFits, WaitersFit
    <3>3. \E b \in Waiting : act[b].auth < refresh.auth
      BY <2>2, <3>2 DEF NewLands, Waiting
    <3> QED
      BY <3>1, <3>3 DEF RetriedFresh, Waiting
  <2>3. CASE OldLands
    BY <2>1, <2>3 DEF OldLands, RetriedFresh, AskedStale
  <2> QED
    BY <1>10, <2>2, <2>3, LandsCases
<1>11. CASE Reload
  BY <1>11 DEF Reload, UnmountBody, Released, api, store, provider, keys, links, body, page,
     RetriedFresh, AskedStale, Records, ActRecords, Idle, Stale, SentWithCurrentToken, TimesFit,
     InFlight
<1>12. CASE OpenLink \/ PostAgain \/ PostExpired \/ PostServed \/ PostAnswered \/ PostFinal \/
            PostFails \/ TimePasses \/ ConfirmedElsewhere
  BY <1>12 DEF OpenLink, Page, WaitingTab, PostAgain, PostExpired, PostServed, PostAnswered,
     PostFinal, PostFails, TimePasses, ConfirmedElsewhere, api, store, provider, keys, links,
     body, page, RetriedFresh, AskedStale, Records, ActRecords, Idle, Stale,
     SentWithCurrentToken, TimesFit, InFlight
<1>13. CASE UNCHANGED vars
  BY <1>13 DEF vars, api, store, provider, keys, links, body, page, RetriedFresh, AskedStale,
     Records, ActRecords, Idle, Stale, SentWithCurrentToken, TimesFit, InFlight
<1> QED
  BY <1>1, <1>2, <1>3, <1>4, <1>5, <1>6, <1>7, <1>8, <1>9, <1>10, <1>11, <1>12, <1>13 DEF Next

\* A resume told of a new confirmation does not go back to waiting.
LEMMA ResumeStep ==
    ASSUME StepUpInv, [Next]_vars
    PROVE  WaitsOnFairly
<1> Flags /\ Records /\ BodyKept /\ TimesFit /\ ResumeFits
  BY TypeParts DEF StepUpInv, BodyKept
<1> act \in [Acts -> ActRecords] /\ verify \in [Posts -> PostRecords] /\ token \in Times
  BY DEF Records, Flags
<1> USE AuthTimes DEF WaitsOnFairly
<1>1. ASSUME NEW a \in Acts, Start(a) \/ Settle(a) \/ RetryAtOnce(a) \/ Surface(a) PROVE WaitsOnFairly
  BY <1>1 DEF Start, Becomes, Sent, Settle, InFlight, RetryAtOnce, Surface, api, store,
     provider, keys, links, body, page, BodyKept, BodyFits, Mounted, FailedView
<1>2. ASSUME NEW a \in Acts, Ask(a) PROVE WaitsOnFairly
  BY <1>2 DEF Ask, MountBody, api, store, provider, keys, links, body, page, BodyKept, BodyFits,
     Mounted, FailedView
<1>3. CASE ChunkLoads \/ PromptPasskey \/ SwitchToLink \/ OptionsArrive \/ OptionsRefused \/
            PromptAnswered \/ PromptDismissed
  BY <1>3 DEF ChunkLoads, MountBody, PromptPasskey, Superseded, SwitchToLink, OptionsArrive,
     OptionsRefused, PromptAnswered, PromptDismissed, api, store, provider, keys, links, body,
     page, BodyKept, BodyFits, Mounted, FailedView
<1>4. CASE ChunkFails
  BY <1>4, FinishedActs DEF ChunkFails
<1>5. CASE Dismiss
  BY <1>5, FinishedActs DEF Dismiss
<1>6. ASSUME NEW p \in Posts, VerifyServed(p) \/ VerifyFails(p) PROVE WaitsOnFairly
  BY <1>6 DEF VerifyServed, VerifyFails, api, store, provider, keys, links, body, page,
     BodyKept, BodyFits, Mounted, FailedView
<1>7. ASSUME NEW p \in Posts, VerifyLands(p) PROVE WaitsOnFairly
  <2>1. /\ Outdated(act) \in [Acts -> ActRecords]
        /\ \A a \in Acts : Outdated(act)[a].stage = act[a].stage
    BY OutdatedActs
  <2>2. UNCHANGED resume \/ view' = "closed"
    BY <1>7, <2>1, VerifyLandsCases, FinishedActs DEF body, links
  <2> QED
    BY <2>2
<1>8. CASE SendLink \/ LinkServed \/ LinkMailed \/ LinkRefused
  BY <1>8 DEF SendLink, LinkServed, LinkMailed, BeginWait, LinkRefused, api, store, provider,
     keys, links, body, page, BodyKept, BodyFits, Mounted, FailedView
<1>9. CASE Hear \/ TryAgain \/ RefreshServed \/ RefreshFails \/ BackgroundRefresh
  BY <1>9 DEF Hear, Resume, AskRefresh, TryAgain, RefreshServed, RefreshFails, FailedView,
     BackgroundRefresh, api, store, provider, keys, links, body, page, BodyKept, BodyFits,
     Mounted, FailedView
<1>10. CASE RefreshLands
  <2>1. /\ Outdated(act) \in [Acts -> ActRecords] /\ refresh.auth \in Times
        /\ \A a \in Acts : Outdated(act)[a].stage = act[a].stage
    BY OutdatedActs, PostTimes DEF Records
  <2>2. CASE NewLands
    BY <2>1, <2>2, FinishedActs DEF NewLands
  <2>3. CASE OldLands
    <3>1. CASE resume.stage = "second" /\ ~(refresh.auth > baseline)
      <4>1. resume.heard <= refresh.auth
        BY <1>10, <3>1, LandsCases DEF ResumeFits
      <4> QED
        BY <3>1, <4>1
    <3>2. CASE resume.stage = "first" /\ resume' = [resume EXCEPT !.stage = "second"]
      <4>1. resume'.stage = "second"
        BY <3>2 DEF Records, ResumeRecords
      <4> QED
        BY <4>1 DEF NoResume
    <3> QED
      BY <2>3, <3>1, <3>2 DEF OldLands
  <2> QED
    BY <1>10, <2>2, <2>3, LandsCases
<1>11. CASE Reload
  BY <1>11 DEF Reload, UnmountBody, Released, api, store, provider, keys, links, body, page,
     BodyKept, BodyFits, Mounted, FailedView
<1>12. CASE OpenLink \/ PostAgain \/ PostExpired \/ PostServed \/ PostAnswered \/ PostFinal \/
            PostFails \/ TimePasses \/ ConfirmedElsewhere
  BY <1>12 DEF OpenLink, Page, WaitingTab, PostAgain, PostExpired, PostServed, PostAnswered,
     PostFinal, PostFails, TimePasses, ConfirmedElsewhere, api, store, provider, keys, links,
     body, page, BodyKept, BodyFits, Mounted, FailedView
<1>13. CASE UNCHANGED vars
  BY <1>13 DEF vars, api, store, provider, keys, links, body, page, BodyKept, BodyFits, Mounted,
     FailedView
<1> QED
  BY <1>1, <1>2, <1>3, <1>4, <1>5, <1>6, <1>7, <1>8, <1>9, <1>10, <1>11, <1>12, <1>13 DEF Next

-----------------------------------------------------------------------------
(* The theorems. *)

\* The invariant, for the whole life of a page.
THEOREM StepUpSafe == Spec => []StepUpInv
<1>1. StepUpInv /\ [Next]_vars => StepUpInv'
  <2> SUFFICES ASSUME StepUpInv, [Next]_vars PROVE StepUpInv'
    OBVIOUS
  <2>1. Flags' /\ Records' /\ LiveIsPosted' => TypeOK'
    BY DEF TypeOK, Flags, Records, LiveIsPosted, ActRecords, PostRecords, RefreshRecords,
       AttemptRecords, LinkRecords, ResumeRecords, ConfirmRecords
  <2> QED
    BY <2>1, FlagsNext, RecordsNext, BodyNext, TimesNext, WaitersNext, ResumeNext DEF
       StepUpInv, BodyKept
<1> QED
  BY <1>1, InitInv, PTL DEF Spec

\* No action is forgotten by the dialog (step-up-provider.tsx:48-70,
\* step-up-dialog.tsx:361-387).
THEOREM WaitersHold == Spec => []WaitersKept
<1>1. StepUpInv => WaitersKept
  BY DEF StepUpInv, WaitersKept
<1> QED
  BY <1>1, StepUpSafe, PTL

\* The wait lock tells the truth (step-up-presence.ts:1-8).
THEOREM LocksHold == Spec => []LockMeansAction
<1>1. StepUpInv => LockMeansAction
  BY DEF StepUpInv, BodyFits, NobodyForgotten, LockMeansAction
<1> QED
  BY <1>1, StepUpSafe, PTL

\* Nothing is retried but after a real confirmation (step-up.ts:54-65,
\* step-up-dialog.tsx:355-374).
THEOREM ConfirmationsAreFresh == Spec => ConfirmedMeansFresh
<1>1. StepUpInv /\ [Next]_vars => [RetriedFresh]_vars
  BY ActsStep
<1> QED
  BY <1>1, StepUpSafe, PTL DEF Spec, ConfirmedMeansFresh, RetriedFresh

\* A refusal that another confirmation has overtaken never asks
\* (step-up.ts:17-31).
THEOREM OnlyStaleAsks == Spec => AsksOnlyIfStale
<1>1. StepUpInv /\ [Next]_vars => [AskedStale]_vars
  BY ActsStep
<1> QED
  BY <1>1, StepUpSafe, PTL DEF Spec, AsksOnlyIfStale, AskedStale

\* A resume after a real message goes on (step-up-dialog.tsx:366-370).
THEOREM GenuineResumesGoOn == Spec => GenuineResumes
<1>1. StepUpInv /\ [Next]_vars => [WaitsOnFairly]_vars
  BY ResumeStep
<1> QED
  BY <1>1, StepUpSafe, PTL DEF Spec, GenuineResumes, WaitsOnFairly
=============================================================================
