-------------------------------- MODULE SignIn --------------------------------
(***************************************************************************)
(* A signed-out tab that waits to be signed in: the sign-in page            *)
(* (pages/_auth/login, auth/sign-in-link-form) with its passkey requests    *)
(* (PasskeyPrompt), or an invitation's page (pages/invitations/accept).     *)
(* Both mail a link, show "Check your inbox" and listen for the tab that    *)
(* opens it (hooks/use-signed-in-elsewhere): pages/auth/link and            *)
(* pages/invitations/confirm.                                               *)
(*                                                                         *)
(* The API, the mail and the browser's one session cookie are external.     *)
(***************************************************************************)
EXTENDS PasskeyPrompt, Naturals

CONSTANTS
    People,
    Invitee,        \* whose address the links are mailed to
    Nobody,
    MaxMessages     \* bound: signed_in messages on their way

ASSUME SignInAssumption ==
    /\ Invitee \in People /\ Nobody \notin People
    /\ MaxMessages \in Nat \ {0}

VARIABLES
    kind,       \* which page the tab opened
    view,       \* what it shows
    mailedTo,   \* an invitation's 202 has named the address it mailed
    post,       \* the request for a link
    store,      \* who is signed in here
    restoring,  \* the listener's flag
    restore,    \* ensureSession(): its stage, whom it finds, and whether the
                \* listener that asked still listens
    heard,      \* (history) a message is still to be acted on
    claimed,    \* the page has said "You joined ... as ..."
    messages,   \* signed_in messages on their way to this tab
    cookie,     \* whose session the browser has
    mail,       \* the mailed link
    other,      \* the tab that opened it
    joined,     \* the invitee is a member
    strays      \* (history) the invitee signed in by something else

pageVars  == <<kind, view, mailedTo, post>>
earVars   == <<restoring, restore, heard, messages>>
worldVars == <<cookie, mail, other, joined, strays>>
vars == <<promptVars, pageVars, earVars, worldVars, store, claimed>>

NoRestore == [stage |-> "none", found |-> Nobody, wanted |-> FALSE]

TypeOK ==
    /\ PromptTypeOK
    /\ kind \in {"login", "invitation"}
    /\ view \in {"email", "inbox", "checking", "verifying", "again", "dead", "gone"}
    /\ field = "shown" <=> view = "email"
    /\ field = "gone" <=> view = "gone"
    /\ mailedTo \in BOOLEAN
    /\ post \in {"none", "sent", "served"}
    /\ store \in People \union {Nobody} /\ cookie \in People \union {Nobody}
    /\ restoring \in BOOLEAN /\ heard \in BOOLEAN /\ claimed \in BOOLEAN
    /\ restore \in [stage : {"none", "asked", "served", "joining"},
                    found : People \union {Nobody}, wanted : BOOLEAN]
    /\ messages \in 0 .. MaxMessages
    /\ mail \in {"none", "live", "spent"}
    /\ other \in {"none", "asks", "posting", "served"}
    /\ joined \in BOOLEAN /\ strays \in BOOLEAN

Init ==
    /\ PromptInit
    /\ kind \in {"login", "invitation"}
    /\ view = IF kind = "login" THEN "email" ELSE "checking"
    /\ field = IF kind = "login" THEN "shown" ELSE "hidden"
    /\ mailedTo = FALSE /\ post = "none"
    /\ store = Nobody /\ cookie = Nobody
    /\ restoring = FALSE /\ restore = NoRestore /\ heard = FALSE /\ claimed = FALSE
    /\ messages = 0 /\ mail = "none" /\ other = "none" /\ joined = FALSE /\ strays = FALSE

\* A link is out.  A dead invitation stops listening; a failed resend does not.
HearsAt(v, mailed) ==
    IF kind = "login" THEN v = "inbox" ELSE mailed /\ v \notin {"dead", "gone"}
Listening == HearsAt(view, mailedTo)

\* The listener stops: what it asked for is no longer wanted.
Hushed ==
    /\ restoring' = FALSE /\ heard' = FALSE
    /\ restore' = [restore EXCEPT !.wanted = FALSE]
    /\ UNCHANGED messages
ListensAt(v, mailed) ==
    IF HearsAt(v, mailed) THEN UNCHANGED earVars ELSE Hushed

-----------------------------------------------------------------------------
(* The page. *)

Show(v) == view' = v /\ ListensAt(v, mailedTo) /\ UNCHANGED <<kind, store, claimed, worldVars>>

PromptStep ==
    /\ kind = "login" /\ PromptNext
    /\ UNCHANGED <<pageVars, earVars, worldVars, store, claimed>>

PasskeySignsIn(r) ==
    /\ Verified(r)
    /\ store' = Invitee /\ cookie' = Invitee   \* bound: whose passkey it is does not matter here
    /\ UNCHANGED <<pageVars, earVars, mail, other, joined, strays, claimed>>

\* The form's submit, the inbox's resend, the failure's Try again.
Send ==
    /\ view \in {"email", "inbox", "again"} /\ post = "none"
    /\ post' = "sent"
    /\ UNCHANGED <<promptVars, kind, view, mailedTo, earVars, worldVars, store, claimed>>

\* The invitation's preview answers, and the page asks for the mail at once.
Preview ==
    /\ view = "checking"
    /\ view' = "verifying" /\ post' = "sent"
    /\ UNCHANGED <<promptVars, kind, mailedTo, earVars, worldVars, store, claimed>>

PostServed ==
    /\ post = "sent"
    /\ post' = "served" /\ mail' = "live"
    /\ UNCHANGED <<promptVars, kind, view, mailedTo, earVars, cookie, other, joined, strays,
                   store, claimed>>

\* The 202, though the person may have gone back to the email field meanwhile.
Mailed ==
    /\ post = "served" /\ view # "gone"
    /\ post' = "none"
    /\ IF view = "email" THEN FieldHides ELSE UNCHANGED promptVars
    /\ Show("inbox")
    /\ mailedTo' = (kind = "invitation")

\* A failure keeps the form; an invitation shows Try again, or keeps the inbox
\* on a rate limit.
PostFails ==
    /\ post # "none" /\ view # "gone"
    /\ post' = "none"
    /\ IF kind = "login" THEN Show(view)
       ELSE Show("again") \/ (view = "inbox" /\ Show(view))
    /\ UNCHANGED <<promptVars, mailedTo>>

\* The invitation is revoked, expired or used: a 404.
Dead ==
    /\ kind = "invitation" /\ (view = "checking" \/ (post = "sent" /\ view # "gone"))
    /\ post' = "none"
    /\ Show("dead")
    /\ UNCHANGED <<promptVars, mailedTo>>

\* "Use a different email".
ChangeEmail ==
    /\ kind = "login" /\ view = "inbox" /\ FieldShows
    /\ Show("email")
    /\ UNCHANGED <<mailedTo, post>>

\* The landing replaces the page, or the person leaves.
Leave ==
    /\ PageLeaves
    /\ Show("gone")
    /\ UNCHANGED <<mailedTo, post>>

-----------------------------------------------------------------------------
(* The listener. *)

HearMessage ==
    /\ messages > 0
    /\ messages' = messages - 1
    /\ IF Listening /\ ~restoring /\ store = Nobody
       THEN /\ restoring' = TRUE
            /\ restore' = [restore EXCEPT !.wanted = TRUE,
                                          !.stage = IF @ = "none" THEN "asked" ELSE @]
       ELSE UNCHANGED <<restoring, restore>>
    /\ heard' = (heard \/ (Listening /\ store = Nobody /\ restore = NoRestore))
    /\ UNCHANGED <<promptVars, pageVars, worldVars, store, claimed>>

RestoreServed ==
    /\ restore.stage = "asked"
    /\ restore' = [restore EXCEPT !.stage = "served", !.found = cookie]
    /\ UNCHANGED <<promptVars, pageVars, worldVars, restoring, heard, messages, store, claimed>>

\* Whether what was mailed is whom the restore found.
AnyAccount(found) == TRUE
Mailee(found) == found = Invitee

\* Signed in: whoever asked lands, an invitation on its tenant if the address
\* fits, which it reads again first.
LandsLate == TRUE
Wanted == restore.wanted
Joining == [NoRestore EXCEPT !.stage = "joining"]
RestoreAnswers ==
    /\ restore.stage = "served" /\ restore.found # Nobody
    /\ store' = restore.found /\ heard' = FALSE
    /\ IF kind = "invitation" /\ Wanted /\ Mailee(restore.found)
       THEN restore' = Joining /\ UNCHANGED landing
       ELSE restore' = NoRestore /\ landing' = (landing \/ (Wanted /\ view # "gone"))
    /\ UNCHANGED <<able, field, prompt, picked, retried, unasked, pageVars, worldVars,
                   restoring, messages, claimed>>

\* The tenant is read again, or cannot be: the page says who joined and goes,
\* though the person may have left it meanwhile.
JoinLands ==
    /\ restore.stage = "joining"
    /\ landing' = TRUE /\ claimed' = TRUE
    /\ restore' = NoRestore
    /\ UNCHANGED <<able, field, prompt, picked, retried, unasked, pageVars, worldVars,
                   restoring, heard, messages, store>>

\* No session, no network, an outage.
NeverAgain == restoring
Again == restoring /\ ~restore.wanted
RestoreFails ==
    /\ restore.stage \in {"asked", "served"}
    /\ restoring' = Again
    /\ restore' = NoRestore
    /\ heard' = FALSE
    /\ UNCHANGED <<promptVars, pageVars, worldVars, messages, store, claimed>>

-----------------------------------------------------------------------------
(* The tab that opens the mailed link, and the browser's other tabs. *)

HereUnchanged == UNCHANGED <<promptVars, pageVars, restoring, restore, heard, store, claimed>>
Broadcast == messages < MaxMessages /\ messages' = messages + 1

\* Signed in as the address, a sign-in link goes straight on and spends nothing;
\* signed in as someone else, either asks first.
OpenMail ==
    /\ mail # "none" /\ other = "none"
    /\ other' = CASE cookie = Nobody  -> "posting"
                  [] cookie = Invitee -> IF kind = "login" THEN "none" ELSE "posting"
                  [] OTHER            -> "asks"
    /\ HereUnchanged /\ UNCHANGED <<messages, cookie, mail, joined, strays>>

\* Continue signs out and reloads; the other choice leaves the link alone.
SwitchAccount ==
    /\ other = "asks" /\ store = Nobody   \* bound: a tab that hears a sign-out has left already
    /\ \/ cookie' = Nobody /\ other' = "posting"
       \/ other' = "none" /\ UNCHANGED cookie
    /\ HereUnchanged /\ UNCHANGED <<messages, mail, joined, strays>>

LinkServed ==
    /\ other = "posting"
    /\ IF mail = "live"
       THEN mail' = "spent" /\ other' = "served" /\ joined' = (joined \/ kind = "invitation")
       ELSE other' = "none" /\ UNCHANGED <<mail, joined>>
    /\ HereUnchanged /\ UNCHANGED <<messages, cookie, strays>>

LinkAnswered ==
    /\ other = "served"
    /\ other' = "none" /\ cookie' = Invitee
    /\ Broadcast
    /\ HereUnchanged /\ UNCHANGED <<mail, joined, strays>>

LinkLost ==
    /\ other \in {"posting", "served"}
    /\ other' = "none"
    /\ HereUnchanged /\ UNCHANGED <<messages, cookie, mail, joined, strays>>

\* Somebody signs in there by a passkey or another link, or by Google, which
\* broadcasts nothing; or out.
SignsInElsewhere(p) ==
    /\ cookie # p
    /\ kind = "login" => p = Invitee   \* bound: the sign-in page takes whoever it is
    /\ cookie' = p
    /\ Broadcast \/ UNCHANGED messages
    /\ strays' = (strays \/ (kind = "invitation" /\ p = Invitee))
    /\ HereUnchanged /\ UNCHANGED <<mail, other, joined>>
SignsOutElsewhere ==
    /\ cookie # Nobody /\ store = Nobody   \* bound: as above
    /\ cookie' = Nobody
    /\ HereUnchanged /\ UNCHANGED <<messages, mail, other, joined, strays>>

Next ==
    \/ PromptStep \/ Send \/ Preview \/ PostServed \/ Mailed \/ PostFails \/ Dead
    \/ ChangeEmail \/ Leave
    \/ \E r \in Requests : PasskeySignsIn(r)
    \/ HearMessage \/ RestoreServed \/ RestoreAnswers \/ RestoreFails \/ JoinLands
    \/ OpenMail \/ SwitchAccount \/ LinkServed \/ LinkAnswered \/ LinkLost
    \/ \E p \in People : SignsInElsewhere(p)
    \/ SignsOutElsewhere

Spec == Init /\ [][Next]_vars

\* Messages are delivered, and a restore settles one way or the other.
FairSpec ==
    /\ Spec
    /\ WF_vars(HearMessage) /\ WF_vars(RestoreServed)
    /\ WF_vars(RestoreAnswers \/ RestoreFails)

-----------------------------------------------------------------------------
(* Properties. *)

\* A page says that an invitation was joined only to the invitee, and only if it
\* was, or the invitee signed in here by something else: the message it goes by
\* says neither who nor how (accept.tsx:307-331).
ClaimsFit == claimed => store = Invitee /\ (joined \/ strays)

\* The prompts are the page's own (PasskeyPrompt), whatever mail and messages do
\* to it.
PromptsKept == TypeOK /\ CeremonyOwned /\ AutofillOffered /\ QuietTillPicked

\* A tab that waits acts on a sign-in it hears of, an earlier restore having
\* failed or not, and it is taken away from its page only while it waits, or by a
\* passkey of its own (use-signed-in-elsewhere.ts:21-45).  One who leaves an
\* invitation that has heard the answer and reads its tenant again is taken there
\* all the same (accept.tsx:329).
HeardInTheEnd == heard ~> ~heard
LandsIfAsked ==
    [][~landing /\ landing' =>
         Listening \/ restore.stage = "joining" \/ \E r \in Requests : Verified(r)]_vars
Followed == HeardInTheEnd /\ LandsIfAsked
=============================================================================
