---------------------------- MODULE PasskeyPrompt ----------------------------
(***************************************************************************)
(* The passkey requests of the sign-in page: the autofill that waits behind *)
(* its email field (hooks/use-passkey-autofill), the button that opens the  *)
(* browser's sheet (auth/passkey-sign-in), and the cancel count they share  *)
(* (lib/webauthn).                                                          *)
(*                                                                         *)
(* The browser holds one pending request: a new one aborts it.  A cancel    *)
(* aborts it too, and spoils every request that read the count before and   *)
(* is still fetching its options.  The API and the browser are external.    *)
(***************************************************************************)

VARIABLES
    able,       \* what the config and the browser allow
    field,      \* the email field: shown, hidden (the inbox), gone (the page has left)
    prompt,     \* each request: its stage, whether a cancel overtook it, and
                \* (history) whether a passkey was picked for it
    picked,     \* the hook's ref
    retried,    \* the live run has restarted after a stale pick
    landing,    \* the page is being replaced by the landing
    unasked     \* (history) autofill told of a failure of a request nobody picked for

promptVars == <<able, field, prompt, picked, retried, landing, unasked>>

\* The live run's request; one whose run was cleaned up before its microtask,
\* and one cleaned up while its pick was verified; the button's, and one of a
\* button that has gone.
Requests == {"autofill", "discarded", "late", "button", "old"}
Sheets == {"button", "old"}

Stages == {"none", "starting", "options", "asked", "verify", "rejected", "lost", "ended"}

PromptTypeOK ==
    /\ able \in {"unknown", "nothing", "button", "autofill"}
    /\ field \in {"shown", "hidden", "gone"}
    /\ prompt \in [Requests -> [stage : Stages, stale : BOOLEAN, chosen : BOOLEAN]]
    /\ picked \in BOOLEAN /\ retried \in BOOLEAN
    /\ landing \in BOOLEAN /\ unasked \in BOOLEAN

Idle     == [stage |-> "none", stale |-> FALSE, chosen |-> FALSE]
Starting == [Idle EXCEPT !.stage = "starting"]
Asking   == [Idle EXCEPT !.stage = "options"]   \* having read the cancel count

InFlight(r) == prompt[r].stage # "none"

\* The hook is enabled and the browser has autofill.
Active == able = "autofill" /\ field = "shown"

PromptInit ==
    /\ able = "unknown" /\ field \in {"shown", "hidden"}
    /\ prompt = [r \in Requests |-> Idle]
    /\ picked = FALSE /\ retried = FALSE /\ landing = FALSE /\ unasked = FALSE

To(p, r, stage) == [p EXCEPT ![r].stage = stage]

-----------------------------------------------------------------------------
(* Cancels, and the effect's runs. *)

Aborted(p) ==
    [r \in Requests |-> IF p[r].stage = "asked" THEN [p[r] EXCEPT !.stage = "rejected"] ELSE p[r]]

\* cancelPasskeyPrompt.
Cancelled(p) ==
    [r \in Requests |-> IF p[r].stage = "options" THEN [p[r] EXCEPT !.stale = TRUE]
                        ELSE Aborted(p)[r]]

\* The cleanup of the live run, of which a microtask or a verify may be left.
CleanedUpOnly(p) ==
    [p EXCEPT !["autofill"] = Idle,
              !["discarded"] = IF p["autofill"].stage = "starting" THEN Starting ELSE @,
              !["late"] = IF p["autofill"].stage = "verify" THEN p["autofill"] ELSE @]
CleanedUp(p) == CleanedUpOnly(Cancelled(p))

Run(p) == [p EXCEPT !["autofill"] = Starting]

\* The button goes with the field; its request goes on.
ButtonGone(p) ==
    [p EXCEPT !["old"] = IF InFlight("button") THEN p["button"] ELSE @, !["button"] = Idle]

Goes == ButtonGone(IF Active THEN CleanedUp(prompt) ELSE prompt)

FieldHides ==
    /\ field = "shown"
    /\ ~(InFlight("button") /\ InFlight("old"))   \* bound: one prompt of a button that has gone
    /\ field' = "hidden" /\ prompt' = Goes
    /\ UNCHANGED <<able, picked, retried, landing, unasked>>

FieldShows ==
    /\ field = "hidden"
    /\ field' = "shown" /\ prompt' = IF able = "autofill" THEN Run(prompt) ELSE prompt
    /\ UNCHANGED <<able, picked, retried, landing, unasked>>

PageLeaves ==
    /\ field # "gone"
    /\ ~(InFlight("button") /\ InFlight("old"))   \* bound: as above
    /\ field' = "gone" /\ prompt' = Goes
    /\ UNCHANGED <<able, picked, retried, landing, unasked>>

\* The config and the browser's support are known.
Learn ==
    /\ able = "unknown" /\ field # "gone"
    /\ able' \in {"nothing", "button", "autofill"}
    /\ prompt' = IF able' = "autofill" /\ field = "shown" THEN Run(prompt) ELSE prompt
    /\ UNCHANGED <<field, picked, retried, landing, unasked>>

\* The ref is reset at each start.
PickKept == picked
PickForgotten == FALSE

\* The microtask: a run that was cleaned up meanwhile starts nothing.
Begin ==
    /\ prompt["autofill"].stage = "starting"
    /\ prompt' = [prompt EXCEPT !["autofill"] = Asking]
    /\ picked' = PickForgotten /\ retried' = FALSE
    /\ UNCHANGED <<able, field, landing, unasked>>
BegunAnyway == Asking
Unbegun == Idle
Discard ==
    /\ prompt["discarded"].stage = "starting"
    /\ prompt' = [prompt EXCEPT !["discarded"] = Unbegun]
    /\ UNCHANGED <<able, field, picked, retried, landing, unasked>>

\* A microtask runs before the next answer or click.
TaskOver == \A r \in Requests : prompt[r].stage # "starting"

-----------------------------------------------------------------------------
(* A request, from the click to its answer. *)

\* The button, which its own request keeps busy.
ClickedOver(p) == [p EXCEPT !["button"] = Asking]
Clicked(p) == [Cancelled(p) EXCEPT !["button"] = Asking]
Click ==
    /\ TaskOver
    /\ field = "shown" /\ able \in {"button", "autofill"} /\ ~InFlight("button")
    /\ prompt' = Clicked(prompt)
    /\ UNCHANGED <<able, field, picked, retried, landing, unasked>>

\* A cancelled request never opens; one that opens aborts the pending one.
Open(r) ==
    /\ TaskOver /\ prompt[r].stage = "options"
    /\ prompt' = IF prompt[r].stale THEN To(prompt, r, "rejected")
                 ELSE To(Aborted(prompt), r, "asked")
    /\ UNCHANGED <<able, field, picked, retried, landing, unasked>>

\* What the live run makes of a failure: silence before a pick, one restart for
\* a stale pick, else a toast.
Caught(over, expired) ==
    IF picked /\ expired /\ ~retried
    THEN /\ prompt' = [prompt EXCEPT !["autofill"] = Asking]
         /\ picked' = PickForgotten /\ retried' = TRUE
         /\ UNCHANGED <<able, field, landing, unasked>>
    ELSE /\ prompt' = To(prompt, "autofill", over)
         /\ unasked' = (unasked \/ (picked /\ ~prompt["autofill"].chosen))
         /\ UNCHANGED <<able, field, picked, retried, landing>>

\* The options fail, or the browser cannot.
Fails(r) ==
    /\ TaskOver /\ prompt[r].stage \in {"options", "asked"}
    /\ IF r = "autofill" THEN Caught("ended", FALSE)
       ELSE /\ prompt' = To(prompt, r, "ended")
            /\ UNCHANGED <<able, field, picked, retried, landing, unasked>>

\* The person dismisses the sheet.
Dismiss(r) ==
    /\ TaskOver /\ r \in Sheets /\ prompt[r].stage = "asked"
    /\ prompt' = To(prompt, r, "rejected")
    /\ UNCHANGED <<able, field, picked, retried, landing, unasked>>

\* The live run's request was aborted.
Lose ==
    /\ TaskOver /\ prompt["autofill"].stage = "rejected"
    /\ Caught("lost", FALSE)

\* The person picks a passkey.
Pick(r) ==
    /\ TaskOver /\ prompt[r].stage = "asked"
    /\ r = "autofill" => ~InFlight("late")   \* bound: one verify of a run that is over
    /\ prompt' = [prompt EXCEPT ![r].stage = "verify", ![r].chosen = TRUE]
    /\ picked' = (picked \/ r = "autofill")
    /\ UNCHANGED <<able, field, retried, landing, unasked>>

\* The verify signs the tab in.  A run that is over does not land; a button's
\* sign-in does, its page there or not.
Verified(r) ==
    /\ TaskOver /\ prompt[r].stage = "verify"
    /\ prompt' = [prompt EXCEPT ![r] = IF r = "autofill" THEN [Idle EXCEPT !.stage = "ended"]
                                       ELSE Idle]
    /\ landing' = (landing \/ r # "late")
    /\ UNCHANGED <<able, field, picked, retried, unasked>>

VerifyFails(r, expired) ==
    /\ TaskOver /\ prompt[r].stage = "verify"
    /\ CASE r = "autofill" -> Caught("ended", expired)
         [] r = "late" -> /\ prompt' = [prompt EXCEPT !["late"] = Idle]
                          /\ UNCHANGED <<able, field, picked, retried, landing, unasked>>
         [] OTHER -> /\ prompt' = To(prompt, r, "ended")
                     /\ UNCHANGED <<able, field, picked, retried, landing, unasked>>

\* A sheet that ended without a sign-in restarts autofill (onModalSettled).
SettledOnly(r) == [prompt EXCEPT ![r] = Idle]
Settled(r) ==
    [IF Active THEN Run(CleanedUp(prompt)) ELSE prompt EXCEPT ![r] = Idle]
Settle(r) ==
    /\ r \in Sheets /\ prompt[r].stage \in {"rejected", "ended"}
    /\ prompt' = Settled(r)
    /\ UNCHANGED <<able, field, picked, retried, landing, unasked>>

\* The steps of which the rest of the page is not part.
PromptNext ==
    \/ Learn \/ Begin \/ Discard \/ Click \/ Lose
    \/ \E r \in Requests :
         Open(r) \/ Fails(r) \/ Dismiss(r) \/ Pick(r) \/ Settle(r)
           \/ \E expired \in BOOLEAN : VerifyFails(r, expired)

PromptSpec ==
    /\ PromptInit
    /\ [][PromptNext \/ FieldHides \/ FieldShows \/ PageLeaves
            \/ \E r \in Requests : Verified(r)]_promptVars

-----------------------------------------------------------------------------
(* Properties. *)

\* The browser's one pending request belongs to somebody: an autofill that waits
\* is the live run's, behind a field that is on screen, whatever mounts, inboxes
\* and restarts came between its options and its turn (use-passkey-autofill.ts:34-38,
\* webauthn.ts:66-101).
CeremonyOwned ==
    \A r \in Requests \ Sheets : prompt[r].stage = "asked" => r = "autofill" /\ Active

\* The browser offers passkeys behind the field unless the button's prompt is on,
\* autofill failed by itself or a sign-in is landing: every cancel is followed by a fresh request
\* (passkey-sign-in.tsx:36-44, login.tsx:102-106).
AutofillOffered ==
    Active /\ ~InFlight("button") /\ ~landing =>
        prompt["autofill"].stage \in {"starting", "options", "asked", "verify", "ended"}
          /\ ~prompt["autofill"].stale

\* Autofill says nothing of a request nobody picked a passkey for, the restart of
\* a stale pick included (use-passkey-autofill.ts:24-32).
QuietTillPicked == ~unasked

\* The sheet the person opened closes by their own doing or with the form; else
\* only the restart of a stale pick, or an earlier button's prompt that settles
\* late, takes it away (passkey-sign-in.tsx:28-30).
SheetStands ==
    [][\A r \in Sheets :
         prompt[r].stage = "asked" /\ prompt'[r].stage = "rejected" =>
           \/ field' # field
           \/ Dismiss(r)
           \/ r = "old" /\ Click
           \/ retried /\ prompt["autofill"].stage = "options"
           \/ r = "button" /\ InFlight("old") /\ prompt'["old"] = Idle]_promptVars
=============================================================================
