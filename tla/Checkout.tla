------------------------------- MODULE Checkout -------------------------------
(***************************************************************************)
(* Razorpay Checkout from the click to a confirmed change                   *)
(* (hooks/use-checkout-flow, lib/razorpay-checkout), over the cached        *)
(* billing view that reads, confirms and the notification stream refresh.   *)
(*                                                                         *)
(* Two flows share the script, the cache and the screen: the billing page's *)
(* actions and the past-due banner's new card.  The API, Razorpay and its   *)
(* webhook are external.  A billing view is abstracted to where the         *)
(* subscription is; `next` is Paid with a next subscription scheduled.      *)
(***************************************************************************)
EXTENDS Naturals

CONSTANTS
    Flows,      \* "page", "banner"
    Purposes,   \* bound: what the page starts
    Leaving,    \* bound: the flows whose component may go during a checkout
    Ticks       \* bound: billing reads a poll makes before its 30 seconds are over

ASSUME CheckoutAssumption ==
    /\ Flows \subseteq {"page", "banner"}
    /\ Purposes \subseteq {"upgrade", "switch", "card_change"}
    /\ Leaving \subseteq Flows
    /\ Ticks \in Nat \ {0}

VARIABLES
    server,     \* the subscription
    payment,    \* what Razorpay took for each flow's checkout, and whether it counts
    cache,      \* the billing view the page shows
    read,       \* the query's read in flight
    script,     \* Razorpay's script
    flow        \* each flow: where it is, its purpose, what its line was written
                \* against, the view its confirm was answered with, and (history)
                \* whether other hands changed the subscription under it, or left
                \* it a view on its way that shows a change they have undone

vars == <<server, payment, cache, read, script, flow>>

Subscriptions == {"free", "active", "ending", "next", "due"}
Settled == {"idle", "waiting", "done", "error"}
Steps   == Settled \union {"starting", "loading", "open", "confirming", "pause", "reading"}

TypeOK ==
    /\ server \in Subscriptions /\ cache \in Subscriptions
    /\ payment \in [Flows -> {"none", "taken", "applied", "refused"}]
    /\ read \in [stage : {"none", "sent", "served"}, view : Subscriptions]
    /\ script \in {"none", "loading", "ready"}
    /\ flow \in [Flows -> [at : Steps, purpose : {"upgrade", "switch", "card_change"},
                           failed : BOOLEAN, ticks : 0 .. Ticks,
                           shownFor : Subscriptions \union {"none"}, mounted : BOOLEAN,
                           answer : Subscriptions \union {"none"}, touched : BOOLEAN]]

NoRead == [stage |-> "none", view |-> "free"]
NoFlow == [at |-> "idle", purpose |-> "upgrade", failed |-> FALSE, ticks |-> 0,
           shownFor |-> "none", mounted |-> TRUE, answer |-> "none", touched |-> FALSE]

Init ==
    /\ server \in {"free", "active", "due"} /\ cache = server
    /\ payment = [f \in Flows |-> "none"]
    /\ read = NoRead /\ script = "none"
    /\ flow = [f \in Flows |-> NoFlow]

Running(f) == flow[f].at \notin Settled

-----------------------------------------------------------------------------
(* What finishes a checkout, and what its lines are worth. *)

\* Whether a view shows that the change took; a card shows in none.
ReachedEnding(purpose, view) ==
    CASE purpose = "upgrade" -> view \in {"active", "next", "ending"}
      [] purpose = "switch"  -> view = "next"
      [] OTHER               -> TRUE
Reached(purpose, view) ==
    CASE purpose = "upgrade" -> view \in {"active", "next"}
      [] purpose = "switch"  -> view = "next"
      [] OTHER               -> TRUE

\* Clear drops a line that no longer describes the page; a payment that is
\* taken keeps its wait.
Clearable(r) == r.at = "error" \/ (r.at = "waiting" /\ r.purpose = "card_change")
Cleared(r) == IF Clearable(r) THEN [r EXCEPT !.at = "idle", !.shownFor = "none"] ELSE r

\* The two effects that follow the cached view.
ClearedByView(r, view) ==
    IF r.mounted /\ r.shownFor \notin {"none", view} THEN Cleared(r) ELSE r
Watched(r, view) ==
    LET s == ClearedByView(r, view)
    IN  IF s.mounted /\ s.at = "waiting" /\ s.purpose # "card_change" /\ Reached(s.purpose, view)
        THEN [s EXCEPT !.at = "done"] ELSE s

\* The view changes, for every flow that watches it.
See(view, flows) ==
    /\ cache' = view
    /\ flow' = [f \in Flows |-> Watched(flows[f], view)]

\* What a flow that polls makes of a read: the change shows, or it tries again, or
\* it waits once its time is over.
PolledOnceMore(r, found) ==
    IF r.at # "reading" THEN r
    ELSE IF ~r.mounted THEN [r EXCEPT !.at = "idle"]
    ELSE IF found THEN [r EXCEPT !.at = "done", !.ticks = 0]
    ELSE IF r.ticks <= Ticks THEN [r EXCEPT !.at = "pause", !.ticks = @ + 1]
    ELSE [r EXCEPT !.at = "waiting", !.ticks = 0]
Polled(r, found) ==
    IF r.at # "reading" THEN r
    ELSE IF ~r.mounted THEN [r EXCEPT !.at = "idle"]
    ELSE IF found THEN [r EXCEPT !.at = "done", !.ticks = 0]
    ELSE IF r.ticks < Ticks THEN [r EXCEPT !.at = "pause", !.ticks = @ + 1]
    ELSE [r EXCEPT !.at = "waiting", !.ticks = 0]
Shown(r, view) ==
    IF r.at = "waiting" /\ r.shownFor = "none" THEN [r EXCEPT !.shownFor = view] ELSE r

\* A read that is asked for again starts over, and fails a poll that shares it.
Refetch(flows) ==
    /\ read' = [stage |-> "sent", view |-> "free"]
    /\ See(cache, [f \in Flows |-> IF read = NoRead THEN flows[f]
                                   ELSE Shown(Polled(flows[f], FALSE), cache)])

To(f, step) == [flow EXCEPT ![f].at = step]
FailedUnread(f) == [flow EXCEPT ![f].at = "error"]
Failed(f)   == [flow EXCEPT ![f].at = "error", ![f].shownFor = cache]
Waiting(f)  == [flow EXCEPT ![f].at = "waiting", ![f].shownFor = cache]

-----------------------------------------------------------------------------
(* From the click to Razorpay's answer. *)

\* Which buttons show, and work.
Offered(f, purpose) ==
    /\ flow[f].mounted
    /\ purpose \in IF f = "page" THEN Purposes ELSE {"card_change"}
    /\ f = "page" => ~(flow[f].at = "waiting" /\ flow[f].purpose # "card_change")
    /\ cache \in CASE purpose = "upgrade" -> {"free", "ending"}
                   [] purpose = "switch"  -> {"active"}
                   [] OTHER -> IF f = "page" THEN {"active", "next", "due"} ELSE {"due"}

\* Views the API has answered with that the page has not seen yet.
OnTheirWay == {view \in Subscriptions :
                 \/ read.stage = "served" /\ view = read.view
                 \/ \E g \in Flows : view = flow[g].answer}

\* (history) One of them shows the change that a click asks for, which other hands
\* have undone since.
UndoneOnItsWay(purpose) ==
    ~Reached(purpose, server) /\ \E view \in OnTheirWay : Reached(purpose, view)

Start(f, purpose) ==
    /\ Offered(f, purpose) /\ ~Running(f)
    /\ flow' = [flow EXCEPT ![f] = [NoFlow EXCEPT !.at = "starting", !.purpose = purpose,
                                                  !.touched = UndoneOnItsWay(purpose)]]
    /\ payment' = [payment EXCEPT ![f] = "none"]
    /\ UNCHANGED <<server, cache, read, script>>

StartRefused(f) ==
    /\ flow[f].at = "starting"
    /\ Refetch(Failed(f))
    /\ UNCHANGED <<server, payment, script>>

\* The API starts a checkout only for the subscription it still has.
Started(f) ==
    /\ flow[f].at = "starting"
    /\ CASE flow[f].purpose = "upgrade" -> server \in {"free", "ending"}
         [] flow[f].purpose = "switch"  -> server = "active"
         [] OTHER -> server # "free"
    /\ IF script = "ready" THEN flow' = To(f, "open") ELSE flow' = To(f, "loading")
    /\ script' = IF script = "ready" THEN "ready" ELSE "loading"
    /\ UNCHANGED <<server, payment, cache, read>>

\* One load serves every flow that waits for it.
ScriptLoads ==
    /\ script = "loading"
    /\ script' = "ready"
    /\ flow' = [f \in Flows |-> IF flow[f].at = "loading" THEN To(f, "open")[f] ELSE flow[f]]
    /\ UNCHANGED <<server, payment, cache, read>>
ScriptFails ==
    /\ script = "loading"
    /\ script' = "none"
    /\ flow' = [f \in Flows |-> IF flow[f].at = "loading" THEN Failed(f)[f] ELSE flow[f]]
    /\ UNCHANGED <<server, payment, cache, read>>

\* Razorpay's constructor refuses an option.
OpenThrows(f) ==
    /\ flow[f].at = "open" /\ ~flow[f].failed
    /\ flow' = Failed(f)
    /\ UNCHANGED <<server, payment, cache, read, script>>

\* A failed try leaves the modal open.
PaymentFails(f) ==
    /\ flow[f].at = "open"
    /\ flow' = [flow EXCEPT ![f].failed = TRUE]
    /\ UNCHANGED <<server, payment, cache, read, script>>

\* The first of the handler and the dismissal counts.
Dismiss(f) ==
    /\ flow[f].at = "open"
    /\ flow' = IF flow[f].failed THEN [Failed(f) EXCEPT ![f].failed = FALSE] ELSE To(f, "idle")
    /\ UNCHANGED <<server, payment, cache, read, script>>
Pay(f) ==
    /\ flow[f].at = "open"
    /\ payment' = [payment EXCEPT ![f] = "taken"]
    /\ flow' = [To(f, "confirming") EXCEPT ![f].failed = FALSE]
    /\ UNCHANGED <<server, cache, read, script>>

-----------------------------------------------------------------------------
(* The confirm, the poll and the webhook. *)

\* What a payment makes of the subscription.
Applied(purpose, view) ==
    CASE purpose = "upgrade" -> IF view = "ending" THEN {"active", "next"} ELSE {"active"}
      [] purpose = "switch"  -> {"next"}
      [] OTHER               -> IF view = "due" THEN {"due", "active"} ELSE {view}

\* The webhook, or a confirm that comes first, applies a payment once.
Apply(f) ==
    /\ payment[f] = "taken"
    /\ payment' = [payment EXCEPT ![f] = "applied"]
    /\ server' \in Applied(flow[f].purpose, server)
    /\ UNCHANGED <<cache, read, script, flow>>

\* The API verifies the payment and answers with the view it has.
ConfirmServed(f) ==
    /\ flow[f].at = "confirming" /\ flow[f].answer = "none"
    /\ flow' = [flow EXCEPT ![f].answer = server]
    /\ UNCHANGED <<server, payment, cache, read, script>>

\* The answer becomes the view.  Unless it shows the change, the flow polls.
ConfirmAnswered(f) ==
    /\ flow[f].at = "confirming" /\ flow[f].answer # "none"
    /\ LET view == flow[f].answer
           next == IF Reached(flow[f].purpose, view) THEN "done"
                   ELSE IF flow[f].mounted THEN "pause" ELSE "idle"
       IN  See(view, [flow EXCEPT ![f].at = next, ![f].answer = "none"])
    /\ UNCHANGED <<server, payment, read, script>>

\* A 4xx with the server's sentence, whether or not the webhook came before it.
ConfirmRefused(f) ==
    /\ flow[f].at = "confirming" /\ flow[f].answer = "none"
    /\ payment' = [payment EXCEPT ![f] = "refused"]
    /\ Refetch(Failed(f))
    /\ UNCHANGED <<server, script>>

\* No answer, a 5xx, a timeout: it is left to the webhook.
FailedInstead(f) == Failed(f)
Unanswered(f) == Waiting(f)
ConfirmLost(f) ==
    /\ flow[f].at = "confirming"
    /\ flow' = [Unanswered(f) EXCEPT ![f] = Watched([@ EXCEPT !.answer = "none"], cache)]
    /\ UNCHANGED <<server, payment, cache, read, script>>

\* Two seconds later it rereads billing, sharing a read in flight.  A flow that
\* has gone stops here.
Tick(f) ==
    /\ flow[f].at = "pause" /\ flow[f].mounted
    /\ flow' = To(f, "reading")
    /\ read' = IF read = NoRead THEN [stage |-> "sent", view |-> "free"] ELSE read
    /\ UNCHANGED <<server, payment, cache, script>>

ReadServed ==
    /\ read.stage = "sent"
    /\ read' = [stage |-> "served", view |-> server]
    /\ UNCHANGED <<server, payment, cache, script, flow>>

ReadLands ==
    /\ read.stage = "served"
    /\ read' = NoRead
    /\ LET view == read.view
       IN  See(view, [f \in Flows |->
                        Shown(Polled(flow[f], Reached(flow[f].purpose, view)), view)])
    /\ UNCHANGED <<server, payment, script>>

ReadFails ==
    /\ read.stage # "none"
    /\ read' = NoRead
    /\ See(cache, [f \in Flows |-> Shown(Polled(flow[f], FALSE), cache)])
    /\ UNCHANGED <<server, payment, script>>

-----------------------------------------------------------------------------
(* Around the flows. *)

\* The notification stream tells of a billing change, or comes back and catches up.
Told ==
    /\ cache # server
    /\ Refetch(flow)
    /\ UNCHANGED <<server, payment, script>>

\* Another billing action starts (the cancel dialog), or the page shows.
Clear(f) ==
    /\ flow[f].mounted /\ Clearable(flow[f])
    /\ flow' = [flow EXCEPT ![f] = Cleared(flow[f])]
    /\ UNCHANGED <<server, payment, cache, read, script>>

\* A flow that goes ends its pause; one that has gone comes back as new.
Unmount(f) ==
    /\ flow[f].mounted /\ f \in Leaving
    /\ flow' = [flow EXCEPT ![f].mounted = FALSE,
                            ![f].at = IF @ = "pause" \/ @ \in Settled THEN "idle" ELSE @,
                            ![f].ticks = 0]
    /\ UNCHANGED <<server, payment, cache, read, script>>
Mount(f) ==
    /\ ~flow[f].mounted /\ ~Running(f)   \* bound: after the one that has gone is through
    /\ flow' = [flow EXCEPT ![f] = NoFlow]
    /\ payment' = [payment EXCEPT ![f] = "none"]
    /\ UNCHANGED <<server, cache, read, script>>

\* Other hands: a cancel elsewhere, a failed charge, a period that ends.
Elsewhere ==
    /\ \A f \in Flows : payment[f] # "taken"   \* bound: the webhook comes first
    /\ server' \in CASE server = "active" -> {"ending", "due"}
                      [] server = "due"    -> {"active", "free"}
                      [] server = "ending" -> {"free"}
                      [] server = "next"   -> {"active"}
                      [] OTHER             -> {}
    /\ flow' = [f \in Flows |-> [flow[f] EXCEPT !.touched =
                                flow[f].at # "idle" /\ flow[f].purpose # "card_change"]]
    /\ UNCHANGED <<payment, cache, read, script>>

Next ==
    \/ \E f \in Flows :
         \/ \E p \in {"upgrade", "switch", "card_change"} : Start(f, p)
         \/ StartRefused(f) \/ Started(f) \/ OpenThrows(f) \/ PaymentFails(f)
         \/ Dismiss(f) \/ Pay(f) \/ Apply(f) \/ ConfirmServed(f)
         \/ ConfirmAnswered(f) \/ ConfirmRefused(f) \/ ConfirmLost(f) \/ Tick(f)
         \/ Clear(f) \/ Unmount(f) \/ Mount(f)
    \/ ScriptLoads \/ ScriptFails \/ ReadServed \/ ReadLands \/ ReadFails \/ Told \/ Elsewhere

Spec == Init /\ [][Next]_vars

\* Timers run and requests settle; the webhook comes; the stream tells, and a
\* read is not refused for ever.
FairSpec ==
    /\ Spec
    /\ SF_vars(ReadServed) /\ SF_vars(ReadLands) /\ WF_vars(Told)
    /\ \A f \in Flows : WF_vars(Tick(f)) /\ WF_vars(Apply(f))
                     /\ WF_vars(ConfirmAnswered(f) \/ ConfirmLost(f))

-----------------------------------------------------------------------------
(* Properties. *)

\* Once Razorpay has taken a payment, the person is never told of an error nor
\* of nothing, whatever fails, polls out or is cleared after it; only the
\* server's refusal is an error, whether the webhook came first or not
\* (use-checkout-flow.ts:129-137, 302-315, 423-447).
TakenStays ==
    \A f \in Flows :
        flow[f].mounted /\ payment[f] \in {"taken", "applied"} /\ flow[f].purpose # "card_change"
          => flow[f].at \in {"confirming", "pause", "reading", "waiting", "done"}

\* A new plan is announced only once the payment for it counts: no view from
\* before it, not even one answered before the click that lands after it, passes
\* for the change.  Exempt is what the code cannot tell, since it judges each view
\* by itself: other hands change the subscription after the click, or have undone
\* the change before it while a view that shows it is still on its way
\* (use-checkout-flow.ts:104-111, 330-355, 376-384).
DoneMeansApplied ==
    \A f \in Flows :
        flow[f].at = "done" /\ flow[f].purpose # "card_change" /\ ~flow[f].touched
          => payment[f] = "applied"

\* An error line, or a new card's waiting line, describes the subscription on
\* the page, whoever changed it (use-checkout-flow.ts:302-320, 367-374).
LineFits ==
    \A f \in Flows :
        flow[f].mounted /\ Clearable(flow[f]) => flow[f].shownFor = cache

\* Lines fit the page, and a poll stops in time (use-checkout-flow.ts:302-374).
LinesKept == TypeOK /\ LineFits

\* A payment that counts is announced (the banner sells cards only), however its
\* confirm and its polls went, unless the page goes, the server refuses the confirm
\* all the same, or other hands undo it meanwhile (use-checkout-flow.ts:322-355).
PaidIsTold ==
    \A f \in Flows \ {"banner"} :
        payment[f] = "applied" /\ flow[f].purpose # "card_change"
          ~> \/ flow[f].at = "done" \/ ~flow[f].mounted
             \/ payment[f] \in {"none", "refused"} \/ flow[f].touched
=============================================================================
