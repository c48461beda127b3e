--------------------------- MODULE Checkout_proofs ---------------------------
(***************************************************************************)
(* Why a checkout announces a plan only once it is paid for, and never      *)
(* loses a payment that was taken, for any number of polls: each flow is    *)
(* judged on its own record and the views it may yet see, and while an      *)
(* unpaid checkout is under way none of those shows the change.             *)
(***************************************************************************)
EXTENDS Checkout, TLAPS

-----------------------------------------------------------------------------
(* The invariant. *)

FlowRecord == [at : Steps, purpose : {"upgrade", "switch", "card_change"},
               failed : BOOLEAN, ticks : 0 .. Ticks,
               shownFor : Subscriptions \union {"none"}, mounted : BOOLEAN,
               answer : Subscriptions \union {"none"}, touched : BOOLEAN]
Reads    == [stage : {"none", "sent", "served"}, view : Subscriptions]
Payments == {"none", "taken", "applied", "refused"}

\* Where the API starts a checkout, and where it may from without other hands: a
\* card paid on the banner brings a subscription that is due back to active.
Before(purpose)  == IF purpose = "upgrade" THEN {"free", "ending"} ELSE {"active"}
BeforeIt(purpose) == IF purpose = "upgrade" THEN {"free", "ending"} ELSE {"active", "due"}

\* A plan that nothing has changed yet, this payment or other hands.
Unpaid(r, p) == r.purpose # "card_change" /\ ~r.touched /\ p # "applied"

\* No view of C, nor one of those on their way, W, passes for the change.
Unseen(purpose, C, W) == \A view \in C \union W : ~Reached(purpose, view)

\* The record r of flow f, with payment p, on a page that shows a view of C, with the
\* subscription s and the views of W on their way.
Good(f, r, p, C, s, W) ==
    /\ r \in FlowRecord
    /\ r.at \in {"starting", "loading", "open"} => p = "none"
    /\ r.answer # "none" => r.at = "confirming" /\ r.answer \in W
    /\ r.at \notin Settled => r.shownFor = "none"
    /\ r.mounted /\ Clearable(r) => r.shownFor \in C
    /\ r.mounted /\ p \in {"taken", "applied"} /\ r.purpose # "card_change"
         => r.at \in {"confirming", "pause", "reading", "waiting", "done"}
    /\ f = "banner" /\ (r.at # "idle" \/ p # "none") => r.purpose = "card_change"
    /\ Unpaid(r, p) => r.at # "done"
    /\ Unpaid(r, p) /\ r.at = "starting" /\ s \in BeforeIt(r.purpose)
         => Unseen(r.purpose, C, W)
    /\ Unpaid(r, p)
         /\ r.at \in {"loading", "open", "confirming", "pause", "reading", "waiting"}
         => s \in Before(r.purpose) /\ Unseen(r.purpose, C, W)

FlowsGood == \A f \in Flows : Good(f, flow[f], payment[f], {cache}, server, OnTheirWay)

CheckoutInv == TypeOK /\ FlowsGood

-----------------------------------------------------------------------------
(* Lemmas about one record. *)

\* What is there before a change does not show it.
LEMMA BeforeUnreached ==
    \A purpose \in {"upgrade", "switch"} :
        /\ Before(purpose) \subseteq BeforeIt(purpose)
        /\ \A view \in BeforeIt(purpose) : ~Reached(purpose, view)
BY DEF Before, BeforeIt, Reached

\* Whether a view shows a change is a truth value.
LEMMA ReachedTyped ==
    ASSUME NEW purpose \in {"upgrade", "switch", "card_change"}, NEW view
    PROVE  Reached(purpose, view) \in BOOLEAN
<1>1. CASE purpose = "upgrade"
  <2>1. Reached(purpose, view) = (view \in {"active", "next"})
    BY <1>1 DEF Reached
  <2> QED
    BY <2>1
<1>2. CASE purpose = "switch"
  <2>1. Reached(purpose, view) = (view = "next")
    BY <1>2 DEF Reached
  <2> QED
    BY <2>1
<1>3. CASE purpose = "card_change"
  <2>1. Reached(purpose, view) = TRUE
    BY <1>3 DEF Reached
  <2> QED
    BY <2>1
<1> QED
  BY <1>1, <1>2, <1>3

\* The effects that follow the view leave a good record good.
LEMMA Watching ==
    ASSUME NEW f, NEW r, NEW p, NEW C, NEW s, NEW W, NEW view \in C,
           "none" \notin C, Good(f, r, p, C, s, W)
    PROVE  Good(f, Watched(r, view), p, {view}, s, W)
<1> DEFINE q == ClearedByView(r, view)
<1>1. Good(f, q, p, {view}, s, W)
  <2>1. CASE q = r /\ (r.mounted => r.shownFor \in {"none", view})
    BY <2>1 DEF Good, Clearable, Unseen
  <2>2. CASE Clearable(r) /\ q = [r EXCEPT !.at = "idle", !.shownFor = "none"]
    BY <2>2 DEF Good, FlowRecord, Clearable, Unpaid, Settled, Steps
  <2>3. CASE ~Clearable(r) /\ q = r
    BY <2>3 DEF Good, Unseen
  <2> QED
    BY <2>1, <2>2, <2>3 DEF ClearedByView, Cleared
<1>2. CASE /\ q.mounted /\ q.at = "waiting" /\ q.purpose # "card_change"
           /\ Reached(q.purpose, view)
  <2>1. Watched(r, view) = [q EXCEPT !.at = "done"]
    BY <1>2 DEF Watched
  <2>2. ~Unpaid(q, p)
    BY <1>1, <1>2 DEF Good, Unseen
  <2> QED
    BY <1>1, <1>2, <2>1, <2>2 DEF Good, FlowRecord, Clearable, Unpaid, Settled, Steps
<1>3. CASE ~(/\ q.mounted /\ q.at = "waiting" /\ q.purpose # "card_change"
             /\ Reached(q.purpose, view))
  BY <1>1, <1>3 DEF Watched
<1> QED
  BY <1>2, <1>3

\* So does a poll that heard of a view, or of nothing.
LEMMA Polling ==
    ASSUME NEW f, NEW r, NEW p, NEW C, NEW s, NEW W, NEW view \in C, NEW found \in BOOLEAN,
           C \subseteq Subscriptions, Good(f, r, p, C, s, W),
           found => Reached(r.purpose, view)
    PROVE  Good(f, Shown(Polled(r, found), view), p, C, s, W)
<1> DEFINE q == Polled(r, found)
<1>1. CASE r.at # "reading"
  BY <1>1 DEF Polled, Shown, Good, FlowRecord, Clearable, Unpaid, Settled, Steps
<1>2. CASE r.at = "reading"
  <2>1. found /\ Unpaid(r, p) => FALSE
    BY <1>2 DEF Good, Unseen
  <2>2. CASE ~r.mounted
    BY <1>2, <2>2 DEF Polled, Shown, Good, FlowRecord, Clearable, Unpaid, Settled, Steps
  <2>3. CASE r.mounted /\ found
    <3>1. Shown(q, view) = [r EXCEPT !.at = "done", !.ticks = 0]
      BY <1>2, <2>3 DEF Polled, Shown, Good, FlowRecord
    <3>2. 0 \in 0 .. Ticks /\ "done" \in Steps
      BY CheckoutAssumption DEF Steps, Settled
    <3>3. Shown(q, view) \in FlowRecord
      BY <3>1, <3>2 DEF Good, FlowRecord
    <3> QED
      BY <1>2, <2>1, <2>3, <3>1, <3>3
      DEF Good, FlowRecord, Clearable, Unpaid, Settled
  <2>4. CASE r.mounted /\ ~found /\ r.ticks < Ticks
    <3>1. Shown(q, view) = [r EXCEPT !.at = "pause", !.ticks = r.ticks + 1]
      BY <1>2, <2>4 DEF Polled, Shown, Good, FlowRecord
    <3>2. r.ticks + 1 \in 0 .. Ticks /\ "pause" \in Steps
      BY <2>4, CheckoutAssumption DEF Good, FlowRecord, Steps
    <3>3. Shown(q, view) \in FlowRecord
      BY <3>1, <3>2 DEF Good, FlowRecord
    <3> QED
      BY <1>2, <3>1, <3>3 DEF Good, FlowRecord, Clearable, Unpaid, Settled
  <2>5. CASE r.mounted /\ ~found /\ ~(r.ticks < Ticks)
    <3>1. Shown(q, view) = [r EXCEPT !.at = "waiting", !.ticks = 0, !.shownFor = view]
      <4>1. r.shownFor = "none"
        BY <1>2 DEF Good, Settled
      <4> QED
        BY <1>2, <2>5, <4>1 DEF Polled, Shown, Good, FlowRecord
    <3>2. 0 \in 0 .. Ticks /\ "waiting" \in Steps /\ view \in Subscriptions
      BY CheckoutAssumption DEF Steps, Settled
    <3>3. Shown(q, view) \in FlowRecord
      BY <3>1, <3>2 DEF Good, FlowRecord
    <3> QED
      BY <1>2, <3>1, <3>3 DEF Good, FlowRecord, Clearable, Unpaid, Settled
  <2> QED
    BY <2>2, <2>3, <2>4, <2>5
<1> QED
  BY <1>1, <1>2

\* The API answers with the subscription it has; other views only arrive or are lost.
LEMMA Rereading ==
    ASSUME NEW f, NEW r, NEW p, NEW C, NEW s, NEW W, NEW W2, Good(f, r, p, C, s, W),
           W2 \subseteq W \union {s}, r.answer # "none" => r.answer \in W2
    PROVE  Good(f, r, p, C, s, W2)
BY BeforeUnreached DEF Good, Unseen, Unpaid, FlowRecord

\* A page may show a view that is on its way.
LEMMA Showing ==
    ASSUME NEW f, NEW r, NEW p, NEW C, NEW s, NEW W, NEW view, Good(f, r, p, C, s, W),
           view \in W
    PROVE  Good(f, r, p, C \union {view}, s, W)
BY BeforeUnreached DEF Good, Unseen, Unpaid, FlowRecord

-----------------------------------------------------------------------------
(* Lemmas about the page. *)

\* A type-correct page has records, payments and views.
LEMMA PageTyped ==
    TypeOK <=> /\ server \in Subscriptions /\ cache \in Subscriptions
               /\ payment \in [Flows -> Payments] /\ read \in Reads
               /\ script \in {"none", "loading", "ready"} /\ flow \in [Flows -> FlowRecord]
BY DEF TypeOK, Payments, Reads, FlowRecord

\* No read in flight is a read.
LEMMA NothingRead == NoRead \in Reads /\ NoRead.stage = "none"
BY DEF NoRead, Reads, Subscriptions

\* A flow that starts anew.
LEMMA NewFlow ==
    ASSUME NEW f, NEW C, NEW s, NEW W
    PROVE  NoFlow \in FlowRecord /\ Good(f, NoFlow, "none", C, s, W)
BY CheckoutAssumption DEF NoFlow, FlowRecord, Steps, Settled, Subscriptions, Good, Clearable,
   Unpaid

\* What a page has on its way.
LEMMA Arriving ==
    ASSUME TypeOK
    PROVE  /\ read.stage = "served" => read.view \in OnTheirWay
           /\ \A g \in Flows : flow[g].answer # "none" => flow[g].answer \in OnTheirWay
BY PageTyped DEF OnTheirWay, Reads, FlowRecord

\* The page of the next state keeps the invariant, when its records are good for the
\* views W and its read brings one of them, or the subscription.
LEMMA PageGood ==
    ASSUME server' \in Subscriptions, cache' \in Subscriptions, read' \in Reads,
           payment' \in [Flows -> Payments], script' \in {"none", "loading", "ready"},
           flow' \in [Flows -> FlowRecord], NEW W,
           read'.stage = "served" => read'.view \in W \union {server'},
           \A g \in Flows : Good(g, flow'[g], payment'[g], {cache'}, server', W)
    PROVE  CheckoutInv'
<1>1. TypeOK'
  BY PageTyped DEF TypeOK, FlowRecord, Reads, Payments
<1>2. OnTheirWay' \subseteq W \union {server'}
  BY DEF OnTheirWay, Good, Subscriptions
<1>3. \A g \in Flows : flow'[g].answer # "none" => flow'[g].answer \in OnTheirWay'
  BY DEF OnTheirWay, FlowRecord
<1>4. \A g \in Flows : Good(g, flow'[g], payment'[g], {cache'}, server', OnTheirWay')
  BY <1>2, <1>3, Rereading
<1> QED
  BY <1>1, <1>4 DEF CheckoutInv, FlowsGood

\* The page of a step at which the views, the subscription and the read stay, and every
\* flow but f.
LEMMA OneFlow ==
    ASSUME CheckoutInv, NEW f \in Flows, NEW r, NEW p \in Payments,
           flow' = [flow EXCEPT ![f] = r], payment' = [payment EXCEPT ![f] = p],
           Good(f, r, p, {cache}, server, OnTheirWay), UNCHANGED <<server, cache, read>>,
           script' \in {"none", "loading", "ready"}
    PROVE  CheckoutInv'
<1>1. r \in FlowRecord
  BY DEF Good
<1>2. /\ server \in Subscriptions /\ cache \in Subscriptions /\ read \in Reads
      /\ payment \in [Flows -> Payments] /\ flow \in [Flows -> FlowRecord]
      /\ read.stage = "served" => read.view \in OnTheirWay
  BY PageTyped, Arriving DEF CheckoutInv
<1>3. /\ flow' \in [Flows -> FlowRecord] /\ payment' \in [Flows -> Payments]
      /\ \A g \in Flows : /\ flow'[g] = IF g = f THEN r ELSE flow[g]
                          /\ payment'[g] = IF g = f THEN p ELSE payment[g]
  <2>1. flow' = [flow EXCEPT ![f] = r] /\ payment' = [payment EXCEPT ![f] = p]
    OBVIOUS
  <2>2. /\ flow' \in [Flows -> FlowRecord]
        /\ \A g \in Flows : flow'[g] = IF g = f THEN r ELSE flow[g]
    BY <1>1, <1>2, <2>1
  <2>3. /\ payment' \in [Flows -> Payments]
        /\ \A g \in Flows : payment'[g] = IF g = f THEN p ELSE payment[g]
    BY <1>2, <2>1
  <2> QED
    BY <2>2, <2>3
<1>4. \A g \in Flows : Good(g, flow'[g], payment'[g], {cache}, server, OnTheirWay)
  BY <1>3 DEF CheckoutInv, FlowsGood
<1> QED
  BY <1>2, <1>3, <1>4, PageGood

\* A read that starts over fails the polls that share it, and the flows see what the
\* page shows.
LEMMA Refetching ==
    ASSUME TypeOK, NEW g, NEW r, NEW p, Good(g, r, p, {cache}, server, OnTheirWay)
    PROVE  Good(g, Watched(IF read = NoRead THEN r ELSE Shown(Polled(r, FALSE), cache), cache),
                p, {cache}, server, OnTheirWay)
<1> DEFINE q == IF read = NoRead THEN r ELSE Shown(Polled(r, FALSE), cache)
<1>1. cache \in Subscriptions /\ "none" \notin {cache}
  BY DEF TypeOK, Subscriptions
<1>2. Good(g, q, p, {cache}, server, OnTheirWay)
  BY <1>1, Polling
<1> HIDE DEF q
<1>3. Good(g, Watched(q, cache), p, {cache}, server, OnTheirWay)
  BY <1>1, <1>2, Watching
<1> QED
  BY <1>3 DEF q

-----------------------------------------------------------------------------
(* The steps. *)

\* A page starts with no checkout.
LEMMA CheckoutInit == Init => CheckoutInv
<1> SUFFICES ASSUME Init PROVE CheckoutInv
  OBVIOUS
<1>1. \A f \in Flows : flow[f] = NoFlow /\ payment[f] = "none"
  BY DEF Init
<1>2. TypeOK
  BY NewFlow, NothingRead, PageTyped DEF Init, Subscriptions, Payments
<1> QED
  BY <1>1, <1>2, NewFlow DEF CheckoutInv, FlowsGood

\* From the click to Razorpay's answer.
LEMMA OpeningStep ==
    ASSUME CheckoutInv, NEW f \in Flows,
           \/ \E purpose \in {"upgrade", "switch", "card_change"} : Start(f, purpose)
           \/ Started(f) \/ OpenThrows(f) \/ PaymentFails(f) \/ Dismiss(f) \/ Pay(f)
    PROVE  CheckoutInv'
<1> DEFINE r == flow[f]
<1>0. /\ r \in FlowRecord /\ payment[f] \in Payments
      /\ Good(f, r, payment[f], {cache}, server, OnTheirWay)
      /\ flow \in [Flows -> FlowRecord] /\ payment \in [Flows -> Payments]
      /\ payment = [payment EXCEPT ![f] = payment[f]]
      /\ script \in {"none", "loading", "ready"} /\ cache \in Subscriptions
  BY PageTyped DEF CheckoutInv, FlowsGood
<1>1. ASSUME NEW purpose \in {"upgrade", "switch", "card_change"}, Start(f, purpose)
      PROVE  CheckoutInv'
  <2> DEFINE q == [NoFlow EXCEPT !.at = "starting", !.purpose = purpose,
                                 !.touched = UndoneOnItsWay(purpose)]
  <2>1. /\ flow' = [flow EXCEPT ![f] = q] /\ payment' = [payment EXCEPT ![f] = "none"]
        /\ UNCHANGED <<server, cache, read, script>>
        /\ purpose \in (IF f = "page" THEN Purposes ELSE {"card_change"})
        /\ purpose = "upgrade" => cache \in {"free", "ending"}
        /\ purpose = "switch" => cache = "active"
    BY <1>1 DEF Start, Offered
  <2>2. /\ q \in FlowRecord /\ q.at = "starting" /\ q.purpose = purpose
        /\ q.shownFor = "none" /\ q.answer = "none" /\ q.touched = UndoneOnItsWay(purpose)
    <3>1. UndoneOnItsWay(purpose) \in BOOLEAN
      BY DEF UndoneOnItsWay
    <3> QED
      BY <3>1, NewFlow DEF FlowRecord, Steps, Settled, NoFlow
  <2>3. purpose # "card_change" => ~Reached(purpose, cache)
    BY <2>1 DEF Reached
  <2>4. ASSUME purpose # "card_change", ~q.touched, server \in BeforeIt(purpose)
        PROVE  Unseen(purpose, {cache}, OnTheirWay)
    BY <2>2, <2>3, <2>4, BeforeUnreached DEF UndoneOnItsWay, Unseen
  <2>5. Good(f, q, "none", {cache}, server, OnTheirWay)
    BY <2>1, <2>2, <2>4 DEF Good, Clearable, Settled, Unpaid
  <2> HIDE DEF q
  <2> QED
    BY <2>1, <2>5, <1>0, OneFlow DEF Payments
<1>2. CASE Started(f)
  <2>1. \E at \in {"open", "loading"} : flow' = [flow EXCEPT ![f] = [r EXCEPT !.at = at]]
    BY <1>2, <1>0 DEF Started, To
  <2>2. PICK at \in {"open", "loading"} : flow' = [flow EXCEPT ![f] = [r EXCEPT !.at = at]]
    BY <2>1
  <2>3. r.purpose # "card_change" => server \in Before(r.purpose)
    BY <1>2, <1>0 DEF Started, Before, FlowRecord
  <2>4. Good(f, [r EXCEPT !.at = at], payment[f], {cache}, server, OnTheirWay)
    BY <1>2, <1>0, <2>3, BeforeUnreached
    DEF Started, Good, FlowRecord, Steps, Settled, Clearable, Unpaid
  <2> QED
    BY <1>0, <1>2, <2>2, <2>4, OneFlow DEF Started
<1>3. CASE OpenThrows(f) \/ PaymentFails(f) \/ Dismiss(f)
  <2>1. payment[f] = "none" /\ (f = "banner" => r.purpose = "card_change") /\ r.at = "open"
    BY <1>0, <1>3 DEF OpenThrows, PaymentFails, Dismiss, Good
  <2>2. \/ flow' = [flow EXCEPT ![f] = [r EXCEPT !.at = "error", !.shownFor = cache]]
        \/ flow' = [flow EXCEPT ![f] = [r EXCEPT !.failed = TRUE]]
        \/ flow' = [flow EXCEPT ![f] = [r EXCEPT !.at = "idle"]]
        \/ flow' = [flow EXCEPT ![f] = [r EXCEPT !.at = "error", !.shownFor = cache,
                                                 !.failed = FALSE]]
    BY <1>0, <1>3 DEF OpenThrows, PaymentFails, Dismiss, Failed, To
  <2>3. Good(f, [r EXCEPT !.at = "error", !.shownFor = cache], payment[f], {cache}, server,
             OnTheirWay)
    BY <1>0, <2>1 DEF Good, FlowRecord, Steps, Settled, Clearable, Unpaid
  <2>7. Good(f, [r EXCEPT !.at = "error", !.shownFor = cache, !.failed = FALSE], payment[f],
             {cache}, server, OnTheirWay)
    BY <1>0, <2>1 DEF Good, FlowRecord, Steps, Settled, Clearable, Unpaid
  <2>4. Good(f, [r EXCEPT !.failed = TRUE], payment[f], {cache}, server, OnTheirWay)
    BY <1>0, <2>1 DEF Good, FlowRecord, Clearable, Unpaid
  <2>5. Good(f, [r EXCEPT !.at = "idle"], payment[f], {cache}, server, OnTheirWay)
    BY <1>0, <2>1 DEF Good, FlowRecord, Steps, Settled, Clearable, Unpaid
  <2>6. UNCHANGED <<server, payment, cache, read, script>>
    BY <1>3 DEF OpenThrows, PaymentFails, Dismiss
  <2> QED
    BY <1>0, <2>2, <2>3, <2>4, <2>5, <2>6, <2>7, OneFlow
<1>4. CASE Pay(f)
  <2>1. /\ flow' = [flow EXCEPT ![f] = [r EXCEPT !.at = "confirming", !.failed = FALSE]]
        /\ payment' = [payment EXCEPT ![f] = "taken"] /\ r.at = "open"
        /\ UNCHANGED <<server, cache, read, script>>
    BY <1>0, <1>4 DEF Pay, To
  <2>2. Good(f, [r EXCEPT !.at = "confirming", !.failed = FALSE], "taken", {cache}, server,
             OnTheirWay)
    BY <1>0, <2>1 DEF Good, FlowRecord, Steps, Settled, Clearable, Unpaid
  <2> QED
    BY <1>0, <2>1, <2>2, OneFlow DEF Payments
<1> QED
  BY <1>1, <1>2, <1>3, <1>4

\* The script, which one load brings to every flow that waits.
LEMMA ScriptStep == ASSUME CheckoutInv, ScriptLoads \/ ScriptFails PROVE CheckoutInv'
<1>1. \A g \in Flows : /\ flow[g] \in FlowRecord
                       /\ Good(g, flow[g], payment[g], {cache}, server, OnTheirWay)
  BY DEF CheckoutInv, FlowsGood, Good
<1>2. /\ flow \in [Flows -> FlowRecord] /\ cache \in Subscriptions
      /\ UNCHANGED <<server, payment, cache, read>> /\ script' \in {"none", "loading", "ready"}
      /\ read.stage = "served" => read.view \in OnTheirWay
  BY PageTyped, Arriving DEF CheckoutInv, ScriptLoads, ScriptFails
<1>3. ASSUME NEW g \in Flows PROVE Good(g, flow'[g], payment[g], {cache}, server, OnTheirWay)
  <2>1. CASE flow[g].at # "loading"
    BY <1>1, <1>2, <2>1 DEF ScriptLoads, ScriptFails
  <2>2. CASE flow[g].at = "loading"
    <3>1. \/ flow'[g] = [flow[g] EXCEPT !.at = "open"]
          \/ flow'[g] = [flow[g] EXCEPT !.at = "error", !.shownFor = cache]
      BY <1>2, <2>2 DEF ScriptLoads, ScriptFails, To, Failed
    <3>2. Good(g, [flow[g] EXCEPT !.at = "open"], payment[g], {cache}, server, OnTheirWay)
      BY <1>1, <2>2 DEF Good, FlowRecord, Steps, Settled, Clearable, Unpaid
    <3>3. Good(g, [flow[g] EXCEPT !.at = "error", !.shownFor = cache], payment[g], {cache},
               server, OnTheirWay)
      BY <1>1, <1>2, <2>2 DEF Good, FlowRecord, Steps, Settled, Clearable, Unpaid
    <3> QED
      BY <3>1, <3>2, <3>3
  <2> QED
    BY <2>1, <2>2
<1>4. flow' \in [Flows -> FlowRecord]
  <2>1. flow' = [g \in Flows |-> flow'[g]]
    BY DEF ScriptLoads, ScriptFails
  <2> QED
    BY <2>1, <1>3 DEF Good
<1> QED
  BY <1>2, <1>3, <1>4, PageTyped, PageGood DEF CheckoutInv

\* What starts the page's read over.
LEMMA RefetchStep ==
    ASSUME CheckoutInv, Told \/ \E f \in Flows : StartRefused(f) \/ ConfirmRefused(f)
    PROVE  CheckoutInv'
<1> DEFINE Of(g, r) == Watched(IF read = NoRead THEN r ELSE Shown(Polled(r, FALSE), cache), cache)
<1>0. /\ \A g \in Flows : Good(g, flow[g], payment[g], {cache}, server, OnTheirWay)
      /\ flow \in [Flows -> FlowRecord] /\ payment \in [Flows -> Payments] /\ TypeOK
      /\ cache \in Subscriptions /\ server \in Subscriptions
      /\ script \in {"none", "loading", "ready"}
  BY PageTyped DEF CheckoutInv, FlowsGood
<1>1. PICK F \in [Flows -> FlowRecord] :
          /\ \A g \in Flows : Good(g, F[g], payment'[g], {cache}, server, OnTheirWay)
          /\ Refetch(F)
  <2>1. CASE Told
    BY <1>0, <2>1 DEF Told
  <2>2. CASE \E f \in Flows : StartRefused(f) \/ ConfirmRefused(f)
    <3>0. PICK f \in Flows : StartRefused(f) \/ ConfirmRefused(f)
      BY <2>2
    <3> DEFINE q == [flow[f] EXCEPT !.at = "error", !.shownFor = cache]
    <3>1. /\ flow[f] \in FlowRecord /\ (f = "banner" => flow[f].purpose = "card_change")
          /\ payment'[f] \in {"none", "refused"} /\ flow[f].answer = "none"
          /\ \A g \in Flows : g # f => payment'[g] = payment[g]
      BY <1>0, <3>0 DEF StartRefused, ConfirmRefused, Good
    <3>2. Good(f, q, payment'[f], {cache}, server, OnTheirWay) /\ q \in FlowRecord
      BY <1>0, <3>1 DEF Good, FlowRecord, Steps, Settled, Clearable, Unpaid
    <3>3. Failed(f) = [flow EXCEPT ![f] = q]
      BY <1>0 DEF Failed
    <3> HIDE DEF q
    <3>4. Failed(f) \in [Flows -> FlowRecord]
          /\ \A g \in Flows : Failed(f)[g] = IF g = f THEN q ELSE flow[g]
      BY <1>0, <3>2, <3>3
    <3>5. \A g \in Flows : Good(g, Failed(f)[g], payment'[g], {cache}, server, OnTheirWay)
      BY <1>0, <3>1, <3>2, <3>4
    <3> QED
      BY <3>0, <3>4, <3>5 DEF StartRefused, ConfirmRefused
  <2> QED
    BY <2>1, <2>2
<1>2. /\ read' = [stage |-> "sent", view |-> "free"] /\ cache' = cache
      /\ flow' = [g \in Flows |-> Of(g, F[g])]
  BY <1>1 DEF Refetch, See
<1>3. ASSUME NEW g \in Flows PROVE Good(g, flow'[g], payment'[g], {cache}, server, OnTheirWay)
  BY <1>0, <1>1, <1>2, Refetching
<1> HIDE DEF Of
<1>4. flow' \in [Flows -> FlowRecord]
  BY <1>2, <1>3 DEF Good
<1>5. /\ read' \in Reads /\ payment' \in [Flows -> Payments]
      /\ UNCHANGED <<server, cache, script>>
  BY <1>0, <1>2 DEF StartRefused, ConfirmRefused, Told, Reads, Subscriptions, Payments
<1>6. read'.stage = "sent"
  BY <1>2
<1> QED
  BY <1>0, <1>2, <1>3, <1>4, <1>5, <1>6, PageGood

\* The confirm's answer, or none, and a poll that begins to read.
LEMMA ConfirmStep ==
    ASSUME CheckoutInv, NEW f \in Flows,
           ConfirmServed(f) \/ ConfirmAnswered(f) \/ ConfirmLost(f) \/ Tick(f)
    PROVE  CheckoutInv'
<1> DEFINE r == flow[f]
<1>0. /\ \A g \in Flows : Good(g, flow[g], payment[g], {cache}, server, OnTheirWay)
      /\ flow \in [Flows -> FlowRecord] /\ payment \in [Flows -> Payments] /\ TypeOK
      /\ cache \in Subscriptions /\ server \in Subscriptions /\ read \in Reads
      /\ script \in {"none", "loading", "ready"} /\ r \in FlowRecord
      /\ "none" \notin Subscriptions /\ (read.stage = "served" => read.view \in OnTheirWay)
  BY PageTyped, Arriving DEF CheckoutInv, FlowsGood, Subscriptions
<1>1. CASE ConfirmAnswered(f)
  <2> DEFINE view == r.answer
             at == IF Reached(r.purpose, view) THEN "done"
                   ELSE IF r.mounted THEN "pause" ELSE "idle"
             q == [r EXCEPT !.at = at, !.answer = "none"]
             F == [flow EXCEPT ![f] = q]
  <2>1. /\ cache' = view /\ flow' = [g \in Flows |-> Watched(F[g], view)]
        /\ r.at = "confirming" /\ r.answer # "none"
        /\ UNCHANGED <<server, payment, read, script>>
    BY <1>0, <1>1 DEF ConfirmAnswered, See
  <2>2. view \in OnTheirWay /\ view \in Subscriptions
    BY <1>0, <2>1 DEF Good, FlowRecord
  <2>3. Good(f, q, payment[f], {cache}, server, OnTheirWay)
    <3>1. Reached(r.purpose, view) => ~Unpaid(r, payment[f])
      BY <1>0, <2>1, <2>2 DEF Good, Unseen
    <3> QED
      BY <1>0, <2>1, <3>1 DEF Good, FlowRecord, Steps, Settled, Clearable, Unpaid
  <2>4. \A g \in Flows : F[g] = IF g = f THEN q ELSE flow[g]
    BY <1>0
  <2> HIDE DEF q, F, view
  <2>5. ASSUME NEW g \in Flows
        PROVE  Good(g, Watched(F[g], view), payment[g], {view}, server, OnTheirWay)
    <3>1. Good(g, F[g], payment[g], {cache}, server, OnTheirWay)
      BY <1>0, <2>3, <2>4
    <3>2. Good(g, F[g], payment[g], {cache} \union {view}, server, OnTheirWay)
      BY <2>2, <3>1, Showing
    <3>3. view \in {cache} \union {view} /\ "none" \notin {cache} \union {view}
      BY <1>0, <2>2
    <3> QED
      BY <3>2, <3>3, Watching
  <2>6. \A g \in Flows : Good(g, flow'[g], payment[g], {view}, server, OnTheirWay)
    BY <2>1, <2>5
  <2>7. flow' \in [Flows -> FlowRecord]
    BY <2>1, <2>6 DEF Good
  <2> QED
    BY <1>0, <2>1, <2>2, <2>6, <2>7, PageGood
<1>2. CASE ConfirmLost(f)
  <2> DEFINE q == [r EXCEPT !.at = "waiting", !.shownFor = cache, !.answer = "none"]
  <2>1. /\ flow' = [flow EXCEPT ![f] = Watched(q, cache)] /\ r.at = "confirming"
        /\ UNCHANGED <<server, payment, cache, read, script>>
    BY <1>0, <1>2 DEF ConfirmLost, Unanswered, Waiting
  <2>2. Good(f, q, payment[f], {cache}, server, OnTheirWay)
    BY <1>0, <2>1 DEF Good, FlowRecord, Steps, Settled, Clearable, Unpaid
  <2> HIDE DEF q
  <2>3. Good(f, Watched(q, cache), payment[f], {cache}, server, OnTheirWay)
    BY <1>0, <2>2, Watching
  <2>4. payment' = [payment EXCEPT ![f] = payment[f]] /\ payment[f] \in Payments
    BY <1>0, <2>1
  <2> QED
    BY <1>0, <2>1, <2>3, <2>4, OneFlow
<1>3. CASE Tick(f)
  <2> DEFINE q == [r EXCEPT !.at = "reading"]
  <2>1. /\ flow' = [flow EXCEPT ![f] = q] /\ r.at = "pause" /\ r.mounted
        /\ read' = (IF read = NoRead THEN [stage |-> "sent", view |-> "free"] ELSE read)
        /\ UNCHANGED <<server, payment, cache, script>>
    BY <1>0, <1>3 DEF Tick, To
  <2>2. Good(f, q, payment[f], {cache}, server, OnTheirWay)
    BY <1>0, <2>1 DEF Good, FlowRecord, Steps, Settled, Clearable, Unpaid
  <2> HIDE DEF q
  <2>3. /\ flow' \in [Flows -> FlowRecord]
        /\ \A g \in Flows : Good(g, flow'[g], payment[g], {cache}, server, OnTheirWay)
    <3>1. q \in FlowRecord
      BY <2>2 DEF Good
    <3> QED
      BY <1>0, <2>1, <2>2, <3>1
  <2>4. read' \in Reads /\ (read'.stage = "served" => read'.view \in OnTheirWay)
    BY <1>0, <2>1 DEF Reads, Subscriptions
  <2> QED
    BY <1>0, <2>1, <2>3, <2>4, PageGood
<1>4. CASE ConfirmServed(f)
  <2> DEFINE q == [r EXCEPT !.answer = server]
             W == OnTheirWay \union {server}
  <2>1. /\ flow' = [flow EXCEPT ![f] = q] /\ r.at = "confirming"
        /\ UNCHANGED <<server, payment, cache, read, script>>
    BY <1>0, <1>4 DEF ConfirmServed
  <2>2. ASSUME NEW g \in Flows
        PROVE  Good(g, flow[g], payment[g], {cache}, server, W)
    <3>1. Good(g, flow[g], payment[g], {cache}, server, OnTheirWay)
      BY <1>0
    <3>2. flow[g].answer # "none" => flow[g].answer \in W
      BY <3>1 DEF Good
    <3> HIDE DEF W
    <3> QED
      BY <3>1, <3>2, Rereading DEF W
  <2>3. Good(f, q, payment[f], {cache}, server, W)
    <3>1. Good(f, r, payment[f], {cache}, server, W) /\ server \in W
      BY <2>2
    <3> HIDE DEF W
    <3> QED
      BY <1>0, <2>1, <3>1 DEF Good, FlowRecord, Settled, Clearable, Unpaid
  <2> HIDE DEF q
  <2>4. /\ flow' \in [Flows -> FlowRecord]
        /\ \A g \in Flows : Good(g, flow'[g], payment[g], {cache}, server, W)
    <3>1. q \in FlowRecord
      BY <2>3 DEF Good
    <3>2. \A g \in Flows : flow'[g] = IF g = f THEN q ELSE flow[g]
      BY <1>0, <2>1
    <3> HIDE DEF W
    <3> QED
      BY <1>0, <2>1, <2>2, <2>3, <3>1, <3>2
  <2>5. read.stage = "served" => read.view \in W
    BY <1>0
  <2> HIDE DEF W
  <2> QED
    BY <1>0, <2>1, <2>4, <2>5, PageGood
<1> QED
  BY <1>1, <1>2, <1>3, <1>4

\* The page's read is served, lands or fails.
LEMMA ReadStep == ASSUME CheckoutInv, ReadServed \/ ReadLands \/ ReadFails PROVE CheckoutInv'
<1>0. /\ \A g \in Flows : Good(g, flow[g], payment[g], {cache}, server, OnTheirWay)
      /\ flow \in [Flows -> FlowRecord] /\ payment \in [Flows -> Payments] /\ TypeOK
      /\ cache \in Subscriptions /\ server \in Subscriptions /\ read \in Reads
      /\ script \in {"none", "loading", "ready"} /\ "none" \notin Subscriptions
      /\ (read.stage = "served" => read.view \in OnTheirWay)
  BY PageTyped, Arriving DEF CheckoutInv, FlowsGood, Subscriptions
<1>1. CASE ReadServed
  <2>1. /\ read' = [stage |-> "served", view |-> server]
        /\ UNCHANGED <<server, payment, cache, script, flow>>
    BY <1>1 DEF ReadServed
  <2>2. read' \in Reads /\ read'.view = server
    BY <1>0, <2>1 DEF Reads
  <2> QED
    BY <1>0, <2>1, <2>2, PageGood
<1>2. CASE ReadLands
  <2> DEFINE view == read.view
             q(g) == Shown(Polled(flow[g], Reached(flow[g].purpose, view)), view)
  <2>1. /\ read' = NoRead /\ cache' = view /\ read.stage = "served" /\ view \in Subscriptions
        /\ flow' = [g \in Flows |-> Watched(q(g), view)]
        /\ UNCHANGED <<server, payment, script>>
    BY <1>0, <1>2 DEF ReadLands, See, Reads
  <2>2. ASSUME NEW g \in Flows
        PROVE  Good(g, Watched(q(g), view), payment[g], {view}, server, OnTheirWay)
    <3> DEFINE C == {cache} \union {view}
    <3>1. Good(g, flow[g], payment[g], C, server, OnTheirWay)
      BY <1>0, <2>1, Showing
    <3>2. view \in C /\ C \subseteq Subscriptions /\ "none" \notin C
          /\ Reached(flow[g].purpose, view) \in BOOLEAN
      BY <1>0, <2>1, ReachedTyped DEF FlowRecord
    <3> HIDE DEF C, view
    <3>3. Good(g, q(g), payment[g], C, server, OnTheirWay)
      BY <3>1, <3>2, Polling
    <3> HIDE DEF q
    <3>4. Good(g, Watched(q(g), view), payment[g], {view}, server, OnTheirWay)
      BY <3>2, <3>3, Watching
    <3> QED
      BY <3>4
  <2> HIDE DEF q, view
  <2>3. \A g \in Flows : Good(g, flow'[g], payment[g], {view}, server, OnTheirWay)
    BY <2>1, <2>2
  <2>4. flow' \in [Flows -> FlowRecord]
    BY <2>1, <2>3 DEF Good
  <2> QED
    BY <1>0, <2>1, <2>3, <2>4, PageGood, NothingRead
<1>3. CASE ReadFails
  <2> DEFINE q(g) == Shown(Polled(flow[g], FALSE), cache)
  <2>1. /\ read' = NoRead /\ cache' = cache
        /\ flow' = [g \in Flows |-> Watched(q(g), cache)]
        /\ UNCHANGED <<server, payment, script>>
    BY <1>3 DEF ReadFails, See
  <2>2. ASSUME NEW g \in Flows
        PROVE  Good(g, Watched(q(g), cache), payment[g], {cache}, server, OnTheirWay)
    <3>1. Good(g, q(g), payment[g], {cache}, server, OnTheirWay)
      BY <1>0, Polling
    <3> HIDE DEF q
    <3>2. Good(g, Watched(q(g), cache), payment[g], {cache}, server, OnTheirWay)
      BY <1>0, <3>1, Watching
    <3> QED
      BY <3>2
  <2> HIDE DEF q
  <2>3. \A g \in Flows : Good(g, flow'[g], payment[g], {cache}, server, OnTheirWay)
    BY <2>1, <2>2
  <2>4. flow' \in [Flows -> FlowRecord]
    BY <2>1, <2>3 DEF Good
  <2> QED
    BY <1>0, <2>1, <2>3, <2>4, PageGood, NothingRead
<1> QED
  BY <1>1, <1>2, <1>3

\* Components that come and go, and the other billing actions.
LEMMA MountStep ==
    ASSUME CheckoutInv, NEW f \in Flows, Clear(f) \/ Unmount(f) \/ Mount(f)
    PROVE  CheckoutInv'
<1> DEFINE r == flow[f]
<1>0. /\ r \in FlowRecord /\ payment[f] \in Payments
      /\ Good(f, r, payment[f], {cache}, server, OnTheirWay)
      /\ flow \in [Flows -> FlowRecord] /\ payment \in [Flows -> Payments]
      /\ payment = [payment EXCEPT ![f] = payment[f]]
      /\ script \in {"none", "loading", "ready"} /\ cache \in Subscriptions
  BY PageTyped DEF CheckoutInv, FlowsGood
<1>1. CASE Clear(f)
  <2>1. /\ flow' = [flow EXCEPT ![f] = [r EXCEPT !.at = "idle", !.shownFor = "none"]]
        /\ Clearable(r) /\ UNCHANGED <<server, payment, cache, read, script>>
    BY <1>1 DEF Clear, Cleared
  <2>2. Good(f, [r EXCEPT !.at = "idle", !.shownFor = "none"], payment[f], {cache}, server,
             OnTheirWay)
    BY <1>0, <2>1 DEF Good, FlowRecord, Steps, Settled, Clearable, Unpaid
  <2> QED
    BY <1>0, <2>1, <2>2, OneFlow
<1>2. CASE Unmount(f)
  <2>1. PICK at \in {"idle", r.at} :
            /\ flow' = [flow EXCEPT ![f] = [r EXCEPT !.mounted = FALSE, !.at = at, !.ticks = 0]]
            /\ r.at # at => r.at = "pause" \/ r.at \in Settled
    <3>1. flow' = [flow EXCEPT ![f] = [r EXCEPT !.mounted = FALSE,
                     !.at = IF r.at = "pause" \/ r.at \in Settled THEN "idle" ELSE r.at,
                     !.ticks = 0]]
      BY <1>0, <1>2 DEF Unmount, FlowRecord
    <3> QED
      BY <3>1
  <2>2. Good(f, [r EXCEPT !.mounted = FALSE, !.at = at, !.ticks = 0], payment[f], {cache},
             server, OnTheirWay)
    <3>1. 0 \in 0 .. Ticks /\ "idle" \in Steps
      BY CheckoutAssumption DEF Steps, Settled
    <3> QED
      BY <1>0, <2>1, <3>1 DEF Good, FlowRecord, Settled, Clearable, Unpaid
  <2>3. UNCHANGED <<server, payment, cache, read, script>>
    BY <1>2 DEF Unmount
  <2> QED
    BY <1>0, <2>1, <2>2, <2>3, OneFlow
<1>3. CASE Mount(f)
  BY <1>0, <1>3, NewFlow, OneFlow DEF Mount, Payments
<1> QED
  BY <1>1, <1>2, <1>3

\* A payment that counts: its own flow is paid, and the banner's brings nothing that
\* the page's checkout could take for its own.
LEMMA ApplyStep == ASSUME CheckoutInv, NEW f \in Flows, Apply(f) PROVE CheckoutInv'
<1>0. /\ \A g \in Flows : Good(g, flow[g], payment[g], {cache}, server, OnTheirWay)
      /\ flow \in [Flows -> FlowRecord] /\ payment \in [Flows -> Payments]
      /\ cache \in Subscriptions /\ server \in Subscriptions /\ read \in Reads
      /\ script \in {"none", "loading", "ready"} /\ flow[f] \in FlowRecord
      /\ (read.stage = "served" => read.view \in OnTheirWay)
  BY PageTyped, Arriving DEF CheckoutInv, FlowsGood
<1>1. /\ payment[f] = "taken" /\ payment' = [payment EXCEPT ![f] = "applied"]
      /\ server' \in Applied(flow[f].purpose, server)
      /\ UNCHANGED <<cache, read, script, flow>>
  BY DEF Apply
<1>2. server' \in Subscriptions
  BY <1>0, <1>1 DEF Applied, Subscriptions, FlowRecord
<1>3. Good(f, flow[f], "applied", {cache}, server', OnTheirWay)
  BY <1>0, <1>1 DEF Good, Unpaid
<1>4. ASSUME NEW g \in Flows, g # f
      PROVE  Good(g, flow[g], payment[g], {cache}, server', OnTheirWay)
  <2>1. flow[g] \in FlowRecord /\ Good(g, flow[g], payment[g], {cache}, server, OnTheirWay)
    BY <1>0
  <2>2. CASE g = "banner"
    BY <2>1, <2>2 DEF Good, Unpaid, Settled
  <2>3. CASE f = "banner"
    <3>1. server' = server \/ (server = "due" /\ server' = "active")
      BY <1>0, <1>1, <2>3 DEF Good, Applied
    <3> QED
      BY <2>1, <2>3, <3>1 DEF Good, Unpaid, Before, BeforeIt, FlowRecord
  <2> QED
    BY <1>4, <2>2, <2>3, CheckoutAssumption
<1> QED
  BY <1>0, <1>1, <1>2, <1>3, <1>4, PageGood DEF Payments

\* Other hands touch every checkout under way.
LEMMA ElsewhereStep == ASSUME CheckoutInv, Elsewhere PROVE CheckoutInv'
<1>0. /\ \A g \in Flows : Good(g, flow[g], payment[g], {cache}, server, OnTheirWay)
      /\ flow \in [Flows -> FlowRecord] /\ payment \in [Flows -> Payments]
      /\ cache \in Subscriptions /\ server \in Subscriptions /\ read \in Reads
      /\ script \in {"none", "loading", "ready"}
      /\ (read.stage = "served" => read.view \in OnTheirWay)
  BY PageTyped, Arriving DEF CheckoutInv, FlowsGood
<1>1. /\ flow' = [g \in Flows |-> [flow[g] EXCEPT !.touched =
                                         flow[g].at # "idle" /\ flow[g].purpose # "card_change"]]
      /\ UNCHANGED <<payment, cache, read, script>> /\ server' \in Subscriptions
  BY DEF Elsewhere, Subscriptions
<1>2. ASSUME NEW g \in Flows PROVE Good(g, flow'[g], payment[g], {cache}, server', OnTheirWay)
  BY <1>0, <1>1 DEF Good, FlowRecord, Clearable, Unpaid
<1>3. flow' \in [Flows -> FlowRecord]
  BY <1>1, <1>2 DEF Good
<1> QED
  BY <1>0, <1>1, <1>2, <1>3, PageGood

\* Every step of the page, the API and Razorpay keeps the invariant.
LEMMA CheckoutStep == ASSUME CheckoutInv, [Next]_vars PROVE CheckoutInv'
<1>1. CASE UNCHANGED vars
  BY <1>1 DEF vars, CheckoutInv, TypeOK, FlowsGood, OnTheirWay
<1> QED
  BY <1>1, OpeningStep, ScriptStep, RefetchStep, ConfirmStep, ReadStep, MountStep,
     ApplyStep, ElsewhereStep DEF Next

-----------------------------------------------------------------------------
(* The theorems. *)

\* The invariant holds of every flow, whatever fails, is late or is cleared
\* (use-checkout-flow.ts:302-447).
THEOREM CheckoutSafe == Spec => []CheckoutInv
BY CheckoutInit, CheckoutStep, PTL DEF Spec

\* A payment that was taken is never an error nor nothing to the person
\* (use-checkout-flow.ts:129-137, 302-315, 423-447).
THEOREM PaymentsStay == Spec => []TakenStays
<1>1. CheckoutInv => TakenStays
  BY DEF CheckoutInv, FlowsGood, Good, TakenStays
<1> QED
  BY <1>1, CheckoutSafe, PTL

\* A plan is announced only once its payment counts, whatever view from before the
\* click lands after it, unless other hands changed the subscription after the click, or
\* had undone the change that such a view shows (use-checkout-flow.ts:104-111, 330-355).
THEOREM PlansArePaid == Spec => []DoneMeansApplied
<1>1. CheckoutInv => DoneMeansApplied
  BY DEF CheckoutInv, FlowsGood, Good, Unpaid, DoneMeansApplied
<1> QED
  BY <1>1, CheckoutSafe, PTL

\* An error line, or a new card's waiting line, describes the subscription on the page
\* (use-checkout-flow.ts:302-320, 367-374).
THEOREM LinesHold == Spec => []LinesKept
<1>1. CheckoutInv => LinesKept
  BY DEF CheckoutInv, FlowsGood, Good, LinesKept, LineFits
<1> QED
  BY <1>1, CheckoutSafe, PTL
=============================================================================
