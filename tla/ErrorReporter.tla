--------------------------- MODULE ErrorReporter ---------------------------
(***************************************************************************)
(* Error tracking (observability/errors): the entry chunk's listener, which *)
(* buffers errors until the lazy reporter has loaded (listen.ts), and the   *)
(* reporter (report.ts), which throttles them, waits for the identity they  *)
(* may carry, and sends them in batches that retry once and leave by beacon *)
(* when the page is hidden.                                                 *)
(*                                                                         *)
(* Errors differ in size and fingerprint; what is in them is left out.      *)
(* Promise callbacks run before the next task, so an event whose identity   *)
(* is known is queued at once.  Analytics, the network and the browser are  *)
(* external: an identity is known by the epoch it belongs to.               *)
(***************************************************************************)
EXTENDS Naturals, Sequences, FiniteSets, SequencesExt, FiniteSetsExt

CONSTANTS
    Errors,           \* the error objects thrown
    Size,             \* each one's bytes, once it is an event
    Kind,            \* each one's fingerprint
    BufferLimit,      \* ERROR_BUFFER_LIMIT
    FingerprintLimit, \* FINGERPRINT_LIMIT
    PageLimit,        \* PAGE_LIMIT
    BatchSize,        \* BATCH_SIZE
    BatchMax,         \* BATCH_MAX_BYTES
    Quota,            \* KEEPALIVE_QUOTA_BYTES
    MaxEpoch,         \* bound: the changes of identity
    MaxHides          \* bound: how often the page is hidden and comes back

ASSUME ErrorReporterAssumption ==
    /\ IsFiniteSet(Errors) /\ Size \in [Errors -> Nat \ {0}]
    /\ BufferLimit \in Nat /\ FingerprintLimit \in Nat /\ PageLimit \in Nat
    /\ BatchSize \in Nat \ {0} /\ BatchMax \in Nat /\ Quota \in Nat
    /\ BatchMax <= Quota
    /\ MaxEpoch \in Nat /\ MaxHides \in Nat

VARIABLES
    noted,     \* the epoch each error was noted in, 0 before
    chunk,     \* the reporter's chunk: no, loading or loaded
    idle,      \* whether the idle load is still to come
    buffer,    \* noted errors, until the chunk has loaded
    reporter,  \* the reporter's state
    retrying,  \* the batches that wait for their retry
    settled, capped, \* whether analytics has settled, or the wait for it ended
    epoch,     \* whose events these are
    visit, hides, \* open or gone, and how often it was hidden
    tries      \* history: how many requests and beacons carried each error

reporterVars ==
    <<noted, chunk, idle, buffer, reporter, retrying, settled, capped, epoch, visit, hides,
      tries>>

Anonymous == 0
Epochs == 1 .. MaxEpoch + 1

(* An error as it was noted, and the event made of it. *)
Noted == [error : Errors, epoch : Epochs, stale : BOOLEAN]
Event == [error : Errors, name : {Anonymous} \union Epochs]
ErrorsOf(b) == {b[i].error : i \in DOMAIN b}

Request == [batch : Seq(Event), keepalive : Nat, again : BOOLEAN]

ReporterTypeOK ==
    /\ noted \in [Errors -> 0 .. MaxEpoch + 1]
    /\ chunk \in {"no", "loading", "loaded"} /\ idle \in BOOLEAN
    /\ buffer \in Seq(Noted) /\ Len(buffer) <= BufferLimit
    /\ reporter.accepted \subseteq Errors /\ Cardinality(reporter.accepted) <= PageLimit
    /\ reporter.awaiting \in Seq(Noted) /\ reporter.queue \in Seq(Event)
    /\ reporter.timer \in BOOLEAN
    /\ \A r \in reporter.requests : r \in Request
    /\ reporter.keepalive \in 0 .. Quota
    /\ \A b \in retrying : b \in Seq(Event)
    /\ settled \in BOOLEAN /\ capped \in BOOLEAN /\ epoch \in Epochs
    /\ visit \in {"open", "gone"} /\ hides \in 0 .. MaxHides
    /\ tries \in [Errors -> Nat]

-----------------------------------------------------------------------------
(* Requests. *)

Bytes(b) == MapThenSumSet(LAMBDA i : Size[b[i].error], DOMAIN b)

(* Mutant: a batch that is not full yet takes any event. *)
JoinsUnlessFull(b, ev) == Len(b) < BatchSize /\ Bytes(b) < BatchMax

Joins(b, ev) ==
    Len(b) < BatchSize /\ Bytes(b) + Size[ev.error] <= BatchMax

(* takeBatch, until nothing is left: an event too big alone goes alone. *)
Batches(events) ==
    LET Add(bs, ev) ==
            IF bs # <<>> /\ Joins(Last(bs), ev)
            THEN [bs EXCEPT ![Len(bs)] = Append(@, ev)]
            ELSE Append(bs, <<ev>>)
    IN  FoldLeft(Add, <<>>, events)

(* Mutant: the requests in flight are left out. *)
ClaimAlone(r, b) == IF Bytes(b) <= BatchMax THEN Bytes(b) ELSE 0

(* The bytes a request takes of the quota, none when it goes without. *)
Claim(r, b) ==
    IF Bytes(b) <= BatchMax /\ r.keepalive + Bytes(b) <= Quota THEN Bytes(b) ELSE 0

Send(r, b, again) ==
    [r EXCEPT !.requests = @ \union {[batch |-> b, keepalive |-> Claim(r, b), again |-> again]},
              !.keepalive = @ + Claim(r, b)]

Flush(r) ==
    LET SendNew(q, b) == Send(q, b, TRUE)
    IN  FoldLeft(SendNew, [r EXCEPT !.queue = <<>>, !.timer = FALSE], Batches(r.queue))

Enqueue(r, ev) ==
    LET q == [r EXCEPT !.queue = Append(@, ev)] IN
    IF Len(q.queue) >= BatchSize THEN Flush(q) ELSE [q EXCEPT !.timer = TRUE]

-----------------------------------------------------------------------------
(* report. *)

(* Analytics answers with the identity of now, or none (no consent, say).  *)
(* It counts only for an error of this epoch that was not buffered too long. *)
Name(n, known) ==
    IF known /\ ~n.stale /\ n.epoch = epoch THEN epoch ELSE Anonymous

(* Mutant: the wait for analytics has no end. *)
WaitsForSettled(known) == known

Waited(known) == known \/ capped

Throttled(r, e) ==
    \/ Cardinality(r.accepted) >= PageLimit
    \/ Cardinality({a \in r.accepted : Kind[a] = Kind[e]}) >= FingerprintLimit

(* An accepted error waits for analytics to settle, or for the cap, unless  *)
(* that wait is over.                                                       *)
Report(r, n, consent) ==
    IF Throttled(r, n.error) THEN r
    ELSE LET q == [r EXCEPT !.accepted = @ \union {n.error}] IN
         IF Waited(settled)
         THEN Enqueue(q, [error |-> n.error, name |-> Name(n, settled /\ consent)])
         ELSE [q EXCEPT !.awaiting = Append(@, n)]

(* The errors that waited are queued in the order they came. *)
Release(known) ==
    LET Free(r, n) == Enqueue(r, [error |-> n.error, name |-> Name(n, known)])
    IN  FoldLeft(Free, [reporter EXCEPT !.awaiting = <<>>], reporter.awaiting)

(* What a step of the reporter sent counts as tried. *)
Sent(r) ==
    LET fresh == r.requests \ reporter.requests
    IN  [e \in Errors |-> tries[e] + Cardinality({q \in fresh : e \in ErrorsOf(q.batch)})]

Become(r) == \E next \in {r} : reporter' = next /\ tries' = Sent(next)

-----------------------------------------------------------------------------
(* The listener. *)

(* Mutant: a buffered error's epoch is read when it is handed over. *)
HandOverNow(n, late) == [n EXCEPT !.epoch = epoch]

HandOver(n, late) == [n EXCEPT !.stale = late]

Note(e) ==
    /\ visit = "open" /\ noted[e] = 0
    /\ noted' = [noted EXCEPT ![e] = epoch]
    /\ LET n == [error |-> e, epoch |-> epoch, stale |-> FALSE] IN
       \/ /\ chunk = "loaded"
          /\ \E consent \in BOOLEAN : Become(Report(reporter, n, consent))
          /\ UNCHANGED <<chunk, buffer>>
       \/ /\ chunk # "loaded"
          /\ chunk' = "loading"
          /\ buffer' = IF Len(buffer) < BufferLimit THEN Append(buffer, n) ELSE buffer
          /\ UNCHANGED <<reporter, tries>>
    /\ UNCHANGED <<idle, retrying, settled, capped, epoch, visit, hides>>

IdleLoad ==
    /\ visit = "open" /\ idle
    /\ idle' = FALSE
    /\ chunk' = IF chunk = "no" THEN "loading" ELSE chunk
    /\ UNCHANGED <<noted, buffer, reporter, retrying, settled, capped, epoch, visit, hides,
                   tries>>

ChunkLoads(consent, late) ==
    /\ visit = "open" /\ chunk = "loading"
    /\ chunk' = "loaded"
    /\ LET Hand(r, n) == Report(r, HandOver(n, late), consent)
       IN  Become(FoldLeft(Hand, reporter, buffer))
    /\ buffer' = <<>>
    /\ UNCHANGED <<noted, idle, retrying, settled, capped, epoch, visit, hides>>

ChunkFails ==
    /\ visit = "open" /\ chunk = "loading"
    /\ chunk' = "no"
    /\ UNCHANGED <<noted, idle, buffer, reporter, retrying, settled, capped, epoch, visit,
                   hides, tries>>

-----------------------------------------------------------------------------
(* Analytics. *)

(* A sign-in, a sign-out, another tenant. *)
NewEpoch ==
    /\ visit = "open" /\ epoch <= MaxEpoch
    /\ epoch' = epoch + 1
    /\ UNCHANGED <<noted, chunk, idle, buffer, reporter, retrying, settled, capped, visit,
                   hides, tries>>

AnalyticsSettles(consent) ==
    /\ visit = "open" /\ ~settled
    /\ settled' = TRUE
    /\ Become(Release(consent))
    /\ UNCHANGED <<noted, chunk, idle, buffer, retrying, capped, epoch, visit, hides>>

(* The cap runs from the first accepted error. *)
Cap ==
    /\ visit = "open" /\ ~settled /\ ~capped /\ reporter.accepted # {}
    /\ capped' = TRUE
    /\ Become(Release(FALSE))
    /\ UNCHANGED <<noted, chunk, idle, buffer, retrying, settled, epoch, visit, hides>>

-----------------------------------------------------------------------------
(* Sending. *)

FlushTimer ==
    /\ visit = "open" /\ reporter.timer
    /\ Become(Flush(reporter))
    /\ UNCHANGED <<noted, chunk, idle, buffer, retrying, settled, capped, epoch, visit, hides>>

(* Mutant: the quota is given back by an answer only. *)
KeptBack(r, failed) == IF failed THEN 0 ELSE r.keepalive

GivenBack(r, failed) == r.keepalive

Finished(r, failed) ==
    [reporter EXCEPT !.requests = @ \ {r}, !.keepalive = @ - GivenBack(r, failed)]

(* Anything below 500. *)
Answered(r) ==
    /\ visit = "open" /\ r \in reporter.requests
    /\ reporter' = Finished(r, FALSE)
    /\ UNCHANGED <<noted, chunk, idle, buffer, retrying, settled, capped, epoch, visit, hides,
                   tries>>

(* A network failure, or a 5xx. *)
Failed(r) ==
    /\ visit = "open" /\ r \in reporter.requests
    /\ reporter' = Finished(r, TRUE)
    /\ retrying' = IF r.again THEN retrying \union {r.batch} ELSE retrying
    /\ UNCHANGED <<noted, chunk, idle, buffer, settled, capped, epoch, visit, hides, tries>>

RetryTimer(b) ==
    /\ visit = "open" /\ b \in retrying
    /\ retrying' = retrying \ {b}
    /\ Become(Send(reporter, b, FALSE))
    /\ UNCHANGED <<noted, chunk, idle, buffer, settled, capped, epoch, visit, hides>>

-----------------------------------------------------------------------------
(* pagehide. *)

(* What waited for its identity leaves without one, the batches of a retry go now. *)
Unsent(e) ==
    LET Waiting(s) == Cardinality({i \in DOMAIN s : s[i].error = e})
    IN  Waiting(reporter.queue) + Waiting(reporter.awaiting)
        + Cardinality({b \in retrying : e \in ErrorsOf(b)})

(* Mutant: what waits for its identity goes on waiting. *)
HiddenAwaiting == [reporter EXCEPT !.queue = <<>>, !.timer = FALSE]

Hidden == [reporter EXCEPT !.queue = <<>>, !.timer = FALSE, !.awaiting = <<>>]

(* The listener is there since the first error that was looked at. *)
PageHide ==
    /\ visit = "open" /\ hides < MaxHides
    /\ hides' = hides + 1
    /\ reporter' = Hidden
    /\ retrying' = {}
    /\ tries' = [e \in Errors |-> tries[e] + Unsent(e)]
    /\ UNCHANGED <<noted, chunk, idle, buffer, settled, capped, epoch, visit>>

(* The page goes, hidden first or killed, with what it still holds. *)
Unload ==
    /\ visit = "open"
    /\ visit' = "gone"
    /\ UNCHANGED <<noted, chunk, idle, buffer, reporter, retrying, settled, capped, epoch,
                   hides, tries>>

-----------------------------------------------------------------------------

ReporterInit ==
    /\ noted = [e \in Errors |-> 0] /\ chunk = "no" /\ idle = TRUE /\ buffer = <<>>
    /\ reporter = [accepted |-> {}, awaiting |-> <<>>, queue |-> <<>>, timer |-> FALSE,
                   requests |-> {}, keepalive |-> 0]
    /\ retrying = {} /\ settled = FALSE /\ capped = FALSE /\ epoch = 1
    /\ visit = "open" /\ hides = 0
    /\ tries = [e \in Errors |-> 0]

ReporterNext ==
    \/ \E e \in Errors : Note(e)
    \/ IdleLoad \/ ChunkFails \/ NewEpoch \/ Cap \/ FlushTimer \/ PageHide \/ Unload
    \/ \E consent, late \in BOOLEAN : ChunkLoads(consent, late)
    \/ \E consent \in BOOLEAN : AnalyticsSettles(consent)
    \/ \E r \in reporter.requests : Answered(r) \/ Failed(r)
    \/ \E b \in retrying : RetryTimer(b)

ReporterSpec == ReporterInit /\ [][ReporterNext]_reporterVars

(* Timers fire. *)
FairReporterSpec == ReporterSpec /\ WF_reporterVars(Cap) /\ WF_reporterVars(FlushTimer)

-----------------------------------------------------------------------------
(* Properties. *)

Keepalive(requests) == MapThenSumSet(LAMBDA r : r.keepalive, requests)

Batch(b) == Len(b) \in 1 .. BatchSize /\ (Len(b) = 1 \/ Bytes(b) <= BatchMax)

(* The reporter's count of keepalive bytes (send) is what its requests in   *)
(* flight hold and within the quota, through failures, retries and hidden   *)
(* pages, and a batch is within its limits unless it is one event.          *)
BytesKept ==
    /\ ReporterTypeOK
    /\ reporter.keepalive = Keepalive(reporter.requests)
    /\ \A b \in retrying \union {q.batch : q \in reporter.requests} : Batch(b)

(* Wherever an error is -- waiting for its identity, queued, sent, retried, *)
(* beaconed -- it leaves the page at most twice, the second time after the  *)
(* first failed: the identity that settles after a pagehide, or a retry     *)
(* timer, never sends again what a beacon took.                             *)
TwiceAtMost == \A e \in Errors : tries[e] <= 2

(* An event that carries an identity belongs to the person and tenant that  *)
(* were there when its error was noted, buffered or not (notedEpoch).       *)
OwnName ==
    \A b \in {reporter.queue} \union retrying \union {q.batch : q \in reporter.requests} :
        \A ev \in ToSet(b) : ev.name \in {Anonymous, noted[ev.error]}

(* An accepted error leaves the page, named or not, if the page stays open: *)
(* a load of analytics that never ends holds nothing back.                  *)
EveryErrorGoes ==
    \A e \in Errors : e \in reporter.accepted ~> tries[e] > 0 \/ visit = "gone"
=============================================================================
