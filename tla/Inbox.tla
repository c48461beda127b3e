-------------------------------- MODULE Inbox --------------------------------
(***************************************************************************)
(* The cached inbox (queries/notification.queries): pages of one list, kept *)
(* in the query cache, which writes edit at once and put back when they     *)
(* fail, while refetches land and other writes are in flight.               *)
(*                                                                         *)
(* Two pages stand for all of them: the whole list, and an unread view cut  *)
(* to one row that carries the capped total (the bell's count).  Every page *)
(* is on screen, so an invalidation refetches it at once.  The server and   *)
(* the query client are external.                                           *)
(***************************************************************************)
EXTENDS Naturals, FiniteSets

CONSTANTS
    N,          \* the notifications are 1 .. N, newest first
    Cap,        \* the API counts no further than this
    WriteKinds, \* bound: the writes the person makes
    MaxWrites,  \* bound: writes in flight at once
    Sent        \* the notifications that are there, unread, at the start

ASSUME InboxAssumption ==
    /\ N \in Nat /\ Cap \in Nat \ {0}
    /\ WriteKinds \subseteq {"read", "delete", "all"} /\ MaxWrites \in Nat
    /\ Sent \subseteq 1 .. N

VARIABLES
    server,     \* the server's notifications
    pages,      \* the cached pages
    fetch,      \* each page's read: none, asked, or the answer on its way
    invalid,    \* the pages marked stale since their last read
    write,      \* the writes in flight
    snapshot,   \* what each of them would put back
    frame,      \* whether the stream has a notification to tell of
    overtaken   \* history: writes a read was asked during

inboxVars == <<server, pages, fetch, invalid, write, snapshot, frame, overtaken>>

Rows    == 1 .. N
States  == {"unsent", "unread", "read", "deleted"}
Views   == {"all", "unread"}
Totals  == [count : 0 .. Cap, capped : BOOLEAN]
Writes  == {w \in [kind : WriteKinds, row : 0 .. N] : w.kind = "all" <=> w.row = 0}
Page    == [items : [Rows -> {"absent", "unread", "read"}], total : Totals]
InFlight == {w \in Writes : write[w] # "none"}

InboxTypeOK ==
    /\ server \in [Rows -> States]
    /\ pages \in [Views -> Page]
    /\ fetch \in [Views -> [stage : {"none", "asked", "answered"}, at : [Rows -> States]]]
    /\ invalid \subseteq Views
    /\ write \in [Writes -> {"none", "sent", "done", "failed"}]
    /\ snapshot \in [Writes -> [Views -> Page]]
    /\ frame \in BOOLEAN
    /\ overtaken \subseteq Writes

-----------------------------------------------------------------------------
(* GET /notifications. *)

Unread(s) == {r \in Rows : s[r] = "unread"}
Newest(R) == {r \in R : \A x \in R : r <= x}

\* The page of view v while the server holds s; a later page of the same list
\* repeats nothing here, so the unread view shows its newest row.
View(v, s) ==
    [items |-> [r \in Rows |->
                   IF v = "all" THEN (IF s[r] \in {"unread", "read"} THEN s[r] ELSE "absent")
                   ELSE IF r \in Newest(Unread(s)) THEN "unread" ELSE "absent"],
     total |-> [count  |-> IF Cardinality(Unread(s)) < Cap THEN Cardinality(Unread(s)) ELSE Cap,
                capped |-> Cardinality(Unread(s)) > Cap]]

Nothing  == [r \in Rows |-> "unsent"]
NoPages  == [v \in Views |-> View(v, Nothing)]
NoFetch  == [stage |-> "none", at |-> Nothing]
Asked    == [stage |-> "asked", at |-> Nothing]

InboxInit ==
    /\ server = [r \in Rows |-> IF r \in Sent THEN "unread" ELSE "unsent"]
    /\ pages = [v \in Views |-> View(v, server)]
    /\ fetch = [v \in Views |-> NoFetch]
    /\ invalid = {}
    /\ write = [w \in Writes |-> "none"]
    /\ snapshot = [w \in Writes |-> NoPages]
    /\ frame = FALSE
    /\ overtaken = {}

\* Reads asked while writes are in flight may answer without them.
Ask(V) ==
    /\ fetch' = [v \in Views |-> IF v \in V THEN Asked ELSE fetch[v]]
    /\ overtaken' = IF V = {} THEN overtaken ELSE overtaken \union InFlight

\* A page that is stale is read again: it was mounted, or the window came back.
\* Bound: a page is stale by an invalidation, not by its age.
Reread(v) ==
    /\ v \in invalid
    /\ fetch[v] = NoFetch
    /\ Ask({v})
    /\ UNCHANGED <<server, pages, invalid, write, snapshot, frame>>

FetchServed(v) ==
    /\ fetch[v] = Asked
    /\ fetch' = [fetch EXCEPT ![v] = [stage |-> "answered", at |-> server]]
    /\ UNCHANGED <<server, pages, invalid, write, snapshot, frame, overtaken>>

FetchLands(v) ==
    /\ fetch[v].stage = "answered"
    /\ pages' = [pages EXCEPT ![v] = View(v, fetch[v].at)]
    /\ fetch' = [fetch EXCEPT ![v] = NoFetch]
    /\ invalid' = invalid \ {v}
    /\ UNCHANGED <<server, write, snapshot, frame, overtaken>>

FetchFails(v) ==
    /\ fetch[v] # NoFetch
    /\ fetch' = [fetch EXCEPT ![v] = NoFetch]
    /\ UNCHANGED <<server, pages, invalid, write, snapshot, frame, overtaken>>

\* A notification arrives; the stream invalidates the list.
Arrives(r) ==
    /\ server[r] = "unsent"
    /\ \A x \in Rows : server[x] = "unsent" => x <= r
    /\ server' = [server EXCEPT ![r] = "unread"]
    /\ frame' = TRUE
    /\ UNCHANGED <<pages, fetch, invalid, write, snapshot, overtaken>>

FrameHeard ==
    /\ frame
    /\ frame' = FALSE
    /\ invalid' = Views
    /\ Ask(Views)
    /\ UNCHANGED <<server, pages, write, snapshot>>

-----------------------------------------------------------------------------
(* The optimistic edit of a write. *)

Offered(w) ==
    \/ w.kind = "read" /\ \E v \in Views : pages[v].items[w.row] = "unread"
    \/ w.kind = "delete" /\ \E v \in Views : pages[v].items[w.row] # "absent"
    \/ w.kind = "all" /\ pages["unread"].total.count > 0

\* An exact unread total goes down by one when an unread row goes.  Mutants: for
\* any row; below nothing.
LoweredAnyway(total, wasUnread) ==
    IF ~total.capped /\ total.count > 0 THEN [total EXCEPT !.count = @ - 1] ELSE total
LoweredBelow(total, wasUnread) ==
    IF ~total.capped THEN [total EXCEPT !.count = @ - 1] ELSE total
Lowered(total, wasUnread) ==
    IF wasUnread /\ ~total.capped /\ total.count > 0
    THEN [total EXCEPT !.count = @ - 1] ELSE total

WasUnread(w) == \E v \in Views : pages[v].items[w.row] = "unread"

\* A read row leaves the unread view and shows read in the other; a deleted one
\* leaves both.
EditedItems(w, v) ==
    [r \in Rows |->
        LET hit == w.kind = "all" \/ r = w.row
        IN IF ~hit THEN pages[v].items[r]
           ELSE IF w.kind = "delete" \/ v = "unread" THEN "absent"
           ELSE IF pages[v].items[r] = "unread" THEN "read" ELSE pages[v].items[r]]
EditedTotal(w, v) ==
    CASE v = "all"      -> pages[v].total
      [] v # "all" /\ w.kind = "all" -> [count |-> 0, capped |-> FALSE]
      [] OTHER          -> Lowered(pages[v].total, WasUnread(w))
Edited(w) ==
    [v \in Views |-> [pages[v] EXCEPT !.items = EditedItems(w, v),
                                      !.total = EditedTotal(w, v)]]

\* The reads in flight are cancelled before the edit.  Mutant: they may land.
FetchesLeft      == fetch
FetchesCancelled == [v \in Views |-> NoFetch]

\* onMutate: cancel the reads, remember the pages, edit them all.  Writing a page
\* marks it fresh.
StartWrite(w) ==
    /\ write[w] = "none" /\ Offered(w)
    /\ Cardinality(InFlight) < MaxWrites
    /\ fetch' = FetchesCancelled
    /\ snapshot' = [snapshot EXCEPT ![w] = pages]
    /\ pages' = Edited(w)
    /\ invalid' = {}
    /\ write' = [write EXCEPT ![w] = "sent"]
    /\ UNCHANGED <<server, frame, overtaken>>

\* The server applies the write, or refuses it, or applies it and its answer is
\* lost on the way.
Applied(w) ==
    [r \in Rows |->
        LET hit == w.kind = "all" \/ r = w.row
        IN IF hit /\ w.kind = "delete" /\ server[r] # "unsent" THEN "deleted"
           ELSE IF hit /\ server[r] = "unread" THEN "read" ELSE server[r]]

WriteServed(w) ==
    /\ write[w] = "sent"
    /\ \/ /\ server' = Applied(w)
          /\ write' = [write EXCEPT ![w] = "done"]
       \/ /\ server' = Applied(w)
          /\ write' = [write EXCEPT ![w] = "failed"]
       \/ /\ write' = [write EXCEPT ![w] = "failed"]
          /\ UNCHANGED server
    /\ UNCHANGED <<pages, fetch, invalid, snapshot, frame, overtaken>>

\* Another inbox write is still in flight.  Mutants: nobody looks; or a write
\* counts itself.
NobodyElse(w)  == FALSE
AnyWrite(w)    == InFlight # {}
OtherWrite(w)  == InFlight \ {w} # {}

\* onError puts the snapshot back, onSettled refetches: both only when no other
\* write is in flight, whose edit they would undo.
SettleWrite(w) ==
    /\ write[w] \in {"done", "failed"}
    /\ write' = [write EXCEPT ![w] = "none"]
    /\ snapshot' = [snapshot EXCEPT ![w] = NoPages]
    /\ overtaken' = overtaken \ {w}
    /\ IF OtherWrite(w)
       THEN UNCHANGED <<pages, fetch, invalid>>
       ELSE /\ pages' = IF write[w] = "failed" THEN snapshot[w] ELSE pages
            /\ fetch' = [v \in Views |-> Asked]
            /\ invalid' = Views
    /\ UNCHANGED <<server, frame>>

InboxNext ==
    \/ \E v \in Views : Reread(v) \/ FetchServed(v) \/ FetchLands(v) \/ FetchFails(v)
    \/ \E r \in Rows : Arrives(r)
    \/ FrameHeard
    \/ \E w \in Writes : StartWrite(w) \/ WriteServed(w) \/ SettleWrite(w)

InboxSpec == InboxInit /\ [][InboxNext]_inboxVars

-----------------------------------------------------------------------------
(* Properties. *)

\* Whatever overtook what, a page nobody marked stale, with no write or read in
\* flight and no frame to hear, shows what the server holds: rollbacks that
\* waited, edits of lost writes and cancelled reads are all made good by the
\* refetch after the last write (notification.queries.ts:158-178).
Converged ==
    InFlight = {} /\ ~frame =>
        \A v \in Views \ invalid : fetch[v] = NoFetch =>
            /\ pages[v].items = View(v, server).items
            /\ v = "unread" => pages[v].total = View(v, server).total

\* The lists end up right, their counts never below zero on the way
\* (notification.queries.ts:127-178).
InboxSettled == InboxTypeOK /\ Converged

\* What a write that is in flight shows.
Shows(w) ==
    /\ w.kind = "delete" => \A v \in Views : pages[v].items[w.row] = "absent"
    /\ w.kind = "read" => \A v \in Views : pages[v].items[w.row] # "unread"
    /\ w.kind = "all" => \A v \in Views, r \in Rows : pages[v].items[r] # "unread"

\* A row does not flick back while its write is in flight: no earlier read, no
\* rollback and no refetch of another write undoes the edit, only a read that
\* was asked for meanwhile (notification.queries.ts:150-165, 188-189).
EditsStand == \A w \in InFlight \ overtaken : Shows(w)

\* An edit keeps the bell's count and the list in step: a count that agreed with
\* the unread rows before a write's edit agrees after it, on every page at once,
\* unless it is only a lower bound (notification.queries.ts:127-148).
UnreadIn(v) == {r \in Rows : pages[v].items[r] = "unread"}
Agree ==
    /\ UnreadIn("unread") \subseteq UnreadIn("all")
    /\ ~pages["unread"].total.capped =>
          pages["unread"].total.count = Cardinality(UnreadIn("all"))
EditsCount ==
    [][Agree /\ (\E w \in Writes : write[w] = "none" /\ write'[w] = "sent") => Agree']_inboxVars
=============================================================================
