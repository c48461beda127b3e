------------------------ MODULE Observability_proofs ------------------------
(***************************************************************************)
(* What analytics and error tracking promise, for any people, tenants and  *)
(* errors.                                                                 *)
(*                                                                         *)
(* Why a page is measured with its own tenant and its own person's flags,  *)
(* for any navigations and sign-ins.  Two invariants that need nothing of  *)
(* each other: the flags and what is registered from them, and the queue   *)
(* of page views with the group it leaves behind.                          *)
(*                                                                         *)
(* Why an error leaves the page at most twice, under nobody else's name,   *)
(* and why the keepalive quota is counted right, for any errors, sizes and *)
(* limits: every error is in one place at most -- buffered, waiting for    *)
(* its identity, queued, in a request or waiting for a retry -- and was    *)
(* tried as often as that place says.                                      *)
(***************************************************************************)
EXTENDS PageAnalytics, ErrorReporter, SequenceTheorems, FiniteSetTheorems,
        WellFoundedInduction, TLAPS

-----------------------------------------------------------------------------
(* The flags. *)

Owners == People \cup {Nobody}

\* The part of the types the flags rest on.
FlagTypes ==
  /\ user \in Owners
  /\ page \in Pages /\ nav \in Pages \cup {Nowhere} /\ resolving \in BOOLEAN
  /\ flags \in [Scopes -> Owners] /\ fetch \in [Scopes -> Owners]
  /\ lastTenant \in Groups /\ earlier \in Groups
  /\ features \in Scopes \cup {Nowhere}

\* The two records of the tenant shown last agree, so the reset that one of them
\* guards comes whenever the other has another tenant.
Settled == earlier = lastTenant /\ dated = {}

FlagInv == FlagTypes /\ Settled /\ OwnFlags /\ FeaturesFit

\* Every page has a scope.
LEMMA Scoped == \A p \in Pages : ScopeOf(p) \in Scopes
BY DEF ScopeOf, Scopes

\* Clearing leaves what it keeps.
LEMMA Clearing ==
  ASSUME FlagTypes, NEW keep, ClearFlags(keep)
  PROVE  /\ flags' \in [Scopes -> Owners] /\ fetch' \in [Scopes -> Owners]
         /\ \A s \in Scopes :
              /\ s \in keep => flags'[s] = flags[s] /\ fetch'[s] = fetch[s]
              /\ s \notin keep => flags'[s] = Nobody /\ fetch'[s] = Nobody
BY DEF FlagTypes, ClearFlags, Owners

\* A new document has no values and registers none.
LEMMA FlagInit == Init => FlagInv
BY TenantsAssumption DEF Init, FlagInv, FlagTypes, Settled, OwnFlags, FeaturesFit, Owners, Pages,
   Scopes, Groups

\* Reads land for whoever asked; a sign-in, a sign-out and a new tenant clear.
LEMMA FlagStep == ASSUME FlagInv, [Next]_vars PROVE FlagInv'
<1> USE DEF FlagInv, FlagTypes, Settled, OwnFlags, FeaturesFit, vars, routeVars, groupVars,
            flagVars, featVars, userVars
<1>1. ASSUME NEW t \in Tenants, Preload(t) PROVE FlagInv'
  BY <1>1 DEF Preload
<1>2. ASSUME NEW t \in Tenants, TenantLands(t) PROVE FlagInv'
  BY <1>2 DEF TenantLands, SettleReads
<1>3. ASSUME NEW t \in Tenants, DetailRemoved(t) PROVE FlagInv'
  BY <1>3 DEF DetailRemoved, SettleReads
<1>4. ASSUME NEW p \in Pages, Navigate(p) PROVE FlagInv'
  BY <1>4, Scoped DEF Navigate, EnsureFlags, Owners
<1>5. CASE Commit
  BY <1>5, Scoped DEF Commit, SyncFeatures, Cached
<1>6. CASE Resolve
  <2>1. /\ resolving' = FALSE /\ earlier' = IF page \in Tenants THEN page ELSE earlier
        /\ UNCHANGED <<user, page, nav, features, known>>
    BY <1>6 DEF Resolve, RouteAnalytics
  <2>2. CASE page \notin Tenants
    BY <1>6, <2>1, <2>2 DEF Resolve, FlagScopeReset
  <2>3. CASE page \in Tenants
    <3>1. ScopeOf(page) = page /\ page \in Groups
      BY <2>3 DEF ScopeOf, Groups
    <3>2. /\ lastTenant' = page /\ earlier' = page
          /\ dated' = Aged({earlier} \ {NoTenant, page})
      BY <1>6, <2>1, <2>3 DEF Resolve, FlagScopeReset
    <3>3. CASE lastTenant \notin {NoTenant, page}
      <4>1. ClearFlags({page})
        BY <1>6, <2>3, <3>3 DEF Resolve, FlagScopeReset
      <4>2. dated' = {}
        BY <3>2, <4>1, Clearing DEF Aged, Scopes, Groups
      <4> QED
        BY <2>1, <3>1, <3>2, <4>1, <4>2, Clearing
    <3>4. CASE lastTenant \in {NoTenant, page}
      <4>1. UNCHANGED <<flags, fetch>>
        BY <1>6, <2>3, <3>4 DEF Resolve, FlagScopeReset
      <4>2. dated' = {}
        BY <3>2, <3>4 DEF Aged
      <4> QED
        BY <2>1, <3>1, <3>2, <4>1, <4>2
    <3> QED
      BY <3>3, <3>4
  <2> QED
    BY <2>2, <2>3
<1>7. CASE TakeTurn
  BY <1>7 DEF TakeTurn
<1>8. CASE WaitEnds
  BY <1>8 DEF WaitEnds
<1>9. ASSUME NEW s \in Scopes, FlagsLand(s) PROVE FlagInv'
  BY <1>9 DEF FlagsLand, Owners
<1>10. CASE HookReads
  BY <1>10, Scoped DEF HookReads
<1>11. CASE SyncEffect
  BY <1>11, Scoped DEF SyncEffect, SyncFeatures, Cached
<1>12. ASSUME NEW p \in People, SignIn(p) PROVE FlagInv'
  BY <1>12, Clearing DEF SignIn, Forget, Owners
<1>13. CASE SignOut
  BY <1>13, Clearing DEF SignOut, Forget, Owners
<1>14. CASE UNCHANGED vars
  BY <1>14
<1> QED
  BY <1>1, <1>2, <1>3, <1>4, <1>5, <1>6, <1>7, <1>8, <1>9, <1>10, <1>11, <1>12, <1>13, <1>14
     DEF Next

-----------------------------------------------------------------------------
(* The group. *)

Waits(i) == queue[i].status = "wait"

\* While a view waits, it is for the tenant shown last, whose read is out, and no
\* view in the queue has a tenant yet; the last view is of the page in force.
QueueFits ==
  /\ \A i \in 1 .. Len(queue) : Waits(i) =>
       /\ queue[i].slug = earlier /\ earlier \in Tenants
       /\ promise[earlier] = "wait"
       /\ \A j \in 1 .. Len(queue) : queue[j].status # "tenant"
  /\ queue # <<>> => queue[Len(queue)].slug = inForce
  /\ inForce \in {NoTenant, earlier}

\* A page of a tenant was loaded with a promise of its read, which is out for as
\* long as the promise waits.
LoadFits ==
  /\ \A t \in Tenants : promise[t] = "wait" => detail[t] = "pending"
  /\ page \in Tenants => promise[page] # "never"
  /\ nav \in Tenants => promise[nav] # "never"
  /\ ~resolving => inForce = ScopeOf(page)

\* The one group that is neither the page's nor none (GroupFits).
GroupKept ==
  Idle /\ group \notin {NoTenant, inForce} =>
    inForce = NoTenant /\ queue # <<>> /\ Head(queue).slug = group

GroupInv == TypeOK /\ QueueFits /\ LoadFits /\ GroupKept

\* Settling waits keeps every view and its place.
LEMMA Settling ==
  ASSUME NEW q \in Seq(Turns), NEW which, NEW status \in Status
  PROVE  /\ Settle(q, which, status) \in Seq(Turns)
         /\ Len(Settle(q, which, status)) = Len(q)
         /\ \A i \in 1 .. Len(q) :
              /\ Settle(q, which, status)[i].slug = q[i].slug
              /\ Settle(q, which, status)[i].status =
                   IF q[i].status = "wait" /\ q[i].slug \in which THEN status ELSE q[i].status
<1> DEFINE S == Settle(q, which, status)
<1>1. DOMAIN q = 1 .. Len(q) /\ Len(q) \in Nat /\ \A i \in 1 .. Len(q) : q[i] \in Turns
  OBVIOUS
<1>2. S = [i \in 1 .. Len(q) |-> IF q[i].status = "wait" /\ q[i].slug \in which
                                   THEN [q[i] EXCEPT !.status = status] ELSE q[i]]
  BY <1>1 DEF Settle
<1>3. \A i \in 1 .. Len(q) : S[i] \in Turns /\ S[i].slug = q[i].slug
        /\ S[i].status = IF q[i].status = "wait" /\ q[i].slug \in which
                           THEN status ELSE q[i].status
  BY <1>1, <1>2 DEF Turns
<1>4. S \in Seq(Turns)
  BY <1>1, <1>2, <1>3, SeqDef
<1>5. Len(S) = Len(q)
  BY <1>1, <1>2, <1>4
<1> QED
  BY <1>3, <1>4, <1>5

\* What is left of a queue when its head has had its turn.
LEMMA Tailing ==
  ASSUME NEW q \in Seq(Turns), q # <<>>
  PROVE  /\ Len(q) \in Nat /\ Len(q) > 0 /\ Head(q) = q[1] /\ Head(q) \in Turns
         /\ Tail(q) \in Seq(Turns) /\ Len(Tail(q)) = Len(q) - 1
         /\ Tail(q) = <<>> => Head(q) = q[Len(q)]
         /\ Tail(q) # <<>> => /\ Len(q) > 1 /\ Head(Tail(q)) = q[2]
                              /\ Tail(q)[Len(Tail(q))] = q[Len(q)]
         /\ \A i \in 1 .. Len(Tail(q)) : i + 1 \in 1 .. Len(q) /\ Tail(q)[i] = q[i + 1]
<1>1. /\ Len(q) \in Nat /\ Len(q) > 0 /\ Head(q) = q[1] /\ Head(q) \in Turns
      /\ Tail(q) \in Seq(Turns) /\ Len(Tail(q)) = Len(q) - 1
  OBVIOUS
<1>2. \A i \in 1 .. Len(Tail(q)) : i + 1 \in 1 .. Len(q) /\ Tail(q)[i] = q[i + 1]
  BY <1>1
<1>3. Tail(q) = <<>> => Len(q) = 1
  <2> SUFFICES ASSUME Tail(q) = <<>> PROVE Len(q) = 1
    OBVIOUS
  <2>1. Len(Tail(q)) = Len(<<>>)
    BY Zenon
  <2>2. Len(<<>>) = 0
    OBVIOUS
  <2>3. Len(q) - 1 = 0
    BY <1>1, <2>1, <2>2
  <2> QED
    BY <1>1, <2>3
<1>4. Tail(q) # <<>> => Len(Tail(q)) > 0
  BY <1>1
<1>5. ASSUME Tail(q) # <<>>
      PROVE  Len(q) > 1 /\ Head(Tail(q)) = q[2] /\ Tail(q)[Len(Tail(q))] = q[Len(q)]
  <2>1. Len(q) > 1 /\ 1 \in 1 .. Len(Tail(q)) /\ Len(q) - 1 \in 1 .. Len(Tail(q))
    BY <1>1, <1>4, <1>5
  <2>2. Tail(q)[1] = q[1 + 1] /\ Tail(q)[Len(q) - 1] = q[(Len(q) - 1) + 1]
    BY <1>2, <2>1
  <2>3. Head(Tail(q)) = Tail(q)[1]
    BY <1>1, <1>5
  <2> QED
    BY <1>1, <2>1, <2>2, <2>3
<1> QED
  BY <1>1, <1>2, <1>3, <1>5

\* A read that is answered ends every wait for it, and nothing else.
LEMMA SettledReads ==
  ASSUME TypeOK, QueueFits, LoadFits, GroupKept, Idle,
         NEW which, NEW status \in Status \ {"wait"}, SettleReads(which, status),
         detail' \in [Tenants -> {"absent", "pending", "found", "missing"}],
         \A t \in Tenants : t \notin which => detail'[t] = detail[t],
         UNCHANGED <<left, page, nav, resolving, inForce, earlier>>
  PROVE  /\ promise' \in [Tenants -> Status \cup {"never"}] /\ queue' \in Seq(Turns)
         /\ QueueFits' /\ LoadFits'
         /\ group' \in {NoTenant, group} => GroupKept'
<1>1. queue \in Seq(Turns) /\ status \in Status /\ Len(queue) \in Nat
      /\ queue' = Settle(queue, which, status)
  BY DEF TypeOK, SettleReads
<1>2. /\ queue' \in Seq(Turns) /\ Len(queue') = Len(queue)
      /\ \A i \in 1 .. Len(queue) :
           /\ queue'[i].slug = queue[i].slug
           /\ queue'[i].status = IF queue[i].status = "wait" /\ queue[i].slug \in which
                                   THEN status ELSE queue[i].status
  BY <1>1, Settling
<1>3. /\ promise' \in [Tenants -> Status \cup {"never"}]
      /\ \A t \in Tenants : promise[t] # "never" => promise'[t] # "never"
      /\ \A t \in Tenants : t \notin which => promise'[t] = promise[t]
  <2>1. promise' = [t \in Tenants |-> IF t \in which /\ promise[t] = "wait"
                                        THEN status ELSE promise[t]]
    BY DEF SettleReads
  <2>2. promise \in [Tenants -> Status \cup {"never"}] /\ status # "never"
    BY DEF TypeOK, Status
  <2> QED
    BY <1>1, <2>1, <2>2
<1>4. \A i \in 1 .. Len(queue) : queue'[i].status = "wait" =>
        /\ queue[i].status = "wait" /\ earlier \notin which
        /\ queue'[i].slug = earlier /\ earlier \in Tenants
        /\ promise'[earlier] = "wait"
        /\ \A j \in 1 .. Len(queue) : queue'[j].status # "tenant"
  <2> SUFFICES ASSUME NEW i \in 1 .. Len(queue), queue'[i].status = "wait"
               PROVE  /\ queue[i].status = "wait" /\ earlier \notin which
                      /\ queue'[i].slug = earlier /\ earlier \in Tenants
                      /\ promise'[earlier] = "wait"
                      /\ \A j \in 1 .. Len(queue) : queue'[j].status # "tenant"
    OBVIOUS
  <2>1. queue[i].status = "wait" /\ queue[i].slug \notin which
    BY <1>2
  <2>2. earlier \notin which /\ earlier \in Tenants /\ queue[i].slug = earlier
        /\ promise[earlier] = "wait"
        /\ \A j \in 1 .. Len(queue) : queue[j].status # "tenant"
    BY <2>1 DEF QueueFits, Waits
  <2>3. \A j \in 1 .. Len(queue) : queue[j].status = "wait" => queue[j].slug = earlier
    BY DEF QueueFits, Waits
  <2> QED
    BY <1>2, <1>3, <2>1, <2>2, <2>3
<1>5. QueueFits'
  <2>1. queue' # <<>> => queue # <<>> /\ queue'[Len(queue')].slug = queue[Len(queue)].slug
    BY <1>1, <1>2
  <2> QED
    BY <1>2, <1>4, <2>1 DEF QueueFits, Waits
<1>6. ASSUME group' \in {NoTenant, group} PROVE GroupKept'
  <2> SUFFICES ASSUME Idle', group' \notin {NoTenant, inForce}
               PROVE  inForce = NoTenant /\ queue' # <<>> /\ Head(queue').slug = group'
    BY DEF GroupKept
  <2>1. inForce = NoTenant /\ queue # <<>> /\ Head(queue).slug = group /\ group' = group
    BY <1>6 DEF GroupKept
  <2> QED
    BY <1>1, <1>2, <2>1
<1>7. \A t \in which : t \in Tenants => promise'[t] # "wait"
  BY <1>1 DEF SettleReads, TypeOK
<1>8. LoadFits'
  BY <1>3, <1>7 DEF LoadFits, Pages
<1> QED
  BY <1>2, <1>3, <1>5, <1>6, <1>8

\* A new document has no views.
LEMMA GroupInit == Init => GroupInv
<1> SUFFICES ASSUME Init PROVE GroupInv
  OBVIOUS
<1>1. queue \in Seq(Turns) /\ Len(queue) = 0
  BY DEF Init
<1>2. TypeOK
  BY <1>1, TenantsAssumption DEF Init, TypeOK, Pages, Scopes, Groups
<1>3. QueueFits /\ LoadFits /\ GroupKept
  BY <1>1, TenantsAssumption DEF Init, QueueFits, LoadFits, GroupKept, ScopeOf
<1> QED
  BY <1>2, <1>3 DEF GroupInv

\* A view is added by a resolve, which cuts another tenant's, and leaves by its turn;
\* the steps of the flags touch neither.
LEMMA GroupStep == ASSUME GroupInv, [Next]_vars PROVE GroupInv'
<1> USE DEF GroupInv, vars, routeVars, groupVars, flagVars, featVars, userVars
<1>1. ASSUME NEW t \in Tenants, Preload(t) PROVE GroupInv'
  BY <1>1 DEF Preload, TypeOK, QueueFits, LoadFits, GroupKept, Waits, Idle, Due, StartRead,
     Answer, Ensured, Status
<1>2. ASSUME NEW t \in Tenants, TenantLands(t) PROVE GroupInv'
  <2>1. PICK d \in {"found", "missing", "absent"} :
          detail' = [detail EXCEPT ![t] = d] /\ SettleReads({t}, Answer(d))
    BY <1>2 DEF TenantLands
  <2>2. Answer(d) \in Status \ {"wait"}
    BY DEF Answer, Status
  <2>3. /\ Idle /\ UNCHANGED <<page, nav, resolving, navs, group, inForce, earlier, flagVars,
                               featVars, userVars>>
        /\ detail' \in [Tenants -> {"absent", "pending", "found", "missing"}]
        /\ \A x \in Tenants : x \notin {t} => detail'[x] = detail[x]
    BY <1>2, <2>1 DEF TenantLands, TypeOK
  <2>4. /\ promise' \in [Tenants -> Status \cup {"never"}] /\ queue' \in Seq(Turns)
        /\ QueueFits' /\ LoadFits' /\ GroupKept'
    BY <2>1, <2>2, <2>3, SettledReads
  <2> QED
    BY <2>3, <2>4 DEF TypeOK
<1>3. ASSUME NEW t \in Tenants, DetailRemoved(t) PROVE GroupInv'
  <2>1. /\ Idle /\ UNCHANGED <<page, nav, resolving, navs, group, inForce, earlier, flagVars,
                               featVars, userVars>>
        /\ detail' \in [Tenants -> {"absent", "pending", "found", "missing"}]
        /\ SettleReads({t}, "none")
        /\ \A x \in Tenants : x \notin {t} => detail'[x] = detail[x]
    BY <1>3 DEF DetailRemoved, TypeOK
  <2>2. /\ promise' \in [Tenants -> Status \cup {"never"}] /\ queue' \in Seq(Turns)
        /\ QueueFits' /\ LoadFits' /\ GroupKept'
    BY <2>1, SettledReads DEF Status
  <2> QED
    BY <2>1, <2>2 DEF TypeOK
<1>4. ASSUME NEW p \in Pages, Navigate(p) PROVE GroupInv'
  <2>1. TypeOK'
    BY <1>4, TenantsAssumption DEF Navigate, TypeOK, StartRead, Answer, Ensured, Status,
       EnsureFlags, ScopeOf, Scopes
  <2>2. QueueFits' /\ GroupKept'
    BY <1>4 DEF Navigate, TypeOK, QueueFits, LoadFits, GroupKept, Waits, Idle, Due, StartRead,
       Answer, Ensured
  <2>3. LoadFits'
    BY <1>4 DEF Navigate, TypeOK, LoadFits, StartRead, Answer, Ensured
  <2> QED
    BY <2>1, <2>2, <2>3
<1>5. CASE Commit
  <2>1. TypeOK'
    BY <1>5, TenantsAssumption DEF Commit, TypeOK, SyncFeatures, Cached, ScopeOf, Scopes
  <2>2. QueueFits' /\ GroupKept' /\ LoadFits'
    BY <1>5, TenantsAssumption DEF Commit, TypeOK, QueueFits, GroupKept, LoadFits, Waits, Idle,
       Due
  <2> QED
    BY <2>1, <2>2
<1>6. CASE Resolve
  <2> DEFINE turn == [slug |-> ScopeOf(page),
                      status |-> IF page \in Tenants THEN promise[page] ELSE "none"]
             cut == IF page \in Tenants /\ earlier # page
                      THEN Settle(queue, {earlier}, "none") ELSE queue
  <2>1. /\ Idle /\ nav = Nowhere /\ resolving' = FALSE /\ FlagScopeReset
        /\ queue' = Append(cut, turn)
        /\ group' = IF page \in Tenants /\ inForce # page THEN NoTenant ELSE group
        /\ inForce' = ScopeOf(page)
        /\ earlier' = IF page \in Tenants THEN page ELSE earlier
        /\ UNCHANGED <<page, nav, promise, navs, featVars, userVars, detail>>
    BY <1>6 DEF Resolve, RouteAnalytics
  <2>2. /\ turn \in Turns /\ cut \in Seq(Turns) /\ Len(cut) = Len(queue)
        /\ \A i \in 1 .. Len(cut) :
             /\ cut[i].slug = queue[i].slug
             /\ cut[i].status = IF /\ page \in Tenants /\ earlier # page
                                   /\ queue[i].status = "wait" /\ queue[i].slug = earlier
                                  THEN "none" ELSE queue[i].status
    <3>1. turn \in Turns
      BY DEF TypeOK, LoadFits, Turns, ScopeOf, Groups, Status
    <3>2. queue \in Seq(Turns)
      BY DEF TypeOK
    <3> QED
      BY <3>1, <3>2, Settling DEF Status
  <2>3. /\ queue' \in Seq(Turns) /\ Len(queue') = Len(queue) + 1 /\ queue'[Len(queue) + 1] = turn
        /\ queue' # <<>> /\ Head(queue') = queue'[1]
        /\ \A i \in 1 .. Len(queue) : queue'[i] = cut[i]
        /\ Len(queue) \in Nat /\ 1 .. Len(queue') = (1 .. Len(queue)) \cup {Len(queue) + 1}
    <3>1. queue \in Seq(Turns)
      BY DEF TypeOK
    <3> HIDE DEF turn, cut
    <3> QED
      BY <2>1, <2>2, <3>1
  <2>4. Len(queue) > 0 =>
                        /\ queue # <<>> /\ 1 \in 1 .. Len(queue)
                        /\ queue[1].status = "wait" /\ queue[1].slug = earlier
                        /\ Head(queue) = queue[1]
                        /\ promise[earlier] = "wait" /\ earlier \in Tenants
                        /\ \A i \in 1 .. Len(queue) : queue[i].status # "tenant"
    <3> SUFFICES ASSUME Len(queue) > 0 PROVE
          /\ queue # <<>> /\ 1 \in 1 .. Len(queue)
          /\ queue[1].status = "wait" /\ queue[1].slug = earlier
          /\ Head(queue) = queue[1]
          /\ promise[earlier] = "wait" /\ earlier \in Tenants
          /\ \A i \in 1 .. Len(queue) : queue[i].status # "tenant"
      OBVIOUS
    <3>1. queue # <<>> /\ 1 \in 1 .. Len(queue) /\ Head(queue) = queue[1]
      BY DEF TypeOK
    <3>2. queue[1].status = "wait"
      BY <2>1, <3>1 DEF Idle, Due
    <3> QED
      BY <3>1, <3>2 DEF QueueFits, Waits
  <2>5. TypeOK'
    <3>1. inForce' \in Groups /\ earlier' \in Groups /\ group' \in Groups
      BY <2>1 DEF TypeOK, Groups, ScopeOf
    <3>2. lastTenant' \in Groups /\ dated' \subseteq Tenants
          /\ flags' \in [Scopes -> People \cup {Nobody}]
          /\ fetch' \in [Scopes -> People \cup {Nobody}]
      BY <2>1 DEF TypeOK, FlagScopeReset, ClearFlags, Aged, Groups
    <3> QED
      BY <2>1, <2>3, <3>1, <3>2 DEF TypeOK
  <2>6. LoadFits'
    BY <2>1 DEF LoadFits
  <2>7. QueueFits'
    <3>1. queue'[Len(queue')].slug = inForce' /\ inForce' \in {NoTenant, earlier'}
      BY <2>1, <2>3 DEF ScopeOf
    <3>2. ASSUME NEW i \in 1 .. Len(queue'), Waits(i)'
          PROVE  /\ queue'[i].slug = earlier' /\ earlier' \in Tenants
                 /\ promise[earlier'] = "wait"
                 /\ \A j \in 1 .. Len(queue') : queue'[j].status # "tenant"
      <4>1. ASSUME NEW j \in 1 .. Len(queue) PROVE queue'[j].status # "tenant"
        <5> HIDE DEF cut, turn
        <5>0. Len(queue) > 0
          BY <2>3
        <5>1. queue[j].status # "tenant" /\ queue'[j] = cut[j]
          BY <2>3, <2>4, <5>0
        <5>2. cut[j].status \in {"none", queue[j].status}
          BY <2>2
        <5> QED
          BY <5>1, <5>2
      <4>2. CASE i = Len(queue) + 1
        <5>1. turn.status = "wait" /\ queue'[i] = turn
          BY <2>3, <3>2, <4>2 DEF Waits
        <5>2. page \in Tenants /\ promise[page] = "wait" /\ turn.slug = page
          BY <5>1 DEF ScopeOf
        <5>3. \A j \in 1 .. Len(queue') : queue'[j].status # "tenant"
          BY <2>3, <4>1, <4>2, <5>1
        <5> QED
          BY <2>1, <5>1, <5>2, <5>3
      <4>3. CASE i \in 1 .. Len(queue)
        <5>1. queue # <<>> /\ queue[i].status = "wait" /\ ~(page \in Tenants /\ earlier # page)
              /\ queue'[i].slug = queue[i].slug /\ queue[i].slug = earlier
              /\ promise[earlier] = "wait"
          <6> HIDE DEF cut, turn
          <6>1. /\ queue'[i] = cut[i] /\ cut[i].status = "wait"
                /\ Len(queue) > 0 /\ cut[i].slug = queue[i].slug
            BY <2>2, <2>3, <3>2, <4>3 DEF Waits
          <6>2. queue[i].status = "wait"
            BY <2>2, <4>3, <6>1
          <6>3. queue[i].slug = earlier /\ promise[earlier] = "wait"
            BY <4>3, <6>2 DEF Waits, QueueFits
          <6>4. ~(page \in Tenants /\ earlier # page)
            BY <2>2, <4>3, <6>1, <6>2, <6>3
          <6> QED
            BY <2>4, <6>1, <6>2, <6>3, <6>4
        <5>2. earlier' = earlier /\ earlier \in Tenants
          BY <2>1, <2>4, <5>1
        <5>3. turn.status # "tenant"
          BY <5>1
        <5> QED
          BY <2>3, <4>1, <5>1, <5>2, <5>3
      <4> QED
        BY <2>3, <4>2, <4>3
    <3> QED
      BY <2>1, <3>1, <3>2 DEF QueueFits, Waits
  <2>8. GroupKept'
    <3> SUFFICES ASSUME Idle', group' \notin {NoTenant, inForce'}
                 PROVE  inForce' = NoTenant /\ Head(queue').slug = group'
      BY <2>3 DEF GroupKept
    <3>1. CASE page \in Tenants
      <4>1. inForce = page /\ group' = group /\ inForce' = page /\ page # NoTenant
        BY <2>1, <3>1, TenantsAssumption DEF ScopeOf
      <4> QED
        BY <2>1, <4>1 DEF GroupKept
    <3>2. CASE page \notin Tenants
      <4>1. group' = group /\ inForce' = NoTenant
        BY <2>1, <3>2 DEF ScopeOf
      <4>2. Len(queue) > 0
        <5> SUFFICES ASSUME Len(queue) = 0 PROVE FALSE
          BY <2>3
        <5>1. queue'[1] = turn
          BY <2>3
        <5>2. turn.status = "none"
          BY <3>2
        <5> QED
          BY <2>3, <5>1, <5>2 DEF Idle, Due
      <4>3. Head(queue').slug = queue[1].slug /\ queue[1].slug = earlier /\ Head(queue) = queue[1]
        BY <2>2, <2>3, <2>4, <4>2, ZenonT(60)
      <4> QED
        BY <2>1, <4>1, <4>2, <4>3 DEF GroupKept, QueueFits
    <3> QED
      BY <3>1, <3>2
  <2> QED
    BY <2>5, <2>6, <2>7, <2>8
<1>7. CASE TakeTurn
  <2>1. /\ queue \in Seq(Turns) /\ queue # <<>> /\ queue' = Tail(queue) /\ Due
        /\ UNCHANGED <<inForce, earlier, routeVars, flagVars, featVars, userVars, detail>>
    BY <1>7 DEF TakeTurn, Due, TypeOK
  <2>2. Head(queue).status \in {"tenant", "none"} /\ Head(queue).slug \in Groups
    BY <2>1, Tailing DEF Due, Turns, Status
  <2>3. group' = IF Head(queue).status = "tenant" THEN Head(queue).slug ELSE NoTenant
    BY <1>7, <2>2 DEF TakeTurn, SetTenantGroup, ClearTenantGroup
  <2>4. TypeOK'
    <3>1. group' \in Groups /\ queue' \in Seq(Turns)
      BY <2>1, <2>2, <2>3, Tailing DEF Groups
    <3> QED
      BY <2>1, <3>1 DEF TypeOK
  <2>5. QueueFits'
    <3>1. queue' # <<>> => queue'[Len(queue')].slug = inForce'
      BY <2>1, Tailing DEF QueueFits
    <3>2. ASSUME NEW i \in 1 .. Len(queue'), Waits(i)'
          PROVE  /\ queue'[i].slug = earlier /\ earlier \in Tenants
                 /\ promise[earlier] = "wait"
                 /\ \A j \in 1 .. Len(queue') : queue'[j].status # "tenant"
      <4>1. i + 1 \in 1 .. Len(queue) /\ queue'[i] = queue[i + 1]
        BY <2>1, Tailing
      <4>2. \A j \in 1 .. Len(queue') : j + 1 \in 1 .. Len(queue) /\ queue'[j] = queue[j + 1]
        BY <2>1, Tailing
      <4> QED
        BY <3>2, <4>1, <4>2 DEF QueueFits, Waits
    <3> QED
      BY <2>1, <3>1, <3>2 DEF QueueFits, Waits
  <2>6. GroupKept'
    <3> SUFFICES ASSUME Idle', group' \notin {NoTenant, inForce} PROVE FALSE
      BY <2>1 DEF GroupKept
    <3>1. Head(queue).status = "tenant" /\ group' = Head(queue).slug
      BY <2>3
    <3>2. CASE queue' = <<>>
      BY <2>1, <3>1, <3>2, Tailing DEF QueueFits
    <3>3. CASE queue' # <<>>
      <4>1. /\ 2 \in 1 .. Len(queue) /\ 1 \in 1 .. Len(queue)
            /\ Head(queue) = queue[1] /\ Head(queue') = queue[2]
        BY <2>1, <3>3, Tailing
      <4>2. queue[2].status = "wait"
        BY <3>3, <4>1 DEF Idle, Due
      <4> QED
        BY <3>1, <4>1, <4>2 DEF QueueFits, Waits
    <3> QED
      BY <3>2, <3>3
  <2>7. LoadFits'
    BY <2>1 DEF LoadFits
  <2> QED
    BY <2>4, <2>5, <2>6, <2>7
<1>8. CASE WaitEnds
  <2>1. PICK i \in DOMAIN queue :
          /\ queue[i].status = "wait" /\ \A j \in 1 .. (i - 1) : queue[j].status # "wait"
          /\ queue' = [queue EXCEPT ![i].status = "none"]
    BY <1>8 DEF WaitEnds
  <2>2. /\ Idle /\ UNCHANGED <<group, inForce, earlier, routeVars, flagVars, featVars, userVars,
                               detail>>
        /\ queue \in Seq(Turns) /\ i \in 1 .. Len(queue) /\ Len(queue) \in Nat /\ queue # <<>>
    BY <1>8, <2>1 DEF WaitEnds, TypeOK
  <2>3. i = 1
    <3>1. Head(queue).status = "wait" /\ Head(queue) = queue[1]
      BY <2>2 DEF Idle, Due
    <3> QED
      BY <2>1, <2>2, <3>1
  <2>4. /\ queue' \in Seq(Turns) /\ Len(queue') = Len(queue)
        /\ \A j \in 1 .. Len(queue) :
             queue'[j].slug = queue[j].slug /\ queue'[j].status \in {queue[j].status, "none"}
        /\ queue'[1].status = "none" /\ Head(queue') = queue'[1] /\ queue' # <<>>
    <3>1. [queue[i] EXCEPT !.status = "none"] \in Turns
      <4>1. queue[i] \in Turns
        BY <2>2
      <4> QED
        BY <4>1 DEF Turns, Status
    <3>2. queue' = [queue EXCEPT ![i] = [queue[i] EXCEPT !.status = "none"]]
      BY <2>1
    <3>3. queue' \in Seq(Turns) /\ Len(queue') = Len(queue)
      BY <2>2, <3>1, <3>2
    <3>4. /\ queue'[i].slug = queue[i].slug /\ queue'[i].status = "none"
          /\ \A j \in 1 .. Len(queue) : j # i => queue'[j] = queue[j]
      BY <2>2, <3>1, <3>2 DEF Turns
    <3> QED
      BY <2>2, <2>3, <3>3, <3>4
  <2>5. TypeOK' /\ LoadFits'
    BY <2>2, <2>4 DEF TypeOK, LoadFits
  <2>6. QueueFits'
    <3>1. queue'[Len(queue')].slug = inForce
      BY <2>2, <2>4 DEF QueueFits
    <3>2. ASSUME NEW j \in 1 .. Len(queue'), Waits(j)'
          PROVE  /\ queue'[j].slug = earlier /\ earlier \in Tenants
                 /\ promise[earlier] = "wait"
                 /\ \A k \in 1 .. Len(queue') : queue'[k].status # "tenant"
      BY <2>2, <2>4, <3>2 DEF QueueFits, Waits
    <3> QED
      BY <2>2, <3>1, <3>2 DEF QueueFits, Waits
  <2>7. GroupKept'
    BY <2>4 DEF GroupKept, Idle, Due
  <2> QED
    BY <2>5, <2>6, <2>7
<1>9. ASSUME NEW s \in Scopes, FlagsLand(s) PROVE GroupInv'
  BY <1>9 DEF FlagsLand, TypeOK, QueueFits, GroupKept, LoadFits, Waits, Idle, Due
<1>10. CASE HookReads
  BY <1>10 DEF HookReads, TypeOK, QueueFits, GroupKept, LoadFits, Waits, Idle, Due
<1>11. CASE SyncEffect
  <2>1. TypeOK'
    BY <1>11, TenantsAssumption DEF SyncEffect, TypeOK, SyncFeatures, Cached, ScopeOf, Scopes,
       Pages
  <2>2. QueueFits' /\ GroupKept' /\ LoadFits'
    BY <1>11 DEF SyncEffect, QueueFits, GroupKept, LoadFits, Waits, Idle, Due
  <2> QED
    BY <2>1, <2>2
<1>12. ASSUME NEW p \in People, SignIn(p) PROVE GroupInv'
  <2>1. CASE user \notin {Nobody, p}
    <3>1. /\ Idle /\ UNCHANGED <<left, page, nav, resolving, navs, inForce, earlier, lastTenant>>
          /\ detail' \in [Tenants -> {"absent", "pending", "found", "missing"}]
          /\ SettleReads(Tenants, "none") /\ Forget /\ user' \in People /\ switches' \in Nat
      BY <1>12, <2>1 DEF SignIn, TypeOK
    <3>2. /\ promise' \in [Tenants -> Status \cup {"never"}] /\ queue' \in Seq(Turns)
          /\ QueueFits' /\ LoadFits' /\ (group' \in {NoTenant, group} => GroupKept')
      BY <3>1, SettledReads DEF Status
    <3>3. /\ group' = NoTenant /\ features' = Nowhere /\ known' = Nowhere /\ dated' = {}
          /\ flags' \in [Scopes -> People \cup {Nobody}]
          /\ fetch' \in [Scopes -> People \cup {Nobody}]
      BY <3>1 DEF Forget, ClearFlags, TypeOK
    <3> QED
      BY <3>1, <3>2, <3>3 DEF TypeOK, Groups
  <2>2. CASE user \in {Nobody, p}
    BY <1>12, <2>2 DEF SignIn, TypeOK, QueueFits, LoadFits, GroupKept, Waits, Idle, Due
  <2> QED
    BY <2>1, <2>2
<1>13. CASE SignOut
  <2>1. TypeOK'
    BY <1>13 DEF SignOut, Forget, ClearFlags, TypeOK, Groups
  <2>2. QueueFits' /\ GroupKept' /\ LoadFits'
    BY <1>13 DEF SignOut, QueueFits, GroupKept, LoadFits, Waits, Idle
  <2> QED
    BY <2>1, <2>2
<1>14. CASE UNCHANGED vars
  BY <1>14 DEF TypeOK, QueueFits, GroupKept, LoadFits, Waits, Idle, Due
<1> QED
  BY <1>1, <1>2, <1>3, <1>4, <1>5, <1>6, <1>7, <1>8, <1>9, <1>10, <1>11, <1>12, <1>13, <1>14
     DEF Next

-----------------------------------------------------------------------------
(* The theorems. *)

\* The invariant of the flags, whatever reads outlast their waits and pages.
THEOREM FlagsSafe == Spec => []FlagInv
BY FlagInit, FlagStep, PTL DEF Spec

\* Nobody's page shows or registers another person's flag values, and a tenant's
\* page never those from before a stay on another tenant (session.ts:165-177,
\* flag-scope.ts:63-101).
THEOREM PagesFlagged == Spec => []PageFlagged
<1>1. FlagInv => PageFlagged
  BY DEF FlagInv, Settled, PageFlagged, ReadAfresh
<1> QED
  BY <1>1, FlagsSafe, PTL

\* The invariant of the views and the group, whatever order reads and waits end in.
THEOREM GroupsSafe == Spec => []GroupInv
BY GroupInit, GroupStep, PTL DEF Spec

\* Once a page has resolved and the settled turns are taken, the group in force is
\* its own tenant's or none, but for what a tenant-less page may keep until the
\* view before it goes; and no view waits for a tenant whose page another tenant's
\* has followed (route-telemetry.ts:122-166).
THEOREM PagesGrouped == Spec => []PageGrouped
<1>1. GroupInv => GroupFits
  BY TenantsAssumption DEF GroupInv, LoadFits, GroupKept, GroupFits, ScopeOf
<1>2. GroupInv => NoWaitForAnother
  <2> SUFFICES ASSUME GroupInv, NEW i \in DOMAIN queue, queue[i].status = "wait"
               PROVE  queue[i].slug = earlier
    BY DEF NoWaitForAnother
  <2>1. i \in 1 .. Len(queue)
    BY DEF GroupInv, TypeOK
  <2> QED
    BY <2>1 DEF GroupInv, QueueFits, Waits
<1>3. GroupInv => PageGrouped
  BY <1>1, <1>2 DEF GroupInv, PageGrouped
<1> QED
  BY <1>3, GroupsSafe, PTL

-----------------------------------------------------------------------------
(* Folds, one position after the other.  What a fold of the library        *)
(* computes is the last value of a trace that takes its steps in order;    *)
(* induction over the positions is a least counterexample.                 *)

\* A set of numbers has a least one.
LEMMA Least == ASSUME NEW T \in SUBSET Nat, T # {} PROVE \E x \in T : \A y \in T : x <= y
<1>1. \E x \in T : \A y \in T : <<y, x>> \notin OpToRel(<, Nat)
  BY NatLessThanWellFounded, WFMin
<1>2. PICK x \in T : \A y \in T : <<y, x>> \notin OpToRel(<, Nat)
  BY <1>1
<1>3. ASSUME NEW y \in T PROVE x <= y
  <2>0. y \in Nat /\ x \in Nat
    OBVIOUS
  <2>1. y < x => <<y, x>> \in OpToRel(<, Nat)
    BY <2>0 DEF OpToRel
  <2>2. ~ (y < x)
    BY <1>2, <2>1, Zenon
  <2> QED
    BY <2>0, <2>2, SMT
<1> QED
  BY <1>3

\* What holds of 0 and goes on from each number to the next holds of n: induction,
\* with the set of the numbers it holds of for its parameter.
LEMMA Induction ==
    ASSUME NEW n \in Nat, NEW T, 0 \in T, \A k \in 0 .. n - 1 : k \in T => k + 1 \in T
    PROVE  n \in T
<1>1. SUFFICES ASSUME n \notin T PROVE FALSE
  OBVIOUS
<1> DEFINE U == {k \in 0 .. n : k \notin T}
<1>2. U \in SUBSET Nat /\ n \in U
  BY <1>1
<1>3. PICK x \in U : \A y \in U : x <= y
  BY <1>2, Least
<1>4. x # 0
  OBVIOUS
<1>5. x - 1 \in 0 .. n - 1 /\ x - 1 \notin U
  BY <1>3, <1>4
<1> QED
  BY <1>5

\* The greatest of some positions.
LEMMA MaxOf ==
    ASSUME NEW n \in Nat, NEW s \in SUBSET (1 .. n), s # {}
    PROVE  Max(s) \in s /\ \A y \in s : y <= Max(s)
<1>1. \E x \in s : \A y \in s : x >= y
  <2> DEFINE T == {k \in Nat : \A y \in s : k >= y}
  <2>1. n \in T /\ T \in SUBSET Nat
    OBVIOUS
  <2>2. PICK k \in T : \A j \in T : k <= j
    BY <2>1, Least
  <2>3. k \in s
    <3>1. SUFFICES ASSUME k \notin s PROVE FALSE
      OBVIOUS
    <3>2. k \in Nat /\ \A y \in s : y \in Nat /\ y >= 1 /\ k >= y /\ y # k
      BY <3>1
    <3>0. PICK y \in s : TRUE
      OBVIOUS
    <3>3. k # 0
      BY <3>0, <3>2
    <3>4. k - 1 \in T
      BY <3>2, <3>3
    <3> QED
      BY <2>2, <3>2, <3>4
  <2> QED
    BY <2>3
<1> QED
  BY <1>1 DEF Max

\* The greatest of the positions up to k is k when it is among them.
LEMMA MaxTop ==
    ASSUME NEW k \in Nat, NEW s \in SUBSET (1 .. k), k \in s PROVE Max(s) = k
<1>1. Max(s) \in s /\ k <= Max(s)
  BY MaxOf
<1>2. Max(s) \in 1 .. k
  BY <1>1
<1> QED
  BY <1>1, <1>2

\* h is the fold of the functions F over every set of positions, as FoldLeft takes
\* them: the greatest last.
Folded(h, n, V, F, base) ==
    /\ h \in [SUBSET (1 .. n) -> V]
    /\ \A s \in SUBSET (1 .. n) :
          h[s] = IF s = {} THEN base ELSE F[Max(s)][h[s \ {Max(s)}]]

\* There is such a fold: the one over n + 1 positions extends the one over n.
LEMMA FoldExists ==
    ASSUME NEW n \in Nat, NEW V, NEW F \in [1 .. n -> [V -> V]], NEW base \in V
    PROVE  \E h : Folded(h, n, V, F, base)
<1> DEFINE Good(k, h) == \A s \in SUBSET (1 .. k) :
                 h[s] = IF s = {} THEN base ELSE F[Max(s)][h[s \ {Max(s)}]]
           T == {k \in 0 .. n : \E h \in [SUBSET (1 .. k) -> V] : Good(k, h)}
<1>1. 0 \in T
  <2> DEFINE h == [s \in SUBSET (1 .. 0) |-> base]
  <2>1. h \in [SUBSET (1 .. 0) -> V]
    OBVIOUS
  <2>2. \A s \in SUBSET (1 .. 0) : s = {} /\ h[s] = base
    OBVIOUS
  <2>3. Good(0, h)
    BY <2>2
  <2> HIDE DEF h, Good
  <2>4. \E g \in [SUBSET (1 .. 0) -> V] : Good(0, g)
    BY <2>1, <2>3, Zenon
  <2>5. 0 \in 0 .. n
    OBVIOUS
  <2> QED
    BY <2>4, <2>5, Zenon
<1>2. ASSUME NEW k \in 0 .. n - 1, k \in T PROVE k + 1 \in T
  <2>1. PICK g \in [SUBSET (1 .. k) -> V] : Good(k, g)
    BY <1>2
  <2> DEFINE h == [s \in SUBSET (1 .. k + 1) |->
                     IF k + 1 \in s THEN F[k + 1][g[s \ {k + 1}]] ELSE g[s]]
  <2>2. \A s \in SUBSET (1 .. k + 1) : (k + 1 \in s => s \ {k + 1} \in SUBSET (1 .. k))
                                       /\ (k + 1 \notin s => s \in SUBSET (1 .. k))
    OBVIOUS
  <2>3. h \in [SUBSET (1 .. k + 1) -> V]
    BY <2>2
  <2>4. ASSUME NEW s \in SUBSET (1 .. k + 1)
        PROVE  h[s] = IF s = {} THEN base ELSE F[Max(s)][h[s \ {Max(s)}]]
    <3>1. CASE k + 1 \in s
      <4>1. Max(s) = k + 1
        BY <3>1, MaxTop
      <4>2. h[s \ {k + 1}] = g[s \ {k + 1}]
        OBVIOUS
      <4> QED
        BY <3>1, <4>1, <4>2
    <3>2. CASE k + 1 \notin s
      <4>1. s \in SUBSET (1 .. k) /\ h[s] = g[s]
        BY <2>2, <3>2
      <4>2. g[s] = IF s = {} THEN base ELSE F[Max(s)][g[s \ {Max(s)}]]
        BY <2>1, <4>1
      <4>3. h[s \ {Max(s)}] = g[s \ {Max(s)}]
        BY <3>2
      <4> QED
        BY <4>1, <4>2, <4>3
    <3> QED
      BY <3>1, <3>2
  <2>5. Good(k + 1, h)
    BY <2>4
  <2> HIDE DEF h, Good
  <2> QED
    BY <2>3, <2>5
<1>3. n \in T
  <2> HIDE DEF T
  <2> QED
    BY <1>1, <1>2, Induction
<1> QED
  BY <1>3 DEF Folded

-----------------------------------------------------------------------------
(* Sums.                                                                   *)

\* The member that a sum takes first.
Picked(s) == CHOOSE x \in s : TRUE

\* h sums f over every subset of S, as MapThenSumSet does.
Sums(h, f, S) ==
    /\ h \in [SUBSET S -> Nat]
    /\ \A s \in SUBSET S : h[s] = IF s = {} THEN 0 ELSE f[Picked(s)] + h[s \ {Picked(s)}]

\* What is picked from a set that is not empty is one of its members.
LEMMA PickedIn == ASSUME NEW s, s # {} PROVE Picked(s) \in s
BY DEF Picked

\* A subset without one of its members is smaller by one.
LEMMA Smaller ==
    ASSUME NEW S, IsFiniteSet(S), NEW s \in SUBSET S, NEW x \in s
    PROVE  /\ IsFiniteSet(s) /\ s \ {x} \in SUBSET S
           /\ Cardinality(s) \in Nat \ {0} /\ Cardinality(s) <= Cardinality(S)
           /\ Cardinality(s \ {x}) = Cardinality(s) - 1
<1>1. IsFiniteSet(s) /\ Cardinality(s) <= Cardinality(S)
  BY FS_Subset
<1>2. /\ Cardinality(s) \in Nat /\ Cardinality(s \ {x}) \in Nat
      /\ Cardinality(s \ {x}) = Cardinality(s) - 1
  <2>1. IsFiniteSet(s \ {x}) /\ Cardinality(s \ {x}) = Cardinality(s) - 1
    BY <1>1, FS_RemoveElement
  <2> QED
    BY <1>1, <2>1, FS_CardinalityType
<1> QED
  BY <1>1, <1>2

\* A finite set has its sums: those of n + 1 members extend those of n.
LEMMA SumExists ==
    ASSUME NEW S, IsFiniteSet(S), NEW f \in [S -> Nat] PROVE \E h : Sums(h, f, S)
<1> DEFINE Small(n) == {s \in SUBSET S : Cardinality(s) <= n}
           Good(n, h) ==
               \A s \in Small(n) : h[s] = IF s = {} THEN 0 ELSE f[Picked(s)] + h[s \ {Picked(s)}]
           T == {n \in 0 .. Cardinality(S) : \E h \in [Small(n) -> Nat] : Good(n, h)}
<1>0. Cardinality(S) \in Nat /\ \A s \in SUBSET S : IsFiniteSet(s) /\ Cardinality(s) \in Nat
  BY FS_Subset, FS_CardinalityType
<1>1. 0 \in T
  <2> DEFINE h == [s \in Small(0) |-> 0]
  <2>1. \A s \in Small(0) : s = {}
    BY <1>0, FS_EmptySet
  <2>2. h \in [Small(0) -> Nat] /\ Good(0, h)
    BY <2>1
  <2> HIDE DEF h, Good, Small
  <2>3. \E g \in [Small(0) -> Nat] : Good(0, g)
    BY <2>2
  <2>4. 0 \in 0 .. Cardinality(S)
    BY <1>0
  <2> QED
    BY <2>3, <2>4, Zenon
<1>2. ASSUME NEW n \in 0 .. Cardinality(S) - 1, n \in T PROVE n + 1 \in T
  <2>1. PICK g \in [Small(n) -> Nat] : Good(n, g)
    BY <1>2
  <2> DEFINE h == [s \in Small(n + 1) |->
                     IF Cardinality(s) <= n THEN g[s] ELSE f[Picked(s)] + g[s \ {Picked(s)}]]
  <2>2. ASSUME NEW s \in Small(n + 1), s # {}
        PROVE  f[Picked(s)] \in Nat /\ s \ {Picked(s)} \in Small(n)
               /\ (Cardinality(s) <= n => s \in Small(n))
    <3>1. Picked(s) \in s
      BY <2>2, PickedIn
    <3>2. /\ s \ {Picked(s)} \in SUBSET S /\ Cardinality(s) \in Nat
          /\ Cardinality(s \ {Picked(s)}) = Cardinality(s) - 1
      BY <3>1, Smaller
    <3> QED
      BY <1>0, <3>1, <3>2
  <2>3. {} \in Small(n) /\ {} \in Small(n + 1) /\ Cardinality({}) = 0
    BY <1>0, FS_EmptySet
  <2>4. h \in [Small(n + 1) -> Nat]
    <3>1. ASSUME NEW s \in Small(n + 1) PROVE h[s] \in Nat
      <4>1. CASE s = {}
        BY <2>3, <4>1
      <4>2. CASE s # {}
        BY <2>2, <4>2
      <4> QED
        BY <4>1, <4>2
    <3> QED
      BY <3>1
  <2>5. ASSUME NEW s \in Small(n + 1)
        PROVE  h[s] = IF s = {} THEN 0 ELSE f[Picked(s)] + h[s \ {Picked(s)}]
    <3>1. CASE s = {}
      BY <2>1, <2>3, <3>1
    <3>2. CASE s # {}
      <4>1. s \ {Picked(s)} \in Small(n) /\ s \ {Picked(s)} \in Small(n + 1)
        BY <1>0, <2>2, <3>2
      <4>2. h[s \ {Picked(s)}] = g[s \ {Picked(s)}]
        BY <4>1
      <4>3. CASE Cardinality(s) <= n
        <5>1. s \in Small(n) /\ h[s] = g[s]
          BY <2>2, <3>2, <4>3
        <5> QED
          BY <2>1, <3>2, <4>2, <5>1
      <4>4. CASE ~ (Cardinality(s) <= n)
        BY <3>2, <4>2, <4>4
      <4> QED
        BY <4>3, <4>4
    <3> QED
      BY <3>1, <3>2
  <2>6. Good(n + 1, h)
    BY <2>5
  <2> HIDE DEF h, Good, Small
  <2>7. \E k \in [Small(n + 1) -> Nat] : Good(n + 1, k)
    BY <2>4, <2>6
  <2>8. n + 1 \in 0 .. Cardinality(S)
    BY <1>0
  <2> QED
    BY <2>7, <2>8, Zenon
<1>3. Cardinality(S) \in T
  <2> HIDE DEF T
  <2> QED
    BY <1>0, <1>1, <1>2, Induction
<1>4. PICK h \in [Small(Cardinality(S)) -> Nat] : Good(Cardinality(S), h)
  BY <1>3
<1>5. Small(Cardinality(S)) = SUBSET S
  BY FS_Subset
<1> QED
  BY <1>4, <1>5 DEF Sums

\* A sum does not depend on the order it was taken in: any member can come first.
LEMMA SumSplits ==
    ASSUME NEW S, IsFiniteSet(S), NEW f \in [S -> Nat], NEW h, Sums(h, f, S)
    PROVE  \A s \in SUBSET S : \A x \in s : h[s] = f[x] + h[s \ {x}]
<1> DEFINE T == {n \in 0 .. Cardinality(S) : \A s \in SUBSET S :
                    Cardinality(s) <= n => \A x \in s : h[s] = f[x] + h[s \ {x}]}
<1>0. /\ Cardinality(S) \in Nat
      /\ \A s \in SUBSET S : Cardinality(s) \in Nat /\ Cardinality(s) <= Cardinality(S)
  BY FS_Subset, FS_CardinalityType
<1>1. 0 \in T
  <2>1. \A s \in SUBSET S : Cardinality(s) <= 0 => s = {}
    BY <1>0, FS_Subset, FS_EmptySet
  <2> QED
    BY <1>0, <2>1
<1>2. ASSUME NEW n \in 0 .. Cardinality(S) - 1, n \in T PROVE n + 1 \in T
  <2>1. ASSUME NEW s \in SUBSET S, Cardinality(s) <= n + 1, NEW x \in s
        PROVE  h[s] = f[x] + h[s \ {x}]
    <3> DEFINE y == Picked(s)
    <3>1. y \in s /\ h[s] = f[y] + h[s \ {y}]
      BY PickedIn DEF Sums
    <3> HIDE DEF y
    <3>2. CASE x = y
      BY <3>1, <3>2
    <3>3. CASE x # y
      <4>1. /\ s \ {y} \in SUBSET S /\ x \in s \ {y} /\ Cardinality(s \ {y}) <= n
            /\ s \ {x} \in SUBSET S /\ y \in s \ {x} /\ Cardinality(s \ {x}) <= n
        BY <2>1, <3>1, <3>3, Smaller
      <4>2. h[s \ {y}] = f[x] + h[(s \ {y}) \ {x}] /\ h[s \ {x}] = f[y] + h[(s \ {x}) \ {y}]
        BY <1>2, <4>1
      <4>3. (s \ {y}) \ {x} = (s \ {x}) \ {y}
        OBVIOUS
      <4>4. /\ f[x] \in Nat /\ f[y] \in Nat
            /\ h[(s \ {x}) \ {y}] \in Nat
        BY <3>1 DEF Sums
      <4>5. h[s \ {x}] = f[y] + h[(s \ {x}) \ {y}] /\ h[s \ {y}] = f[x] + h[(s \ {x}) \ {y}]
        BY <4>2, <4>3
      <4> DEFINE fx == f[x]
                 fy == f[y]
                 rest == h[(s \ {x}) \ {y}]
      <4> HIDE DEF fx, fy, rest
      <4>6. /\ h[s] = fy + h[s \ {y}] /\ h[s \ {x}] = fy + rest /\ h[s \ {y}] = fx + rest
            /\ fx \in Nat /\ fy \in Nat /\ rest \in Nat
        BY <3>1, <4>4, <4>5 DEF fx, fy, rest
      <4>7. h[s] = fx + h[s \ {x}]
        BY <4>6
      <4> QED
        BY <4>7 DEF fx
    <3> QED
      BY <3>2, <3>3
  <2>2. n + 1 \in 0 .. Cardinality(S)
    BY <1>0
  <2> QED
    BY <2>1, <2>2
<1>3. Cardinality(S) \in T
  <2> HIDE DEF T
  <2> QED
    BY <1>0, <1>1, <1>2, Induction
<1> QED
  BY <1>0, <1>3

\* The sum over a part is the same whichever set its members are picked from.
LEMMA SumsAgree ==
    ASSUME NEW S, IsFiniteSet(S), NEW f \in [S -> Nat], NEW h, Sums(h, f, S),
           NEW R \in SUBSET S, NEW e \in [R -> Nat], NEW g, Sums(g, e, R),
           \A x \in R : e[x] = f[x]
    PROVE  g[R] = h[R]
<1> DEFINE T == {n \in 0 .. Cardinality(R) :
                    \A s \in SUBSET R : Cardinality(s) <= n => g[s] = h[s]}
<1>0. IsFiniteSet(R) /\ Cardinality(R) \in Nat
      /\ \A s \in SUBSET R : /\ IsFiniteSet(s)
                             /\ Cardinality(s) \in Nat /\ Cardinality(s) <= Cardinality(R)
  BY FS_Subset, FS_CardinalityType
<1>1. 0 \in T
  <2>1. \A s \in SUBSET R : Cardinality(s) <= 0 => s = {}
    BY <1>0, FS_EmptySet
  <2>2. g[{}] = 0 /\ h[{}] = 0
    BY DEF Sums
  <2> QED
    BY <1>0, <2>1, <2>2
<1>2. ASSUME NEW n \in 0 .. Cardinality(R) - 1, n \in T PROVE n + 1 \in T
  <2>1. ASSUME NEW s \in SUBSET R, Cardinality(s) <= n + 1 PROVE g[s] = h[s]
    <3>1. CASE s = {}
      BY <3>1 DEF Sums
    <3>2. CASE s # {}
      <4> DEFINE x == Picked(s)
      <4>1. /\ x \in s /\ s \in SUBSET S
            /\ g[s] = e[x] + g[s \ {x}] /\ h[s] = f[x] + h[s \ {x}]
        BY <3>2, PickedIn DEF Sums
      <4> HIDE DEF x
      <4>2. s \ {x} \in SUBSET R /\ Cardinality(s \ {x}) <= n
        BY <1>0, <2>1, <4>1, Smaller
      <4>3. g[s \ {x}] = h[s \ {x}]
        BY <1>2, <4>2
      <4> QED
        BY <4>1, <4>3
    <3> QED
      BY <3>1, <3>2
  <2>2. n + 1 \in 0 .. Cardinality(R)
    BY <1>0
  <2> QED
    BY <2>1, <2>2
<1>3. Cardinality(R) \in T
  <2> HIDE DEF T
  <2> QED
    BY <1>0, <1>1, <1>2, Induction
<1> QED
  BY <1>0, <1>3

\* What sums numbers is a number.
LEMMA SumTyped ==
    ASSUME NEW S, IsFiniteSet(S), NEW f \in [S -> Nat], NEW h,
           \A s \in SUBSET S : h[s] = IF s = {} THEN 0 ELSE f[Picked(s)] + h[s \ {Picked(s)}]
    PROVE  \A s \in SUBSET S : h[s] \in Nat
<1> DEFINE T == {n \in 0 .. Cardinality(S) :
                    \A s \in SUBSET S : Cardinality(s) <= n => h[s] \in Nat}
<1>0. Cardinality(S) \in Nat
      /\ \A s \in SUBSET S : /\ IsFiniteSet(s)
                             /\ Cardinality(s) \in Nat /\ Cardinality(s) <= Cardinality(S)
  BY FS_Subset, FS_CardinalityType
<1>1. 0 \in T
  <2>1. \A s \in SUBSET S : Cardinality(s) <= 0 => s = {}
    BY <1>0, FS_EmptySet
  <2> QED
    BY <1>0, <2>1
<1>2. ASSUME NEW n \in 0 .. Cardinality(S) - 1, n \in T PROVE n + 1 \in T
  <2>1. ASSUME NEW s \in SUBSET S, Cardinality(s) <= n + 1 PROVE h[s] \in Nat
    <3>1. CASE s = {}
      <4>1. h[s] = 0
        BY <3>1, Zenon
      <4> QED
        BY <4>1
    <3>2. CASE s # {}
      <4> DEFINE x == Picked(s)
      <4>1. x \in s /\ h[s] = f[x] + h[s \ {x}]
        BY <3>2, PickedIn
      <4> HIDE DEF x
      <4>2. s \ {x} \in SUBSET S /\ Cardinality(s \ {x}) <= n
        BY <1>0, <2>1, <4>1, Smaller
      <4>3. h[s \ {x}] \in Nat
        BY <1>2, <4>2
      <4> QED
        BY <4>1, <4>3
    <3> QED
      BY <3>1, <3>2
  <2>2. n + 1 \in 0 .. Cardinality(S)
    BY <1>0
  <2> QED
    BY <2>1, <2>2
<1>3. Cardinality(S) \in T
  <2> HIDE DEF T
  <2> QED
    BY <1>0, <1>1, <1>2, Induction
<1> QED
  BY <1>0, <1>3

\* g goes through the values of a fold, position by position.
Traces(g, n, V, F, base) ==
    g \in [0 .. n -> V] /\ g[0] = base /\ \A i \in 1 .. n : g[i] = F[i][g[i - 1]]

\* iter takes the fold's steps from any value of the type.
Unrolls(iter, n, V, F, base) ==
    /\ iter[{}] = base
    /\ \A s \in SUBSET (1 .. n) : s # {} /\ iter[s \ {Max(s)}] \in V
           => iter[s] = F[Max(s)][iter[s \ {Max(s)}]]

\* A fold over positions in order is the last value of its trace.
LEMMA FoldTrace ==
    ASSUME NEW n \in Nat, NEW V, NEW F \in [1 .. n -> [V -> V]], NEW base \in V, NEW iter,
           Unrolls(iter, n, V, F, base)
    PROVE  \E g : Traces(g, n, V, F, base) /\ iter[1 .. n] = g[n]
<1> DEFINE g == [i \in 0 .. n |-> iter[1 .. i]]
           T == {i \in 0 .. n : iter[1 .. i] \in V}
<1>1. g[0] = base /\ 0 \in T
  BY 1 .. 0 = {} DEF Unrolls
<1>2. ASSUME NEW i \in 1 .. n, iter[1 .. (i - 1)] \in V
      PROVE  iter[1 .. i] = F[i][iter[1 .. (i - 1)]]
  <2>1. Max(1 .. i) = i
    BY MaxTop
  <2>2. (1 .. i) \ {i} = 1 .. (i - 1) /\ 1 .. i # {} /\ 1 .. i \in SUBSET (1 .. n)
    <3>1. i \in 1 .. i
      OBVIOUS
    <3>2. (1 .. i) \ {i} = 1 .. (i - 1)
      OBVIOUS
    <3>3. 1 .. i \in SUBSET (1 .. n)
      OBVIOUS
    <3> QED
      BY <3>1, <3>2, <3>3
  <2> QED
    BY <1>2, <2>1, <2>2 DEF Unrolls
<1>3. ASSUME NEW k \in 0 .. n - 1, k \in T PROVE k + 1 \in T
  <2>1. k + 1 \in 1 .. n /\ (k + 1) - 1 = k
    OBVIOUS
  <2>2. iter[1 .. (k + 1)] = F[k + 1][iter[1 .. k]]
    BY <1>2, <1>3, <2>1
  <2>3. iter[1 .. (k + 1)] \in V
    BY <1>3, <2>1, <2>2
  <2> QED
    BY <2>1, <2>3
<1>4. ASSUME NEW i \in 0 .. n PROVE i \in T
  <2> DEFINE U == {k \in 0 .. i : k \in T}
  <2>1. \A k \in 0 .. i - 1 : k \in U => k + 1 \in U
    BY <1>3
  <2>2. 0 \in U
    BY <1>1
  <2> HIDE DEF U
  <2>3. i \in U
    BY <2>1, <2>2, Induction
  <2> QED
    BY <2>3 DEF U
<1>5. g \in [0 .. n -> V]
  BY <1>4
<1>6. ASSUME NEW i \in 1 .. n PROVE g[i] = F[i][g[i - 1]]
  <2>1. i - 1 \in 0 .. n
    OBVIOUS
  <2>2. iter[1 .. (i - 1)] \in V
    BY <1>4, <2>1
  <2> QED
    BY <1>2, <2>1, <2>2 DEF Unrolls
<1>7. iter[1 .. n] = g[n]
  OBVIOUS
<1> HIDE DEF g
<1> QED
  BY <1>1, <1>5, <1>6, <1>7 DEF Traces

-----------------------------------------------------------------------------
(* Bytes.                                                                  *)

\* The keepalive bytes of some requests are their sum.
LEMMA KeptSums ==
    ASSUME NEW R, IsFiniteSet(R), \A r \in R : r.keepalive \in Nat
    PROVE  \E h : Sums(h, [r \in R |-> r.keepalive], R) /\ Keepalive(R) = h[R]
<1> DEFINE f == [r \in R |-> r.keepalive]
           Chosen(h) == h = [s \in SUBSET R |-> IF s = {} THEN 0
                                   ELSE LET x == CHOOSE x \in s : TRUE
                                        IN  x.keepalive + h[s \ {x}]]
           iter == CHOOSE h : Chosen(h)
<1>1. f \in [R -> Nat]
  OBVIOUS
<1>2. Keepalive(R) = iter[R]
  BY DEF Keepalive, MapThenSumSet, MapThenFoldSet
<1>3. PICK h : Sums(h, f, R)
  <2> HIDE DEF f
  <2> QED
    BY <1>1, SumExists
<1>4. ASSUME NEW s \in SUBSET R PROVE h[s] = IF s = {} THEN 0
                                   ELSE LET x == CHOOSE x \in s : TRUE
                                        IN  x.keepalive + h[s \ {x}]
  BY <1>3, PickedIn DEF Sums, Picked
<1>5. Chosen(h)
  BY <1>3, <1>4 DEF Sums
<1>6. Chosen(iter)
  <2> HIDE DEF Chosen
  <2> QED
    BY <1>5
<1>7. iter = [s \in SUBSET R |-> IF s = {} THEN 0
                 ELSE LET x == CHOOSE x \in s : TRUE IN x.keepalive + iter[s \ {x}]]
  BY <1>6
<1> HIDE DEF iter, Chosen
<1>8. \A s \in SUBSET R : iter[s] = IF s = {} THEN 0 ELSE f[Picked(s)] + iter[s \ {Picked(s)}]
  BY <1>7, PickedIn DEF Picked
<1>9. iter \in [SUBSET R -> Nat]
  <2>1. \A s \in SUBSET R : iter[s] \in Nat
    <3> HIDE DEF f
    <3> QED
      BY <1>1, <1>8, SumTyped
  <2> QED
    BY <1>7, <2>1
<1> QED
  BY <1>2, <1>8, <1>9 DEF Sums

\* The bytes of a batch are the sum of its events'.
LEMMA BytesSums ==
    ASSUME NEW b \in Seq(Event)
    PROVE  \E h : /\ Sums(h, [i \in DOMAIN b |-> Size[b[i].error]], DOMAIN b)
                  /\ Bytes(b) = h[DOMAIN b]
<1> DEFINE f == [i \in DOMAIN b |-> Size[b[i].error]]
           Chosen(h) == h = [s \in SUBSET DOMAIN b |-> IF s = {} THEN 0
                                   ELSE LET x == CHOOSE x \in s : TRUE
                                        IN  Size[b[x].error] + h[s \ {x}]]
           iter == CHOOSE h : Chosen(h)
<1>1. f \in [DOMAIN b -> Nat]
  <2>1. \A x \in Event : Size[x.error] \in Nat
    BY ErrorReporterAssumption DEF Event
  <2> QED
    BY <2>1
<1>0. IsFiniteSet(DOMAIN b)
  BY FS_Interval
<1>2. Bytes(b) = iter[DOMAIN b]
  BY DEF Bytes, MapThenSumSet, MapThenFoldSet
<1>3. PICK h : Sums(h, f, DOMAIN b)
  <2> HIDE DEF f
  <2> QED
    BY <1>0, <1>1, SumExists
<1>4. ASSUME NEW s \in SUBSET DOMAIN b PROVE h[s] = IF s = {} THEN 0
                                   ELSE LET x == CHOOSE x \in s : TRUE
                                        IN  Size[b[x].error] + h[s \ {x}]
  BY <1>3, PickedIn DEF Sums, Picked
<1>5. Chosen(h)
  BY <1>3, <1>4 DEF Sums
<1>6. Chosen(iter)
  <2> HIDE DEF Chosen
  <2> QED
    BY <1>5
<1>7. iter = [s \in SUBSET DOMAIN b |-> IF s = {} THEN 0
                 ELSE LET x == CHOOSE x \in s : TRUE IN Size[b[x].error] + iter[s \ {x}]]
  BY <1>6
<1> HIDE DEF iter, Chosen
<1>8. \A s \in SUBSET DOMAIN b :
          iter[s] = IF s = {} THEN 0 ELSE f[Picked(s)] + iter[s \ {Picked(s)}]
  BY <1>7, PickedIn DEF Picked
<1>9. iter \in [SUBSET DOMAIN b -> Nat]
  <2>1. \A s \in SUBSET DOMAIN b : iter[s] \in Nat
    <3> HIDE DEF f
    <3> QED
      BY <1>0, <1>1, <1>8, SumTyped
  <2> QED
    BY <1>7, <2>1
<1> QED
  BY <1>2, <1>8, <1>9 DEF Sums

\* No request holds nothing.
LEMMA KeepaliveNone == Keepalive({}) = 0
<1>1. PICK h : Sums(h, [r \in {} |-> r.keepalive], {}) /\ Keepalive({}) = h[{}]
  BY KeptSums, FS_EmptySet
<1> QED
  BY <1>1 DEF Sums

\* One more request holds its own bytes besides.
LEMMA KeepaliveMore ==
    ASSUME NEW R, IsFiniteSet(R), \A r \in R : r.keepalive \in Nat,
           NEW q, q.keepalive \in Nat, q \notin R
    PROVE  /\ Keepalive(R) \in Nat /\ IsFiniteSet(R \union {q})
           /\ Keepalive(R \union {q}) = Keepalive(R) + q.keepalive
<1> DEFINE S == R \union {q}
           f == [r \in S |-> r.keepalive]
           e == [r \in R |-> r.keepalive]
<1>1. /\ IsFiniteSet(S) /\ \A r \in S : r.keepalive \in Nat
      /\ S \ {q} = R /\ q \in S /\ R \in SUBSET S
  BY FS_AddElement
<1>2. PICK h : Sums(h, f, S) /\ Keepalive(S) = h[S]
  <2> HIDE DEF S
  <2> QED
    BY <1>1, KeptSums
<1>3. PICK g : Sums(g, e, R) /\ Keepalive(R) = g[R]
  BY KeptSums
<1>4. f \in [S -> Nat] /\ e \in [R -> Nat] /\ f[q] = q.keepalive /\ \A r \in R : e[r] = f[r]
  BY <1>1
<1> HIDE DEF f, e, S
<1>5. g[R] = h[R]
  BY <1>1, <1>2, <1>3, <1>4, SumsAgree
<1>6. h[S] = f[q] + h[R]
  BY <1>1, <1>2, <1>4, SumSplits
<1>7. h[R] \in Nat /\ f[q] \in Nat
  BY <1>1, <1>2, <1>4 DEF Sums
<1>8. Keepalive(S) = Keepalive(R) + q.keepalive /\ Keepalive(R) \in Nat
  BY <1>2, <1>3, <1>4, <1>5, <1>6, <1>7
<1> QED
  BY <1>1, <1>8 DEF S

\* One more event adds its own bytes.
LEMMA BytesMore ==
    ASSUME NEW b \in Seq(Event), NEW ev \in Event
    PROVE  /\ Bytes(b) \in Nat
           /\ Bytes(Append(b, ev)) = Bytes(b) + Size[ev.error]
<1> DEFINE c == Append(b, ev)
           n == Len(b) + 1
           S == DOMAIN c
           f == [i \in S |-> Size[c[i].error]]
           R == DOMAIN b
           e == [i \in R |-> Size[b[i].error]]
<1>0. c \in Seq(Event) /\ S = 1 .. n /\ R = 1 .. Len(b) /\ Len(b) \in Nat
      /\ c[n] = ev /\ \A i \in R : c[i] = b[i]
  OBVIOUS
<1> HIDE DEF c
<1>1. IsFiniteSet(S) /\ S \ {n} = R /\ n \in S /\ R \in SUBSET S
  <2>1. IsFiniteSet(S)
    <3>1. 1 \in Int /\ n \in Int
      BY <1>0
    <3>2. IsFiniteSet(1 .. n)
      BY <3>1, FS_Interval
    <3> QED
      BY <1>0, <3>2
  <2>2. S \ {n} = R
    BY <1>0
  <2> QED
    BY <1>0, <2>1, <2>2
<1>2. PICK h : Sums(h, f, S) /\ Bytes(c) = h[S]
  BY <1>0, BytesSums
<1>3. PICK g : Sums(g, e, R) /\ Bytes(b) = g[R]
  BY BytesSums
<1>4. f \in [S -> Nat] /\ e \in [R -> Nat] /\ f[n] = Size[ev.error] /\ \A i \in R : e[i] = f[i]
  <2>1. \A i \in S : c[i] \in Event
    BY <1>0
  <2>2. \A x \in Event : Size[x.error] \in Nat
    BY ErrorReporterAssumption DEF Event
  <2>3. f \in [S -> Nat]
    BY <2>1, <2>2
  <2>4. e \in [R -> Nat]
    BY <2>2
  <2> QED
    BY <1>0, <1>1, <2>3, <2>4
<1> HIDE DEF f, e, S, R, n
<1>5. g[R] = h[R]
  <2>1. IsFiniteSet(S) /\ R \in SUBSET S
    BY <1>1
  <2>2. Sums(h, f, S) /\ Sums(g, e, R)
    BY <1>2, <1>3
  <2>3. f \in [S -> Nat] /\ e \in [R -> Nat] /\ \A i \in R : e[i] = f[i]
    BY <1>4
  <2> QED
    BY <2>1, <2>2, <2>3, SumsAgree
<1>6. h[S] = f[n] + h[R]
  BY <1>1, <1>2, <1>4, SumSplits
<1>7. h[R] \in Nat /\ f[n] \in Nat
  BY <1>1, <1>2, <1>4 DEF Sums
<1>8. Bytes(c) = Bytes(b) + Size[ev.error] /\ Bytes(b) \in Nat
  BY <1>2, <1>3, <1>4, <1>5, <1>6, <1>7
<1> QED
  BY <1>8 DEF c

\* takeBatch, one event further.
Added(bs, ev) ==
    IF bs # <<>> /\ Joins(Last(bs), ev)
    THEN [bs EXCEPT ![Len(bs)] = Append(@, ev)]
    ELSE Append(bs, <<ev>>)

\* Batches of events stay that when an event is added.
LEMMA AddedTyped ==
    ASSUME NEW bs \in Seq(Seq(Event)), NEW ev \in Event PROVE Added(bs, ev) \in Seq(Seq(Event))
<1>1. CASE bs # <<>>
  <2>1. Len(bs) \in DOMAIN bs /\ bs[Len(bs)] \in Seq(Event)
    BY <1>1
  <2>2. Append(bs[Len(bs)], ev) \in Seq(Event)
    BY <2>1
  <2>3. [bs EXCEPT ![Len(bs)] = Append(@, ev)] \in Seq(Seq(Event))
    BY <2>1, <2>2
  <2>4. <<ev>> \in Seq(Event) /\ Append(bs, <<ev>>) \in Seq(Seq(Event))
    OBVIOUS
  <2> QED
    BY <2>3, <2>4 DEF Added
<1>2. CASE bs = <<>>
  <2>1. <<ev>> \in Seq(Event) /\ Append(bs, <<ev>>) \in Seq(Seq(Event))
    OBVIOUS
  <2> QED
    BY <1>2, <2>1 DEF Added
<1> QED
  BY <1>1, <1>2

\* The batches grow event by event.
LEMMA BatchesTrace ==
    ASSUME NEW events \in Seq(Event)
    PROVE  \E g \in [0 .. Len(events) -> Seq(Seq(Event))] :
              /\ g[0] = <<>> /\ \A i \in 1 .. Len(events) : g[i] = Added(g[i - 1], events[i])
              /\ Batches(events) = g[Len(events)]
<1> DEFINE n == Len(events)
           V == Seq(Seq(Event))
           F == [i \in 1 .. n |-> [bs \in V |-> Added(bs, events[i])]]
           Chosen(h) == h = [s \in SUBSET DOMAIN events |->
                               IF s = {} THEN <<>>
                               ELSE LET x == Max(s) IN Added(h[s \ {x}], events[x])]
           iter == CHOOSE h : Chosen(h)
<1>0. n \in Nat /\ DOMAIN events = 1 .. n /\ <<>> \in V /\ \A i \in 1 .. n : events[i] \in Event
  OBVIOUS
<1>1. F \in [1 .. n -> [V -> V]]
  BY <1>0, AddedTyped
<1>2. Batches(events) = iter[1 .. n]
  BY <1>0 DEF Batches, FoldLeft, MapThenFoldSet, Added
<1>3. PICK h : Folded(h, n, V, F, <<>>)
  <2> HIDE DEF F, V, n
  <2> QED
    BY <1>0, <1>1, FoldExists
<1>4. ASSUME NEW s \in SUBSET (1 .. n), s # {}, NEW g, g[s \ {Max(s)}] \in V
      PROVE  F[Max(s)][g[s \ {Max(s)}]] = Added(g[s \ {Max(s)}], events[Max(s)])
  <2>1. Max(s) \in 1 .. n
    BY <1>0, <1>4, MaxOf
  <2> QED
    BY <1>4, <2>1
<1>5. Chosen(h)
  <2>1. ASSUME NEW s \in SUBSET (1 .. n), s # {}
        PROVE  h[s] = Added(h[s \ {Max(s)}], events[Max(s)])
    <3> HIDE DEF F, V, n
    <3>1. h[s \ {Max(s)}] \in V
      BY <1>3 DEF Folded
    <3>2. h[s] = F[Max(s)][h[s \ {Max(s)}]]
      BY <1>3, <2>1 DEF Folded
    <3> QED
      BY <1>4, <2>1, <3>1, <3>2
  <2>2. h[{}] = <<>>
    BY <1>3 DEF Folded
  <2>3. h \in [SUBSET (1 .. n) -> V]
    BY <1>3 DEF Folded
  <2> QED
    BY <1>0, <2>1, <2>2, <2>3
<1>6. Chosen(iter)
  <2> HIDE DEF Chosen
  <2> QED
    BY <1>5
<1>7. /\ iter[{}] = <<>>
      /\ \A s \in SUBSET (1 .. n) : s # {} => iter[s] = Added(iter[s \ {Max(s)}], events[Max(s)])
  <2> HIDE DEF iter
  <2> QED
    BY <1>0, <1>6
<1> HIDE DEF iter, Chosen, F, V, n
<1>8. Unrolls(iter, n, V, F, <<>>)
  BY <1>4, <1>7 DEF Unrolls
<1>9. PICK g : Traces(g, n, V, F, <<>>) /\ iter[1 .. n] = g[n]
  BY <1>0, <1>1, <1>8, FoldTrace
<1>10. /\ g \in [0 .. n -> V] /\ g[0] = <<>>
       /\ \A i \in 1 .. n : g[i] = Added(g[i - 1], events[i])
  <2>1. \A i \in 1 .. n : i - 1 \in 0 .. n
    BY <1>0
  <2>2. \A i \in 1 .. n : g[i - 1] \in V
    BY <1>9, <2>1 DEF Traces
  <2> QED
    BY <1>9, <2>2 DEF F, Traces
<1> QED
  BY <1>2, <1>9, <1>10 DEF n, V

-----------------------------------------------------------------------------
(* The reporter's types, and the steps of its loops.                       *)

\* The reporter's states, by their types.
Reporters ==
    [accepted : SUBSET Errors, awaiting : Seq(Noted), queue : Seq(Event), timer : BOOLEAN,
     requests : SUBSET Request, keepalive : Nat]

\* The queue and its timer can be set.
LEMMA QueueSet ==
    ASSUME NEW r \in Reporters, NEW q \in Seq(Event), NEW t \in BOOLEAN
    PROVE  [r EXCEPT !.queue = q, !.timer = t] \in Reporters
BY DEF Reporters

\* Bytes are numbers.
LEMMA BytesTyped == ASSUME NEW b \in Seq(Event) PROVE Bytes(b) \in Nat
<1>1. PICK h : Sums(h, [i \in DOMAIN b |-> Size[b[i].error]], DOMAIN b) /\ Bytes(b) = h[DOMAIN b]
  BY BytesSums
<1> QED
  BY <1>1 DEF Sums

\* A claim fits what is left of the quota.
LEMMA ClaimTyped ==
    ASSUME NEW r, NEW b \in Seq(Event), r.keepalive \in Nat
    PROVE  Claim(r, b) \in Nat /\ (r.keepalive <= Quota => r.keepalive + Claim(r, b) <= Quota)
BY BytesTyped, ErrorReporterAssumption DEF Claim

\* A request leaves a reporter.
LEMMA SendTyped ==
    ASSUME NEW r \in Reporters, NEW b \in Seq(Event), NEW again \in BOOLEAN
    PROVE  Send(r, b, again) \in Reporters
<1>1. r.keepalive \in Nat /\ r.requests \in SUBSET Request
  BY DEF Reporters
<1>2. Claim(r, b) \in Nat
  BY <1>1, ClaimTyped
<1>3. [batch |-> b, keepalive |-> Claim(r, b), again |-> again] \in Request
  BY <1>2 DEF Request
<1>4. r.requests \union {[batch |-> b, keepalive |-> Claim(r, b), again |-> again]}
          \in SUBSET Request
  BY <1>1, <1>3
<1>5. r.keepalive + Claim(r, b) \in Nat
  BY <1>1, <1>2
<1> QED
  BY <1>4, <1>5 DEF Send, Reporters

\* Events are cut into batches of events.
LEMMA BatchesTyped == ASSUME NEW events \in Seq(Event) PROVE Batches(events) \in Seq(Seq(Event))
<1>1. PICK g \in [0 .. Len(events) -> Seq(Seq(Event))] : Batches(events) = g[Len(events)]
  BY BatchesTrace
<1> QED
  BY <1>1

\* A flush sends the batches one by one.
LEMMA FlushTrace ==
    ASSUME NEW r \in Reporters
    PROVE  \E g \in [0 .. Len(Batches(r.queue)) -> Reporters] :
              /\ g[0] = [r EXCEPT !.queue = <<>>, !.timer = FALSE]
              /\ \A i \in 1 .. Len(Batches(r.queue)) :
                    g[i] = Send(g[i - 1], Batches(r.queue)[i], TRUE)
              /\ Flush(r) = g[Len(Batches(r.queue))]
<1> DEFINE n == Len(Batches(r.queue))
           base == [r EXCEPT !.queue = <<>>, !.timer = FALSE]
           F == [i \in 1 .. n |-> [x \in Reporters |-> Send(x, Batches(r.queue)[i], TRUE)]]
           Chosen(h) == h = [s \in SUBSET DOMAIN Batches(r.queue) |->
                               IF s = {} THEN base
                               ELSE LET m == Max(s)
                                    IN  Send(h[s \ {m}], Batches(r.queue)[m], TRUE)]
           iter == CHOOSE h : Chosen(h)
<1>0. n \in Nat /\ DOMAIN Batches(r.queue) = 1 .. n /\ base \in Reporters 
      /\ \A i \in 1 .. n : Batches(r.queue)[i] \in Seq(Event)
  <2>1. Batches(r.queue) \in Seq(Seq(Event))
    BY BatchesTyped DEF Reporters
  <2>2. <<>> \in Seq(Event)
    OBVIOUS
  <2>3. base \in Reporters
    BY <2>2, QueueSet
  <2> QED
    BY <2>1, <2>3
<1>1. F \in [1 .. n -> [Reporters -> Reporters]]
  BY <1>0, SendTyped
<1>2. Flush(r) = iter[1 .. n]
  BY <1>0 DEF Flush, FoldLeft, MapThenFoldSet
<1> HIDE DEF base
<1>3. PICK h : Folded(h, n, Reporters, F, base)
  <2> HIDE DEF F, n
  <2> QED
    BY <1>0, <1>1, FoldExists
<1>4. ASSUME NEW s \in SUBSET (1 .. n), s # {}, NEW g, g[s \ {Max(s)}] \in Reporters
      PROVE  F[Max(s)][g[s \ {Max(s)}]] = Send(g[s \ {Max(s)}], Batches(r.queue)[Max(s)], TRUE)
  <2>1. Max(s) \in 1 .. n
    BY <1>0, <1>4, MaxOf
  <2> QED
    BY <1>4, <2>1
<1>5. Chosen(h)
  <2>1. ASSUME NEW s \in SUBSET (1 .. n), s # {}
        PROVE  h[s] = Send(h[s \ {Max(s)}], Batches(r.queue)[Max(s)], TRUE)
    <3> HIDE DEF F, n
    <3>1. h[s \ {Max(s)}] \in Reporters
      BY <1>3 DEF Folded
    <3>2. h[s] = F[Max(s)][h[s \ {Max(s)}]]
      BY <1>3, <2>1 DEF Folded
    <3> QED
      BY <1>4, <2>1, <3>1, <3>2
  <2>2. h[{}] = base /\ h \in [SUBSET (1 .. n) -> Reporters]
    BY <1>3 DEF Folded
  <2> QED
    BY <1>0, <2>1, <2>2
<1>6. Chosen(iter)
  <2> HIDE DEF Chosen
  <2> QED
    BY <1>5
<1>7. /\ iter[{}] = base
      /\ \A s \in SUBSET (1 .. n) : s # {}
             => iter[s] = Send(iter[s \ {Max(s)}], Batches(r.queue)[Max(s)], TRUE)
  <2> HIDE DEF iter
  <2> QED
    BY <1>0, <1>6
<1> HIDE DEF iter, Chosen, F, n
<1>8. Unrolls(iter, n, Reporters, F, base)
  BY <1>4, <1>7 DEF Unrolls
<1>9. PICK g : Traces(g, n, Reporters, F, base) /\ iter[1 .. n] = g[n]
  BY <1>0, <1>1, <1>8, FoldTrace
<1>10. /\ g \in [0 .. n -> Reporters] /\ g[0] = base
       /\ \A i \in 1 .. n : g[i] = Send(g[i - 1], Batches(r.queue)[i], TRUE)
  <2>1. \A i \in 1 .. n : i - 1 \in 0 .. n
    BY <1>0
  <2>2. \A i \in 1 .. n : g[i - 1] \in Reporters
    BY <1>9, <2>1 DEF Traces
  <2> QED
    BY <1>9, <2>2 DEF F, Traces
<1> QED
  BY <1>2, <1>9, <1>10 DEF n, base

\* A flush leaves a reporter.
LEMMA FlushTyped == ASSUME NEW r \in Reporters PROVE Flush(r) \in Reporters
<1>1. PICK g \in [0 .. Len(Batches(r.queue)) -> Reporters] : Flush(r) = g[Len(Batches(r.queue))]
  BY FlushTrace
<1>2. Len(Batches(r.queue)) \in Nat
  BY BatchesTyped DEF Reporters
<1> QED
  BY <1>1, <1>2

\* An event that is queued leaves a reporter.
LEMMA EnqueueTyped ==
    ASSUME NEW r \in Reporters, NEW ev \in Event PROVE Enqueue(r, ev) \in Reporters
<1> DEFINE q == [r EXCEPT !.queue = Append(@, ev)]
<1>1. q \in Reporters
  <2>1. Append(r.queue, ev) \in Seq(Event)
    BY DEF Reporters
  <2> QED
    BY <2>1 DEF Reporters
<1>2. Flush(q) \in Reporters
  BY <1>1, FlushTyped
<1>3. [q EXCEPT !.timer = TRUE] \in Reporters
  BY <1>1 DEF Reporters
<1> HIDE DEF Reporters
<1> QED
  BY <1>2, <1>3 DEF Enqueue

\* The event made of an error when its identity is told, or given up.
Freed(n, told) == [error |-> n.error, name |-> Name(n, told)]

\* What is freed is an event.
LEMMA FreedTyped ==
    ASSUME epoch \in Epochs, NEW n \in Noted, NEW told PROVE Freed(n, told) \in Event
BY DEF Freed, Name, Event, Noted, Epochs, Anonymous

\* A report leaves a reporter.
LEMMA ReportTyped ==
    ASSUME epoch \in Epochs, NEW r \in Reporters, NEW n \in Noted, NEW consent
    PROVE  Report(r, n, consent) \in Reporters
<1> DEFINE q == [r EXCEPT !.accepted = @ \union {n.error}]
<1>1. n.error \in Errors
  BY DEF Noted
<1>2. q \in Reporters
  BY <1>1 DEF Reporters
<1>3. Enqueue(q, Freed(n, settled /\ consent)) \in Reporters
  BY <1>2, FreedTyped, EnqueueTyped
<1>4. [q EXCEPT !.awaiting = Append(@, n)] \in Reporters
  <2>1. Append(q.awaiting, n) \in Seq(Noted)
    BY <1>2 DEF Reporters
  <2> HIDE DEF q
  <2> QED
    BY <1>2, <2>1 DEF Reporters
<1> HIDE DEF q
<1> QED
  BY <1>3, <1>4 DEF Report, Freed, q

\* What the chunk makes of the buffer.
Handed(consent, late) ==
    LET Hand(r, n) == Report(r, HandOver(n, late), consent)
    IN  FoldLeft(Hand, reporter, buffer)

\* A handed-over error is the one that was noted, of the epoch it was noted in.
LEMMA HandOverTyped ==
    ASSUME NEW n \in Noted, NEW late \in BOOLEAN
    PROVE  /\ HandOver(n, late) \in Noted /\ HandOver(n, late).error = n.error
           /\ HandOver(n, late).epoch = n.epoch
BY DEF HandOver, Noted

\* A release queues the waiting errors one by one.
LEMMA ReleaseTrace ==
    ASSUME reporter \in Reporters, epoch \in Epochs, NEW told
    PROVE  \E g \in [0 .. Len(reporter.awaiting) -> Reporters] :
              /\ g[0] = [reporter EXCEPT !.awaiting = <<>>]
              /\ \A i \in 1 .. Len(reporter.awaiting) :
                    g[i] = Enqueue(g[i - 1], Freed(reporter.awaiting[i], told))
              /\ Release(told) = g[Len(reporter.awaiting)]
<1> DEFINE n == Len(reporter.awaiting)
           base == [reporter EXCEPT !.awaiting = <<>>]
           F == [i \in 1 .. n |->
                   [x \in Reporters |-> Enqueue(x, Freed(reporter.awaiting[i], told))]]
           Chosen(h) == h = [s \in SUBSET DOMAIN reporter.awaiting |->
                               IF s = {} THEN base
                               ELSE LET m == Max(s)
                                    IN  Enqueue(h[s \ {m}], Freed(reporter.awaiting[m], told))]
           iter == CHOOSE h : Chosen(h)
<1>0. n \in Nat /\ DOMAIN reporter.awaiting = 1 .. n /\ base \in Reporters 
      /\ \A i \in 1 .. n : reporter.awaiting[i] \in Noted
  <2>1. reporter.awaiting \in Seq(Noted) /\ <<>> \in Seq(Noted)
    BY DEF Reporters
  <2>2. base \in Reporters
    BY <2>1 DEF Reporters
  <2> HIDE DEF base
  <2> QED
    BY <2>1, <2>2
<1>1. F \in [1 .. n -> [Reporters -> Reporters]]
  BY <1>0, FreedTyped, EnqueueTyped
<1>2. Release(told) = iter[1 .. n]
  BY <1>0 DEF Release, Freed, FoldLeft, MapThenFoldSet
<1> HIDE DEF base
<1>3. PICK h : Folded(h, n, Reporters, F, base)
  <2> HIDE DEF F, n
  <2> QED
    BY <1>0, <1>1, FoldExists
<1>4. ASSUME NEW s \in SUBSET (1 .. n), s # {}, NEW g, g[s \ {Max(s)}] \in Reporters
      PROVE  F[Max(s)][g[s \ {Max(s)}]]
                 = Enqueue(g[s \ {Max(s)}], Freed(reporter.awaiting[Max(s)], told))
  <2>1. Max(s) \in 1 .. n
    BY <1>0, <1>4, MaxOf
  <2> QED
    BY <1>4, <2>1
<1>5. Chosen(h)
  <2>1. ASSUME NEW s \in SUBSET (1 .. n), s # {}
        PROVE  h[s] = Enqueue(h[s \ {Max(s)}], Freed(reporter.awaiting[Max(s)], told))
    <3> HIDE DEF F, n
    <3>1. h[s \ {Max(s)}] \in Reporters
      BY <1>3 DEF Folded
    <3>2. h[s] = F[Max(s)][h[s \ {Max(s)}]]
      BY <1>3, <2>1 DEF Folded
    <3> QED
      BY <1>4, <2>1, <3>1, <3>2
  <2>2. h[{}] = base /\ h \in [SUBSET (1 .. n) -> Reporters]
    BY <1>3 DEF Folded
  <2> QED
    BY <1>0, <2>1, <2>2
<1>6. Chosen(iter)
  <2> HIDE DEF Chosen
  <2> QED
    BY <1>5
<1>7. /\ iter[{}] = base
      /\ \A s \in SUBSET (1 .. n) : s # {}
             => iter[s] = Enqueue(iter[s \ {Max(s)}], Freed(reporter.awaiting[Max(s)], told))
  <2> HIDE DEF iter
  <2> QED
    BY <1>0, <1>6
<1> HIDE DEF iter, Chosen, F, n
<1>8. Unrolls(iter, n, Reporters, F, base)
  BY <1>4, <1>7 DEF Unrolls
<1>9. PICK g : Traces(g, n, Reporters, F, base) /\ iter[1 .. n] = g[n]
  BY <1>0, <1>1, <1>8, FoldTrace
<1>10. /\ g \in [0 .. n -> Reporters] /\ g[0] = base
       /\ \A i \in 1 .. n : g[i] = Enqueue(g[i - 1], Freed(reporter.awaiting[i], told))
  <2>1. \A i \in 1 .. n : i - 1 \in 0 .. n
    BY <1>0
  <2>2. \A i \in 1 .. n : g[i - 1] \in Reporters
    BY <1>9, <2>1 DEF Traces
  <2> QED
    BY <1>9, <2>2 DEF F, Traces
<1> QED
  BY <1>2, <1>9, <1>10 DEF n, base

\* The buffer is reported error by error.
LEMMA HandedTrace ==
    ASSUME reporter \in Reporters, epoch \in Epochs, buffer \in Seq(Noted),
           NEW consent, NEW late \in BOOLEAN
    PROVE  \E g \in [0 .. Len(buffer) -> Reporters] :
              /\ g[0] = reporter
              /\ \A i \in 1 .. Len(buffer) :
                    g[i] = Report(g[i - 1], HandOver(buffer[i], late), consent)
              /\ Handed(consent, late) = g[Len(buffer)]
<1> DEFINE n == Len(buffer)
           base == reporter
           F == [i \in 1 .. n |->
                   [x \in Reporters |-> Report(x, HandOver(buffer[i], late), consent)]]
           Chosen(h) == h = [s \in SUBSET DOMAIN buffer |->
                               IF s = {} THEN base
                               ELSE LET m == Max(s)
                                    IN  Report(h[s \ {m}], HandOver(buffer[m], late), consent)]
           iter == CHOOSE h : Chosen(h)
<1>0. n \in Nat /\ DOMAIN buffer = 1 .. n /\ base \in Reporters 
      /\ \A i \in 1 .. n : buffer[i] \in Noted
  OBVIOUS
<1>1. F \in [1 .. n -> [Reporters -> Reporters]]
  BY <1>0, HandOverTyped, ReportTyped
<1>2. Handed(consent, late) = iter[1 .. n]
  BY <1>0 DEF Handed, FoldLeft, MapThenFoldSet
<1> HIDE DEF base
<1>3. PICK h : Folded(h, n, Reporters, F, base)
  <2> HIDE DEF F, n
  <2> QED
    BY <1>0, <1>1, FoldExists
<1>4. ASSUME NEW s \in SUBSET (1 .. n), s # {}, NEW g, g[s \ {Max(s)}] \in Reporters
      PROVE  F[Max(s)][g[s \ {Max(s)}]]
                 = Report(g[s \ {Max(s)}], HandOver(buffer[Max(s)], late), consent)
  <2>1. Max(s) \in 1 .. n
    BY <1>0, <1>4, MaxOf
  <2> QED
    BY <1>4, <2>1
<1>5. Chosen(h)
  <2>1. ASSUME NEW s \in SUBSET (1 .. n), s # {}
        PROVE  h[s] = Report(h[s \ {Max(s)}], HandOver(buffer[Max(s)], late), consent)
    <3> HIDE DEF F, n
    <3>1. h[s \ {Max(s)}] \in Reporters
      BY <1>3 DEF Folded
    <3>2. h[s] = F[Max(s)][h[s \ {Max(s)}]]
      BY <1>3, <2>1 DEF Folded
    <3> QED
      BY <1>4, <2>1, <3>1, <3>2
  <2>2. h[{}] = base /\ h \in [SUBSET (1 .. n) -> Reporters]
    BY <1>3 DEF Folded
  <2> QED
    BY <1>0, <2>1, <2>2
<1>6. Chosen(iter)
  <2> HIDE DEF Chosen
  <2> QED
    BY <1>5
<1>7. /\ iter[{}] = base
      /\ \A s \in SUBSET (1 .. n) : s # {}
             => iter[s] = Report(iter[s \ {Max(s)}], HandOver(buffer[Max(s)], late), consent)
  <2> HIDE DEF iter
  <2> QED
    BY <1>0, <1>6
<1> HIDE DEF iter, Chosen, F, n
<1>8. Unrolls(iter, n, Reporters, F, base)
  BY <1>4, <1>7 DEF Unrolls
<1>9. PICK g : Traces(g, n, Reporters, F, base) /\ iter[1 .. n] = g[n]
  BY <1>0, <1>1, <1>8, FoldTrace
<1>10. /\ g \in [0 .. n -> Reporters] /\ g[0] = base
       /\ \A i \in 1 .. n : g[i] = Report(g[i - 1], HandOver(buffer[i], late), consent)
  <2>1. \A i \in 1 .. n : i - 1 \in 0 .. n
    BY <1>0
  <2>2. \A i \in 1 .. n : g[i - 1] \in Reporters
    BY <1>9, <2>1 DEF Traces
  <2> QED
    BY <1>9, <2>2 DEF F, Traces
<1> QED
  BY <1>2, <1>9, <1>10 DEF n, base

-----------------------------------------------------------------------------
(* Where errors are.                                                       *)

\* No error twice in a sequence.
Distinct(s) == \A i, j \in DOMAIN s : s[i].error = s[j].error => i = j
\* No event has another name than its error's epoch, m the epochs noted.
Own(s, m) == \A i \in DOMAIN s : s[i].name \in {Anonymous, m[s[i].error]}
\* Errors as they were noted.
Dated(s, m) == \A i \in DOMAIN s : s[i].epoch = m[s[i].error]
\* What a request may carry.
Sendable(b, m) == Batch(b) /\ Distinct(b) /\ Own(b, m)
\* The errors that wait for a request.
Pending(r) == ErrorsOf(r.awaiting) \union ErrorsOf(r.queue)
\* The errors that wait or are in flight.
Held(r) == Pending(r) \union UNION {ErrorsOf(q.batch) : q \in r.requests}
\* Two sets with no member in common.
Apart(X, Y) == X \cap Y = {}

\* What always holds of the reporter r, m the epochs noted: its count is what its
\* requests hold, each error it accepted is in one place at most, once, and every name
\* is its error's own.
Fit(r, m) ==
    /\ IsFiniteSet(r.requests) /\ r.keepalive = Keepalive(r.requests) /\ r.keepalive <= Quota
    /\ Cardinality(r.accepted) <= PageLimit
    /\ Distinct(r.awaiting) /\ Dated(r.awaiting, m)
    /\ Distinct(r.queue) /\ Own(r.queue, m)
    /\ Apart(ErrorsOf(r.awaiting), ErrorsOf(r.queue))
    /\ \A q \in r.requests : Sendable(q.batch, m) /\ Apart(ErrorsOf(q.batch), Pending(r))
    /\ \A q, p \in r.requests : q # p => Apart(ErrorsOf(q.batch), ErrorsOf(p.batch))
    /\ Held(r) \subseteq r.accepted

\* What Append does.
LEMMA Appended ==
    ASSUME NEW T, NEW s \in Seq(T), NEW x \in T
    PROVE  LET c == Append(s, x) IN
           /\ c \in Seq(T) /\ Len(c) = Len(s) + 1 /\ DOMAIN c = 1 .. Len(s) + 1
           /\ DOMAIN s = 1 .. Len(s) /\ Len(s) \in Nat
           /\ c[Len(s) + 1] = x /\ \A i \in DOMAIN s : c[i] = s[i]
OBVIOUS

\* An appended event or error adds its error.
LEMMA ErrorsAppended ==
    ASSUME NEW T, NEW s \in Seq(T), NEW x \in T
    PROVE  ErrorsOf(Append(s, x)) = ErrorsOf(s) \union {x.error}
<1> DEFINE c == Append(s, x)
<1>1. /\ DOMAIN c = 1 .. Len(s) + 1 /\ DOMAIN s = 1 .. Len(s) /\ Len(s) \in Nat
      /\ c[Len(s) + 1] = x /\ \A i \in DOMAIN s : c[i] = s[i]
  BY Appended
<1> HIDE DEF c
<1>2. DOMAIN c = DOMAIN s \union {Len(s) + 1}
  BY <1>1
<1>3. ErrorsOf(c) = ErrorsOf(s) \union {c[Len(s) + 1].error}
  BY <1>1, <1>2 DEF ErrorsOf
<1> QED
  BY <1>1, <1>3 DEF c

\* The errors stay distinct when a new one is appended.
LEMMA DistinctAppended ==
    ASSUME NEW T, NEW s \in Seq(T), NEW x \in T, Distinct(s), x.error \notin ErrorsOf(s)
    PROVE  Distinct(Append(s, x))
<1> DEFINE c == Append(s, x)
<1>1. /\ DOMAIN c = 1 .. Len(s) + 1 /\ DOMAIN s = 1 .. Len(s) /\ Len(s) \in Nat
      /\ c[Len(s) + 1] = x /\ \A i \in DOMAIN s : c[i] = s[i]
  BY Appended
<1> HIDE DEF c
<1>2. \A i \in DOMAIN s : c[i].error # x.error
  BY <1>1 DEF ErrorsOf
<1>3. ASSUME NEW i \in DOMAIN c, NEW j \in DOMAIN c, c[i].error = c[j].error PROVE i = j
  <2>1. CASE i \in DOMAIN s /\ j \in DOMAIN s
    BY <1>1, <1>3, <2>1 DEF Distinct
  <2>2. CASE i = Len(s) + 1 \/ j = Len(s) + 1
    BY <1>1, <1>2, <1>3, <2>2
  <2> QED
    BY <1>1, <2>1, <2>2
<1> QED
  BY <1>3 DEF Distinct, c

\* The names stay own when one with its own is appended.
LEMMA OwnAppended ==
    ASSUME NEW s \in Seq(Event), NEW x \in Event, NEW m, Own(s, m),
           x.name \in {Anonymous, m[x.error]}
    PROVE  Own(Append(s, x), m)
<1> DEFINE c == Append(s, x)
<1>1. /\ DOMAIN c = 1 .. Len(s) + 1 /\ DOMAIN s = 1 .. Len(s) /\ Len(s) \in Nat
      /\ c[Len(s) + 1] = x /\ \A i \in DOMAIN s : c[i] = s[i]
  BY Appended
<1> HIDE DEF c
<1> QED
  BY <1>1 DEF Own, c

\* The errors stay dated when a dated one is appended.
LEMMA DatedAppended ==
    ASSUME NEW s \in Seq(Noted), NEW x \in Noted, NEW m, Dated(s, m), x.epoch = m[x.error]
    PROVE  Dated(Append(s, x), m)
<1> DEFINE c == Append(s, x)
<1>1. /\ DOMAIN c = 1 .. Len(s) + 1 /\ DOMAIN s = 1 .. Len(s) /\ Len(s) \in Nat
      /\ c[Len(s) + 1] = x /\ \A i \in DOMAIN s : c[i] = s[i]
  BY Appended
<1> HIDE DEF c
<1> QED
  BY <1>1 DEF Dated, c

\* The errors of the first i.
First(s, i) == {s[k].error : k \in 1 .. i}

\* Batches that may be sent, of errors of X, none in two of them.
CutOf(bs, X, m) ==
    /\ \A k \in DOMAIN bs : Sendable(bs[k], m) /\ ErrorsOf(bs[k]) \subseteq X
    /\ \A k, l \in DOMAIN bs : k # l => Apart(ErrorsOf(bs[k]), ErrorsOf(bs[l]))

\* One event more keeps the batches so, within their limits.
LEMMA CutMore ==
    ASSUME NEW bs \in Seq(Seq(Event)), NEW X, NEW m, CutOf(bs, X, m),
           NEW ev \in Event, ev.error \notin X, ev.name \in {Anonymous, m[ev.error]}
    PROVE  CutOf(Added(bs, ev), X \union {ev.error}, m)
<1> DEFINE Y == X \union {ev.error}
<1>1. CASE bs # <<>> /\ Joins(Last(bs), ev)
  <2> DEFINE n == Len(bs)
             b == bs[n]
             c == Append(b, ev)
             ds == [bs EXCEPT ![n] = c]
  <2>1. n \in DOMAIN bs /\ b \in Seq(Event) /\ Last(bs) = b
    BY <1>1 DEF Last
  <2>2. Sendable(b, m) /\ ErrorsOf(b) \subseteq X
    BY <2>1 DEF CutOf
  <2>3. Added(bs, ev) = ds
    BY <1>1 DEF Added
  <2>4. Sendable(c, m)
    <3>1. Distinct(c) /\ Own(c, m)
      BY <2>1, <2>2, DistinctAppended, OwnAppended DEF Sendable
    <3>2. Len(c) = Len(b) + 1 /\ Len(b) \in Nat
      BY <2>1
    <3>3. Bytes(c) = Bytes(b) + Size[ev.error]
      BY <2>1, BytesMore
    <3>4. Len(b) < BatchSize /\ Bytes(b) + Size[ev.error] <= BatchMax
      BY <1>1, <2>1 DEF Joins
    <3> HIDE DEF c, b
    <3>5. Batch(c)
      BY <3>2, <3>3, <3>4, ErrorReporterAssumption DEF Batch
    <3> QED
      BY <3>1, <3>5 DEF Sendable
  <2>5. ErrorsOf(c) = ErrorsOf(b) \union {ev.error}
    BY <2>1, ErrorsAppended
  <2>6. DOMAIN ds = DOMAIN bs /\ ds[n] = c /\ \A k \in DOMAIN bs : k # n => ds[k] = bs[k]
    BY <2>1
  <2> HIDE DEF ds, c, n
  <2>7. \A k \in DOMAIN bs : k # n => Apart(ErrorsOf(bs[k]), ErrorsOf(c))
    <3>1. \A k \in DOMAIN bs :
              k # n => Apart(ErrorsOf(bs[k]), ErrorsOf(b)) /\ ErrorsOf(bs[k]) \subseteq X
      BY <2>1 DEF CutOf
    <3> QED
      BY <2>5, <3>1 DEF Apart
  <2>8. \A k \in DOMAIN ds : Sendable(ds[k], m) /\ ErrorsOf(ds[k]) \subseteq Y
    BY <2>2, <2>4, <2>5, <2>6 DEF CutOf
  <2>9. \A k, l \in DOMAIN ds : k # l => Apart(ErrorsOf(ds[k]), ErrorsOf(ds[l]))
    <3>1. \A k, l \in DOMAIN bs :
              k # l /\ k # n /\ l # n => Apart(ErrorsOf(ds[k]), ErrorsOf(ds[l]))
      BY <2>6 DEF CutOf
    <3>2. \A k \in DOMAIN bs : k # n => Apart(ErrorsOf(ds[k]), ErrorsOf(ds[n]))
                                        /\ Apart(ErrorsOf(ds[n]), ErrorsOf(ds[k]))
      BY <2>6, <2>7 DEF Apart
    <3> QED
      BY <2>6, <3>1, <3>2
  <2> QED
    BY <2>3, <2>8, <2>9 DEF CutOf
<1>2. CASE ~ (bs # <<>> /\ Joins(Last(bs), ev))
  <2> DEFINE c == <<ev>>
             ds == Append(bs, c)
             n == Len(bs) + 1
  <2>1. Added(bs, ev) = ds
    BY <1>2 DEF Added
  <2>2. c \in Seq(Event) /\ DOMAIN c = {1} /\ c[1] = ev /\ Len(c) = 1
    OBVIOUS
  <2>3. Sendable(c, m) /\ ErrorsOf(c) = {ev.error}
    <3> HIDE DEF c
    <3>1. Batch(c)
      BY <2>2, ErrorReporterAssumption DEF Batch
    <3>2. Distinct(c) /\ Own(c, m) /\ ErrorsOf(c) = {ev.error}
      BY <2>2 DEF Distinct, Own, ErrorsOf
    <3> QED
      BY <3>1, <3>2 DEF Sendable
  <2>4. DOMAIN ds = DOMAIN bs \union {n} /\ n \notin DOMAIN bs /\ ds[n] = c
        /\ \A k \in DOMAIN bs : ds[k] = bs[k]
    <3> HIDE DEF c
    <3> QED
      BY <2>2, Appended
  <2> HIDE DEF ds, c, n
  <2>5. \A k \in DOMAIN ds : Sendable(ds[k], m) /\ ErrorsOf(ds[k]) \subseteq Y
    BY <2>3, <2>4 DEF CutOf
  <2>6. \A k, l \in DOMAIN ds : k # l => Apart(ErrorsOf(ds[k]), ErrorsOf(ds[l]))
    <3>1. \A k, l \in DOMAIN bs : k # l => Apart(ErrorsOf(ds[k]), ErrorsOf(ds[l]))
      BY <2>4 DEF CutOf
    <3>2. \A k \in DOMAIN bs : Apart(ErrorsOf(ds[k]), ErrorsOf(ds[n]))
                               /\ Apart(ErrorsOf(ds[n]), ErrorsOf(ds[k]))
      BY <2>3, <2>4 DEF Apart, CutOf
    <3> QED
      BY <2>4, <3>1, <3>2
  <2> QED
    BY <2>1, <2>5, <2>6 DEF CutOf
<1> QED
  BY <1>1, <1>2

\* takeBatch cuts the queue into batches that may be sent.
LEMMA BatchesCut ==
    ASSUME NEW events \in Seq(Event), NEW m, Distinct(events), Own(events, m)
    PROVE  CutOf(Batches(events), ErrorsOf(events), m)
<1> DEFINE n == Len(events)
<1>1. PICK g \in [0 .. n -> Seq(Seq(Event))] :
              /\ g[0] = <<>> /\ \A i \in 1 .. n : g[i] = Added(g[i - 1], events[i])
              /\ Batches(events) = g[n]
  BY BatchesTrace
<1> DEFINE T == {i \in 0 .. n : CutOf(g[i], First(events, i), m)}
<1>2. n \in Nat /\ DOMAIN events = 1 .. n
  OBVIOUS
<1>3. 0 \in T
  <2>1. CutOf(<<>>, First(events, 0), m)
    BY DEF CutOf
  <2> QED
    BY <1>1, <1>2, <2>1
<1>4. ASSUME NEW k \in 0 .. n - 1, k \in T PROVE k + 1 \in T
  <2> DEFINE ev == events[k + 1]
  <2>1. k + 1 \in 1 .. n /\ (k + 1) - 1 = k /\ k \in 0 .. n
    BY <1>2
  <2>2. g[k + 1] = Added(g[k], ev) /\ g[k] \in Seq(Seq(Event)) /\ ev \in Event
    BY <1>1, <1>2, <2>1
  <2>3. ev.error \notin First(events, k)
    <3>1. ASSUME NEW j \in 1 .. k, events[j].error = ev.error PROVE FALSE
      BY <1>2, <2>1, <3>1 DEF Distinct
    <3> QED
      BY <3>1 DEF First
  <2>4. First(events, k + 1) = First(events, k) \union {ev.error}
    <3>1. 1 .. (k + 1) = (1 .. k) \union {k + 1}
      OBVIOUS
    <3> QED
      BY <3>1 DEF First
  <2>5. ev.name \in {Anonymous, m[ev.error]}
    BY <1>2, <2>1 DEF Own
  <2> HIDE DEF ev
  <2>6. CutOf(g[k + 1], First(events, k + 1), m)
    BY <1>4, <2>2, <2>3, <2>4, <2>5, CutMore
  <2> QED
    BY <2>1, <2>6
<1>5. n \in T
  <2> HIDE DEF T, n
  <2> QED
    BY <1>2, <1>3, <1>4, Induction
<1>6. First(events, n) = ErrorsOf(events)
  BY <1>2 DEF First, ErrorsOf
<1> QED
  BY <1>1, <1>5, <1>6

\* The errors in flight.
Carried(R) == UNION {ErrorsOf(q.batch) : q \in R}

\* The reporter s follows r by steps that accepted or queued the errors of X: no
\* request has ended, each new one may be sent again, and nothing else is held.
Follows(r, s, X) ==
    /\ r.requests \subseteq s.requests
    /\ \A q \in s.requests \ r.requests : q.again
    /\ Held(s) \subseteq Held(r) \union X

\* The parts of a request.
LEMMA RequestTyped ==
    ASSUME NEW r \in Reporters, NEW q \in r.requests
    PROVE  q.batch \in Seq(Event) /\ q.keepalive \in Nat /\ q.again \in BOOLEAN
BY DEF Reporters, Request

\* From r to s one request more, with the batch b.
Sends(r, s, b, again, m) ==
    /\ s \in Reporters /\ Fit(s, m)
    /\ s.accepted = r.accepted /\ s.awaiting = r.awaiting /\ s.queue = r.queue
    /\ \E q : /\ q \notin r.requests /\ s.requests = r.requests \union {q}
              /\ q.batch = b /\ q.again = again
    /\ Held(s) = Held(r) \union ErrorsOf(b)

\* A batch of accepted errors that nothing else holds can be sent.
LEMMA SendFits ==
    ASSUME NEW r \in Reporters, NEW m, Fit(r, m), NEW b \in Seq(Event), NEW again \in BOOLEAN,
           Sendable(b, m), ErrorsOf(b) \subseteq r.accepted, Apart(ErrorsOf(b), Held(r))
    PROVE  Sends(r, Send(r, b, again), b, again, m)
<1> DEFINE s == Send(r, b, again)
           q == [batch |-> b, keepalive |-> Claim(r, b), again |-> again]
<1>1. s \in Reporters
  BY SendTyped
<1>2. /\ s.accepted = r.accepted /\ s.awaiting = r.awaiting /\ s.queue = r.queue
      /\ s.requests = r.requests \union {q}
      /\ s.keepalive = r.keepalive + Claim(r, b)
  BY DEF Send, Reporters
<1>3. q.batch = b /\ q.again = again /\ q.keepalive = Claim(r, b)
  OBVIOUS
<1> HIDE DEF s, q
<1>4. q \notin r.requests
  <2>1. SUFFICES ASSUME q \in r.requests PROVE FALSE
    OBVIOUS
  <2>2. Len(b) >= 1 /\ 1 \in DOMAIN b
    BY ErrorReporterAssumption DEF Sendable, Batch
  <2>3. b[1].error \in ErrorsOf(b)
    BY <2>2 DEF ErrorsOf
  <2>4. b[1].error \in Held(r)
    BY <1>3, <2>1, <2>3 DEF Held
  <2> QED
    BY <2>3, <2>4 DEF Apart
<1>5. Claim(r, b) \in Nat /\ r.keepalive + Claim(r, b) <= Quota
  BY ClaimTyped DEF Fit, Reporters
<1>6. s.keepalive = Keepalive(s.requests) /\ IsFiniteSet(s.requests)
  <2>1. \A p \in r.requests : p.keepalive \in Nat
    BY RequestTyped
  <2>2. IsFiniteSet(r.requests) /\ r.keepalive = Keepalive(r.requests)
    BY DEF Fit
  <2>3. /\ Keepalive(r.requests \union {q}) = Keepalive(r.requests) + q.keepalive
        /\ IsFiniteSet(r.requests \union {q})
    BY <1>3, <1>4, <1>5, <2>1, <2>2, KeepaliveMore
  <2> QED
    BY <1>2, <1>3, <2>2, <2>3
<1>7. Pending(s) = Pending(r)
  BY <1>2 DEF Pending
<1>8. Held(s) = Held(r) \union ErrorsOf(b)
  BY <1>2, <1>3, <1>7 DEF Held
<1>9. \A p \in s.requests : Sendable(p.batch, m) /\ Apart(ErrorsOf(p.batch), Pending(s))
  BY <1>2, <1>3, <1>7 DEF Fit, Apart, Held
<1>10. \A p \in r.requests : ErrorsOf(p.batch) \subseteq Held(r)
  BY DEF Held
<1>11. \A p, o \in s.requests : p # o => Apart(ErrorsOf(p.batch), ErrorsOf(o.batch))
  BY <1>2, <1>3, <1>10 DEF Fit, Apart
<1>12. Held(s) \subseteq s.accepted
  BY <1>2, <1>8 DEF Fit
<1>13. Fit(s, m)
  BY <1>2, <1>5, <1>6, <1>9, <1>11, <1>12 DEF Fit
<1> QED
  BY <1>1, <1>2, <1>3, <1>4, <1>8, <1>13 DEF s, Sends

\* A flush sends the queue, each event in one request.
LEMMA FlushFits ==
    ASSUME NEW r \in Reporters, NEW m, Fit(r, m)
    PROVE  LET s == Flush(r) IN
           /\ s \in Reporters /\ Fit(s, m) /\ Follows(r, s, {})
           /\ s.accepted = r.accepted /\ s.awaiting = r.awaiting /\ s.queue = <<>>
<1> DEFINE bs == Batches(r.queue)
           n == Len(bs)
           base == [r EXCEPT !.queue = <<>>, !.timer = FALSE]
           SentBy(i) == UNION {ErrorsOf(bs[k]) : k \in 1 .. i}
<1>1. r.queue \in Seq(Event) /\ bs \in Seq(Seq(Event)) /\ n \in Nat /\ DOMAIN bs = 1 .. n
  BY BatchesTyped DEF Reporters
<1>2. CutOf(bs, ErrorsOf(r.queue), m)
  BY <1>1, BatchesCut DEF Fit
<1>3. PICK g \in [0 .. n -> Reporters] :
              /\ g[0] = base /\ \A i \in 1 .. n : g[i] = Send(g[i - 1], bs[i], TRUE)
              /\ Flush(r) = g[n]
  BY FlushTrace
<1>4. /\ base \in Reporters /\ base.queue = <<>> /\ base.accepted = r.accepted
      /\ base.awaiting = r.awaiting /\ base.requests = r.requests
      /\ base.keepalive = r.keepalive
  <2>1. <<>> \in Seq(Event)
    OBVIOUS
  <2> QED
    BY <2>1 DEF Reporters
<1> HIDE DEF bs, n, base
<1>5. /\ Pending(base) = ErrorsOf(r.awaiting) /\ Held(base) \subseteq Held(r)
      /\ Apart(Held(base), ErrorsOf(r.queue)) /\ ErrorsOf(r.queue) \subseteq r.accepted
  <2>1. Pending(base) = ErrorsOf(r.awaiting)
    BY <1>4 DEF Pending, ErrorsOf
  <2>2. Held(base) = ErrorsOf(r.awaiting) \union Carried(r.requests)
    BY <1>4, <2>1 DEF Held, Carried
  <2>3. Held(r) = ErrorsOf(r.awaiting) \union ErrorsOf(r.queue) \union Carried(r.requests)
    BY DEF Held, Carried, Pending
  <2>4. /\ Apart(Carried(r.requests), ErrorsOf(r.queue))
        /\ Apart(ErrorsOf(r.awaiting), ErrorsOf(r.queue))
    BY DEF Fit, Apart, Carried, Pending
  <2>5. ErrorsOf(r.queue) \subseteq r.accepted
    BY <2>3 DEF Fit
  <2> QED
    BY <2>1, <2>2, <2>3, <2>4, <2>5 DEF Apart
<1>6. Fit(base, m)
  <2>1. Distinct(base.queue) /\ Own(base.queue, m)
    BY <1>4 DEF Distinct, Own
  <2>2. Apart(ErrorsOf(base.awaiting), ErrorsOf(base.queue))
    BY <1>4 DEF Apart, ErrorsOf
  <2>3. \A q \in base.requests : Sendable(q.batch, m) /\ Apart(ErrorsOf(q.batch), Pending(base))
    BY <1>4, <1>5 DEF Fit, Apart, Pending
  <2>4. Held(base) \subseteq base.accepted
    BY <1>4, <1>5 DEF Fit
  <2> QED
    BY <1>4, <2>1, <2>2, <2>3, <2>4 DEF Fit
<1> DEFINE Ok(s, i) ==
             /\ s \in Reporters /\ Fit(s, m)
             /\ s.accepted = r.accepted /\ s.awaiting = r.awaiting /\ s.queue = <<>>
             /\ r.requests \subseteq s.requests /\ \A q \in s.requests \ r.requests : q.again
             /\ Held(s) = Held(base) \union SentBy(i)
           T == {i \in 0 .. n : Ok(g[i], i)}
<1>7. 0 \in T
  <2>1. SentBy(0) = {}
    OBVIOUS
  <2>2. Ok(base, 0)
    BY <1>4, <1>6, <2>1
  <2> QED
    BY <1>1, <1>3, <2>2
<1>8. ASSUME NEW k \in 0 .. n - 1, k \in T PROVE k + 1 \in T
  <2> DEFINE b == bs[k + 1]
             s == g[k]
             t == g[k + 1]
  <2>1. k + 1 \in 1 .. n /\ (k + 1) - 1 = k /\ k \in Nat
    BY <1>1
  <2>2. t = Send(s, b, TRUE) /\ Ok(s, k)
    BY <1>3, <1>8, <2>1
  <2>3. b \in Seq(Event) /\ Sendable(b, m) /\ ErrorsOf(b) \subseteq ErrorsOf(r.queue)
    <3>1. k + 1 \in DOMAIN bs
      BY <1>1, <2>1
    <3>2. bs[k + 1] \in Seq(Event)
      BY <1>1, <3>1
    <3>3. Sendable(bs[k + 1], m) /\ ErrorsOf(bs[k + 1]) \subseteq ErrorsOf(r.queue)
      BY <1>2, <3>1 DEF CutOf
    <3> QED
      BY <3>2, <3>3
  <2>4. \A l \in 1 .. k : Apart(ErrorsOf(b), ErrorsOf(bs[l]))
    <3>1. \A l \in 1 .. k : l \in DOMAIN bs /\ l # k + 1
      BY <1>1, <2>1
    <3>2. k + 1 \in DOMAIN bs
      BY <1>1, <2>1
    <3> QED
      BY <1>2, <3>1, <3>2 DEF CutOf
  <2>5. SentBy(k + 1) = SentBy(k) \union ErrorsOf(b)
    <3>1. 1 .. (k + 1) = (1 .. k) \union {k + 1}
      BY <2>1
    <3> QED
      BY <3>1
  <2> HIDE DEF b, s, t
  <2>6. Apart(ErrorsOf(b), Held(s)) /\ ErrorsOf(b) \subseteq s.accepted
    BY <1>5, <2>2, <2>3, <2>4 DEF Apart
  <2>7. /\ t \in Reporters /\ Fit(t, m)
        /\ t.accepted = s.accepted /\ t.awaiting = s.awaiting /\ t.queue = s.queue
        /\ \E q : t.requests = s.requests \union {q} /\ q.again
        /\ Held(t) = Held(s) \union ErrorsOf(b)
    <3>1. /\ s \in Reporters /\ Fit(s, m) /\ b \in Seq(Event) /\ TRUE \in BOOLEAN
          /\ Sendable(b, m) /\ ErrorsOf(b) \subseteq s.accepted /\ Apart(ErrorsOf(b), Held(s))
      BY <2>2, <2>3, <2>6
    <3>2. Sends(s, t, b, TRUE, m)
      BY <2>2, <3>1, SendFits
    <3> QED
      BY <3>2 DEF Sends
  <2> HIDE DEF SentBy
  <2>8. Ok(t, k + 1)
    BY <2>2, <2>5, <2>7
  <2> HIDE DEF Ok
  <2> QED
    BY <1>1, <2>1, <2>8 DEF t
<1>9. n \in T
  <2> HIDE DEF T
  <2> QED
    BY <1>1, <1>7, <1>8, Induction
<1>10. SentBy(n) \subseteq ErrorsOf(r.queue) /\ ErrorsOf(r.queue) \subseteq Held(r)
  BY <1>1, <1>2 DEF CutOf, Held, Pending
<1>11. Ok(Flush(r), n)
  BY <1>3, <1>9
<1> HIDE DEF SentBy
<1>12. Follows(r, Flush(r), {})
  BY <1>5, <1>10, <1>11 DEF Follows
<1> QED
  BY <1>11, <1>12

\* A step of the reporter from r to s that keeps it fit.
Goes(r, s, X, m) == s \in Reporters /\ Fit(s, m) /\ Follows(r, s, X)

\* A name that is the error's own.
Named(n, told, m) == Freed(n, told).name \in {Anonymous, m[n.error]}

\* An error of this epoch gets this epoch, or none.
LEMMA NamedOwn ==
    ASSUME NEW n, NEW told, NEW m, n.epoch = m[n.error] PROVE Named(n, told, m)
BY DEF Named, Freed, Name

\* An event whose error nothing holds yet can be queued.
LEMMA EnqueueFits ==
    ASSUME NEW r \in Reporters, NEW m, Fit(r, m), NEW ev \in Event,
           ev.name \in {Anonymous, m[ev.error]}, ev.error \in r.accepted, ev.error \notin Held(r)
    PROVE  /\ Goes(r, Enqueue(r, ev), {ev.error}, m)
           /\ Enqueue(r, ev).accepted = r.accepted
<1> DEFINE q == [r EXCEPT !.queue = Append(@, ev)]
<1>1. r.queue \in Seq(Event) /\ Append(r.queue, ev) \in Seq(Event)
  BY DEF Reporters
<1>2. /\ q \in Reporters /\ q.queue = Append(r.queue, ev) /\ q.accepted = r.accepted
      /\ q.awaiting = r.awaiting /\ q.requests = r.requests /\ q.keepalive = r.keepalive
  BY <1>1 DEF Reporters
<1> HIDE DEF q
<1>3. ErrorsOf(q.queue) = ErrorsOf(r.queue) \union {ev.error}
  BY <1>1, <1>2, ErrorsAppended
<1>4. Pending(q) = Pending(r) \union {ev.error} /\ Held(q) = Held(r) \union {ev.error}
  BY <1>2, <1>3 DEF Pending, Held
<1>5. Fit(q, m)
  <2>1. ev.error \notin ErrorsOf(r.queue) /\ ev.error \notin ErrorsOf(r.awaiting)
        /\ \A p \in r.requests : ev.error \notin ErrorsOf(p.batch)
    BY DEF Held, Pending
  <2>2. Distinct(q.queue) /\ Own(q.queue, m)
    BY <1>1, <1>2, <2>1, DistinctAppended, OwnAppended DEF Fit
  <2>3. Apart(ErrorsOf(q.awaiting), ErrorsOf(q.queue))
    BY <1>2, <1>3, <2>1 DEF Fit, Apart
  <2>4. \A p \in q.requests : Sendable(p.batch, m) /\ Apart(ErrorsOf(p.batch), Pending(q))
    BY <1>2, <1>4, <2>1 DEF Fit, Apart
  <2>5. Held(q) \subseteq q.accepted
    BY <1>2, <1>4 DEF Fit
  <2> QED
    BY <1>2, <2>2, <2>3, <2>4, <2>5 DEF Fit
<1>6. CASE Len(q.queue) >= BatchSize
  <2>1. Enqueue(r, ev) = Flush(q)
    BY <1>6 DEF Enqueue, q
  <2>2. LET s == Flush(q) IN
           /\ s \in Reporters /\ Fit(s, m) /\ Follows(q, s, {})
           /\ s.accepted = q.accepted /\ s.awaiting = q.awaiting /\ s.queue = <<>>
    BY <1>2, <1>5, FlushFits
  <2>3. Follows(r, Flush(q), {ev.error})
    BY <1>2, <1>4, <2>2 DEF Follows
  <2> QED
    BY <1>2, <2>1, <2>2, <2>3 DEF Goes
<1>7. CASE ~ (Len(q.queue) >= BatchSize)
  <2> DEFINE s == [q EXCEPT !.timer = TRUE]
  <2>1. Enqueue(r, ev) = s
    BY <1>7 DEF Enqueue, q
  <2>2. /\ s \in Reporters /\ s.queue = q.queue /\ s.accepted = q.accepted
        /\ s.awaiting = q.awaiting /\ s.requests = q.requests /\ s.keepalive = q.keepalive
    BY <1>2 DEF Reporters
  <2> HIDE DEF s
  <2>3. Pending(s) = Pending(q) /\ Held(s) = Held(q)
    BY <2>2 DEF Pending, Held
  <2>4. Fit(s, m)
    BY <1>5, <2>2, <2>3 DEF Fit
  <2>5. Follows(r, s, {ev.error})
    BY <1>2, <1>4, <2>2, <2>3 DEF Follows
  <2> QED
    BY <1>2, <2>1, <2>2, <2>4, <2>5 DEF Goes
<1> QED
  BY <1>6, <1>7

\* A new error can be reported, whether it is throttled, queued or has to wait.
LEMMA ReportFits ==
    ASSUME epoch \in Epochs, NEW r \in Reporters, NEW m, Fit(r, m), NEW n \in Noted, NEW consent,
           n.epoch = m[n.error], n.error \notin r.accepted
    PROVE  /\ Goes(r, Report(r, n, consent), {n.error}, m)
           /\ r.accepted \subseteq Report(r, n, consent).accepted
           /\ Report(r, n, consent).accepted \subseteq r.accepted \union {n.error}
<1> DEFINE q == [r EXCEPT !.accepted = @ \union {n.error}]
           ev == Freed(n, settled /\ consent)
<1>1. CASE Throttled(r, n.error)
  <2>1. Report(r, n, consent) = r
    BY <1>1 DEF Report
  <2>2. Follows(r, r, {n.error})
    BY DEF Follows
  <2> QED
    BY <2>1, <2>2 DEF Goes
<1>2. CASE ~Throttled(r, n.error)
  <2>0. n.error \in Errors
    BY DEF Noted
  <2>1. /\ q \in Reporters /\ q.queue = r.queue /\ q.accepted = r.accepted \union {n.error}
        /\ q.awaiting = r.awaiting /\ q.requests = r.requests /\ q.keepalive = r.keepalive
    BY <2>0 DEF Reporters
  <2> HIDE DEF q
  <2>2. Pending(q) = Pending(r) /\ Held(q) = Held(r)
    BY <2>1 DEF Pending, Held
  <2>3. Cardinality(q.accepted) <= PageLimit
    <3>1. IsFiniteSet(r.accepted)
      BY ErrorReporterAssumption, FS_Subset DEF Reporters
    <3>2. Cardinality(r.accepted) \in Nat /\ Cardinality(q.accepted) = Cardinality(r.accepted) + 1
      BY <2>1, <3>1, FS_AddElement, FS_CardinalityType
    <3>3. ~ (Cardinality(r.accepted) >= PageLimit)
      BY <1>2 DEF Throttled
    <3> QED
      BY <3>2, <3>3, ErrorReporterAssumption
  <2>4. Fit(q, m)
    BY <2>1, <2>2, <2>3 DEF Fit
  <2>5. n.error \in q.accepted /\ n.error \notin Held(q)
    BY <2>1, <2>2 DEF Fit
  <2>6. CASE Waited(settled)
    <3>1. Report(r, n, consent) = Enqueue(q, ev)
      BY <1>2, <2>6 DEF Report, Freed, q
    <3>2. ev \in Event /\ ev.error = n.error /\ ev.name \in {Anonymous, m[ev.error]}
      BY FreedTyped, NamedOwn DEF Freed, Named
    <3> HIDE DEF ev
    <3>3. Goes(q, Enqueue(q, ev), {n.error}, m) /\ Enqueue(q, ev).accepted = q.accepted
      BY <2>1, <2>4, <2>5, <3>2, EnqueueFits
    <3>4. Goes(r, Enqueue(q, ev), {n.error}, m)
      BY <2>1, <2>2, <3>3 DEF Goes, Follows
    <3> QED
      BY <2>1, <3>1, <3>3, <3>4
  <2>7. CASE ~Waited(settled)
    <3> DEFINE s == [q EXCEPT !.awaiting = Append(@, n)]
    <3>1. Report(r, n, consent) = s
      BY <1>2, <2>7 DEF Report, q
    <3>2. q.awaiting \in Seq(Noted) /\ Append(q.awaiting, n) \in Seq(Noted)
      BY <2>1 DEF Reporters
    <3>3. /\ s \in Reporters /\ s.queue = q.queue /\ s.accepted = q.accepted
          /\ s.awaiting = Append(q.awaiting, n) /\ s.requests = q.requests
          /\ s.keepalive = q.keepalive
      BY <2>1, <3>2 DEF Reporters
    <3> HIDE DEF s
    <3>4. ErrorsOf(s.awaiting) = ErrorsOf(q.awaiting) \union {n.error}
      BY <3>2, <3>3, ErrorsAppended
    <3>5. Pending(s) = Pending(q) \union {n.error} /\ Held(s) = Held(q) \union {n.error}
      BY <3>3, <3>4 DEF Pending, Held
    <3>6. n.error \notin ErrorsOf(q.queue) /\ n.error \notin ErrorsOf(q.awaiting)
          /\ \A p \in q.requests : n.error \notin ErrorsOf(p.batch)
      BY <2>5 DEF Held, Pending
    <3>7. Fit(s, m)
      <4>1. Distinct(s.awaiting) /\ Dated(s.awaiting, m)
        BY <2>4, <3>2, <3>3, <3>6, DistinctAppended, DatedAppended DEF Fit
      <4>2. Apart(ErrorsOf(s.awaiting), ErrorsOf(s.queue))
        BY <2>4, <3>3, <3>4, <3>6 DEF Fit, Apart
      <4>3. \A p \in s.requests : Sendable(p.batch, m) /\ Apart(ErrorsOf(p.batch), Pending(s))
        BY <2>4, <3>3, <3>5, <3>6 DEF Fit, Apart
      <4>4. Held(s) \subseteq s.accepted
        BY <2>4, <2>5, <3>3, <3>5 DEF Fit
      <4> QED
        BY <2>4, <3>3, <4>1, <4>2, <4>3, <4>4 DEF Fit
    <3>8. Follows(r, s, {n.error})
      BY <2>1, <2>2, <3>3, <3>5 DEF Follows
    <3> QED
      BY <2>1, <3>1, <3>3, <3>7, <3>8 DEF Goes
  <2> QED
    BY <2>6, <2>7
<1> QED
  BY <1>1, <1>2

\* The first k + 1 errors are the first k and the next one.
LEMMA FirstMore ==
    ASSUME NEW s, NEW k \in Nat PROVE First(s, k + 1) = First(s, k) \union {s[k + 1].error}
<1>1. 1 .. (k + 1) = (1 .. k) \union {k + 1}
  OBVIOUS
<1> QED
  BY <1>1 DEF First

\* The first Len(s) errors are all the errors of s.
LEMMA FirstAll == ASSUME NEW T, NEW s \in Seq(T) PROVE First(s, Len(s)) = ErrorsOf(s)
BY DEF First, ErrorsOf

\* The errors that waited can be released, whether analytics settled or the cap came.
LEMMA ReleaseFits ==
    ASSUME reporter \in Reporters, epoch \in Epochs, NEW m, Fit(reporter, m), NEW told
    PROVE  /\ Goes(reporter, Release(told), {}, m)
           /\ Release(told).accepted = reporter.accepted
<1> DEFINE ns == reporter.awaiting
           n == Len(ns)
           base == [reporter EXCEPT !.awaiting = <<>>]
<1>1. ns \in Seq(Noted) /\ n \in Nat /\ DOMAIN ns = 1 .. n /\ \A i \in 1 .. n : ns[i] \in Noted
  BY DEF Reporters
<1>2. PICK g \in [0 .. n -> Reporters] :
              /\ g[0] = base /\ \A i \in 1 .. n : g[i] = Enqueue(g[i - 1], Freed(ns[i], told))
              /\ Release(told) = g[n]
  BY ReleaseTrace
<1>3. /\ base \in Reporters /\ base.awaiting = <<>> /\ base.accepted = reporter.accepted
      /\ base.queue = reporter.queue /\ base.requests = reporter.requests
      /\ base.keepalive = reporter.keepalive
  <2>1. <<>> \in Seq(Noted)
    OBVIOUS
  <2> QED
    BY <2>1 DEF Reporters
<1> HIDE DEF base
<1>4. Held(reporter) = Held(base) \union ErrorsOf(ns) /\ Apart(Held(base), ErrorsOf(ns))
      /\ Pending(base) = ErrorsOf(reporter.queue) /\ Held(base) \subseteq Held(reporter)
  <2>1. Pending(base) = ErrorsOf(reporter.queue)
    BY <1>3 DEF Pending, ErrorsOf
  <2>2. Held(base) = ErrorsOf(reporter.queue) \union Carried(reporter.requests)
    BY <1>3, <2>1 DEF Held, Carried
  <2>3. Held(reporter)
            = ErrorsOf(ns) \union ErrorsOf(reporter.queue) \union Carried(reporter.requests)
    BY DEF Held, Carried, Pending
  <2>4. /\ Apart(Carried(reporter.requests), ErrorsOf(ns))
        /\ Apart(ErrorsOf(ns), ErrorsOf(reporter.queue))
    BY DEF Fit, Apart, Carried, Pending
  <2> QED
    BY <2>1, <2>2, <2>3, <2>4 DEF Apart
<1>5. Fit(base, m)
  <2>1. Distinct(base.awaiting) /\ Dated(base.awaiting, m)
    BY <1>3 DEF Distinct, Dated
  <2>2. Apart(ErrorsOf(base.awaiting), ErrorsOf(base.queue))
    BY <1>3 DEF Apart, ErrorsOf
  <2>3. \A q \in base.requests : Sendable(q.batch, m) /\ Apart(ErrorsOf(q.batch), Pending(base))
    BY <1>3, <1>4 DEF Fit, Apart, Pending
  <2>4. Held(base) \subseteq base.accepted
    BY <1>3, <1>4 DEF Fit
  <2> QED
    BY <1>3, <2>1, <2>2, <2>3, <2>4 DEF Fit
<1>6. Distinct(ns) /\ Dated(ns, m) /\ ErrorsOf(ns) \subseteq reporter.accepted
  BY <1>4 DEF Fit
<1> HIDE DEF ns
<1> DEFINE Ok(s, i) ==
             Goes(base, s, First(ns, i), m) /\ s.accepted = reporter.accepted
           T == {i \in 0 .. n : Ok(g[i], i)}
<1>7. 0 \in T
  <2>1. Ok(base, 0)
    BY <1>3, <1>5 DEF Goes, Follows
  <2> HIDE DEF Ok
  <2> QED
    BY <1>1, <1>2, <2>1
<1>8. ASSUME NEW k \in 0 .. n - 1, k \in T PROVE k + 1 \in T
  <2> DEFINE s == g[k]
             t == g[k + 1]
             ev == Freed(ns[k + 1], told)
  <2>1. k + 1 \in 1 .. n /\ (k + 1) - 1 = k /\ k \in Nat /\ ns[k + 1] \in Noted
    BY <1>1
  <2>2. t = Enqueue(s, ev) /\ Ok(s, k)
    BY <1>2, <1>8, <2>1
  <2>3. ev \in Event /\ ev.error = ns[k + 1].error
    BY <2>1, FreedTyped DEF Freed
  <2>4. ev.name \in {Anonymous, m[ev.error]}
    BY <1>1, <1>6, <2>1, NamedOwn DEF Dated, Named, Freed
  <2>5. ev.error \in ErrorsOf(ns) /\ ev.error \notin First(ns, k)
    <3>1. k + 1 \in DOMAIN ns /\ \A j \in 1 .. k : j \in DOMAIN ns /\ j # k + 1
      BY <1>1, <2>1
    <3> QED
      BY <1>6, <2>3, <3>1 DEF Distinct, First, ErrorsOf
  <2>6. First(ns, k + 1) = First(ns, k) \union {ev.error}
    BY <2>1, <2>3, FirstMore
  <2> HIDE DEF s, t, ev
  <2>7. ev.error \in s.accepted /\ ev.error \notin Held(s) /\ s \in Reporters /\ Fit(s, m)
    BY <1>4, <1>6, <2>2, <2>5 DEF Goes, Follows, Apart
  <2>8. Goes(s, t, {ev.error}, m) /\ t.accepted = s.accepted
    BY <2>2, <2>3, <2>4, <2>7, EnqueueFits
  <2>9. Ok(t, k + 1)
    BY <2>2, <2>6, <2>8 DEF Goes, Follows
  <2> HIDE DEF Ok
  <2> QED
    BY <1>1, <2>1, <2>9 DEF t
<1>9. n \in T
  <2> HIDE DEF T, n
  <2> QED
    BY <1>1, <1>7, <1>8, Induction
<1>10. Ok(Release(told), n)
  BY <1>2, <1>9
<1>11. First(ns, n) = ErrorsOf(ns)
  BY <1>1, FirstAll
<1> HIDE DEF n
<1> QED
  BY <1>3, <1>4, <1>10, <1>11 DEF Goes, Follows

\* The buffer can be handed over.
LEMMA HandedFits ==
    ASSUME reporter \in Reporters, epoch \in Epochs, NEW m, Fit(reporter, m),
           buffer \in Seq(Noted), Distinct(buffer), Dated(buffer, m),
           Apart(ErrorsOf(buffer), reporter.accepted), NEW consent, NEW late \in BOOLEAN
    PROVE  LET s == Handed(consent, late) IN
           /\ Goes(reporter, s, ErrorsOf(buffer), m)
           /\ reporter.accepted \subseteq s.accepted
           /\ s.accepted \subseteq reporter.accepted \union ErrorsOf(buffer)
<1> DEFINE n == Len(buffer)
<1>1. n \in Nat /\ DOMAIN buffer = 1 .. n /\ \A i \in 1 .. n : buffer[i] \in Noted
  OBVIOUS
<1>2. PICK g \in [0 .. n -> Reporters] :
              /\ g[0] = reporter
              /\ \A i \in 1 .. n : g[i] = Report(g[i - 1], HandOver(buffer[i], late), consent)
              /\ Handed(consent, late) = g[n]
  BY HandedTrace
<1> DEFINE Ok(s, i) ==
             /\ Goes(reporter, s, First(buffer, i), m)
             /\ reporter.accepted \subseteq s.accepted
             /\ s.accepted \subseteq reporter.accepted \union First(buffer, i)
           T == {i \in 0 .. n : Ok(g[i], i)}
<1>3. 0 \in T
  <2>1. Ok(reporter, 0)
    BY DEF Goes, Follows
  <2> HIDE DEF Ok
  <2> QED
    BY <1>1, <1>2, <2>1
<1>4. ASSUME NEW k \in 0 .. n - 1, k \in T PROVE k + 1 \in T
  <2> DEFINE s == g[k]
             t == g[k + 1]
             x == HandOver(buffer[k + 1], late)
  <2>1. k + 1 \in 1 .. n /\ (k + 1) - 1 = k /\ k \in Nat /\ buffer[k + 1] \in Noted
    BY <1>1
  <2>2. t = Report(s, x, consent) /\ Ok(s, k)
    BY <1>2, <1>4, <2>1
  <2>3. x \in Noted /\ x.error = buffer[k + 1].error /\ x.epoch = m[x.error]
    BY <1>1, <2>1, HandOverTyped DEF Dated
  <2>4. x.error \in ErrorsOf(buffer) /\ x.error \notin First(buffer, k)
    <3>1. k + 1 \in DOMAIN buffer /\ \A j \in 1 .. k : j \in DOMAIN buffer /\ j # k + 1
      BY <1>1, <2>1
    <3> QED
      BY <2>3, <3>1 DEF Distinct, First, ErrorsOf
  <2>5. First(buffer, k + 1) = First(buffer, k) \union {x.error}
    BY <2>1, <2>3, FirstMore
  <2> HIDE DEF s, t, x
  <2>6. x.error \notin s.accepted /\ s \in Reporters /\ Fit(s, m)
    BY <2>2, <2>4 DEF Goes, Apart
  <2>7. /\ Goes(s, t, {x.error}, m) /\ s.accepted \subseteq t.accepted
        /\ t.accepted \subseteq s.accepted \union {x.error}
    BY <2>2, <2>3, <2>6, ReportFits
  <2>8. Ok(t, k + 1)
    BY <2>2, <2>5, <2>7 DEF Goes, Follows
  <2> HIDE DEF Ok
  <2> QED
    BY <1>1, <2>1, <2>8 DEF t
<1>5. n \in T
  <2> HIDE DEF T, n
  <2> QED
    BY <1>1, <1>3, <1>4, Induction
<1>6. Ok(Handed(consent, late), n)
  BY <1>2, <1>5
<1>7. First(buffer, n) = ErrorsOf(buffer)
  BY FirstAll
<1> HIDE DEF n
<1> QED
  BY <1>6, <1>7

-----------------------------------------------------------------------------
(* The inductive invariant.                                                *)

\* How often the errors were tried, t, by where they are: never while they wait, once
\* in a first request or before a retry, twice in a second request.
Tried(r, rt, t) ==
    /\ \A e \in Pending(r) : t[e] = 0
    /\ \A q \in r.requests : \A e \in ErrorsOf(q.batch) : t[e] = IF q.again THEN 1 ELSE 2
    /\ \A b \in rt : \A e \in ErrorsOf(b) : t[e] = 1
    /\ \A e \in Errors : (e \notin r.accepted => t[e] = 0) /\ t[e] <= 2

\* The batches that wait for their retry may be sent, and hold what nothing else does.
Again(r, m, rt) ==
    /\ \A b \in rt : /\ Sendable(b, m) /\ ErrorsOf(b) \subseteq r.accepted
                     /\ Apart(ErrorsOf(b), Held(r))
    /\ \A b, c \in rt : b # c => Apart(ErrorsOf(b), ErrorsOf(c))

\* The buffer holds errors that were noted and that the reporter has not seen.
Buffered(bf, r, m) ==
    /\ Distinct(bf) /\ Dated(bf, m) /\ Apart(ErrorsOf(bf), r.accepted)
    /\ \A e \in Errors : m[e] = 0 => e \notin r.accepted

\* The types of the variables.
ReporterTyped ==
    /\ noted \in [Errors -> 0 .. MaxEpoch + 1]
    /\ chunk \in {"no", "loading", "loaded"} /\ idle \in BOOLEAN
    /\ buffer \in Seq(Noted) /\ Len(buffer) <= BufferLimit
    /\ reporter \in Reporters /\ \A b \in retrying : b \in Seq(Event)
    /\ settled \in BOOLEAN /\ capped \in BOOLEAN /\ epoch \in Epochs
    /\ visit \in {"open", "gone"} /\ hides \in 0 .. MaxHides
    /\ tries \in [Errors -> Nat]

\* The inductive invariant: every error is in one place at most.
ReporterInv ==
    /\ ReporterTyped /\ Fit(reporter, noted) /\ Tried(reporter, retrying, tries)
    /\ Again(reporter, noted, retrying) /\ Buffered(buffer, reporter, noted)

\* The places are parts of what is held.
LEMMA HeldParts ==
    ASSUME NEW r \in Reporters
    PROVE  /\ ErrorsOf(r.awaiting) \subseteq Held(r) /\ ErrorsOf(r.queue) \subseteq Held(r)
           /\ \A q \in r.requests : ErrorsOf(q.batch) \subseteq Held(r)
           /\ Held(r) \subseteq Errors
<1>1. \A n \in Noted : n.error \in Errors
  BY DEF Noted
<1>2. \A v \in Event : v.error \in Errors
  BY DEF Event
<1>3. ErrorsOf(r.awaiting) \subseteq Errors
  <2>1. r.awaiting \in Seq(Noted)
    BY DEF Reporters
  <2> QED
    BY <1>1, <2>1 DEF ErrorsOf
<1>4. ErrorsOf(r.queue) \subseteq Errors
  <2>1. r.queue \in Seq(Event)
    BY DEF Reporters
  <2> QED
    BY <1>2, <2>1 DEF ErrorsOf
<1>5. \A q \in r.requests : ErrorsOf(q.batch) \subseteq Errors
  <2>1. \A q \in r.requests : q.batch \in Seq(Event)
    BY RequestTyped
  <2> QED
    BY <1>2, <2>1 DEF ErrorsOf
<1> QED
  BY <1>3, <1>4, <1>5 DEF Held, Pending

\* Names stay own, and errors dated, when only other errors are noted.
LEMMA OwnSame ==
    ASSUME NEW s, NEW m, NEW o, \A e \in ErrorsOf(s) : m[e] = o[e]
    PROVE  (Own(s, m) => Own(s, o)) /\ (Dated(s, m) => Dated(s, o))
BY DEF Own, Dated, ErrorsOf

\* The reporter stays fit when only errors are noted that it has not accepted.
LEMMA FitSame ==
    ASSUME NEW r \in Reporters, NEW m, NEW o, Fit(r, m), \A e \in r.accepted : m[e] = o[e]
    PROVE  Fit(r, o)
<1>1. Held(r) \subseteq r.accepted
  BY DEF Fit
<1>2. Dated(r.awaiting, o) /\ Own(r.queue, o)
  BY <1>1, HeldParts, OwnSame DEF Fit
<1>3. \A q \in r.requests : Sendable(q.batch, o)
  BY <1>1, HeldParts, OwnSame DEF Fit, Sendable
<1> QED
  BY <1>2, <1>3 DEF Fit

\* The batches that wait for a retry stay sendable then.
LEMMA AgainSame ==
    ASSUME NEW r, NEW m, NEW o, NEW rt, Again(r, m, rt), \A e \in r.accepted : m[e] = o[e]
    PROVE  Again(r, o, rt)
<1>1. \A b \in rt : Sendable(b, o)
  BY OwnSame DEF Again, Sendable
<1> QED
  BY <1>1 DEF Again

\* A set whose members are all the same has one or none.
LEMMA OneOrNone ==
    ASSUME NEW C, \A x, y \in C : x = y
    PROVE  (C = {} => Cardinality(C) = 0) /\ (C # {} => Cardinality(C) = 1)
<1>1. C = {} => Cardinality(C) = 0
  BY FS_EmptySet
<1>2. ASSUME NEW x \in C PROVE Cardinality(C) = 1
  <2>1. C = {x}
    OBVIOUS
  <2> QED
    BY <2>1, FS_Singleton
<1> QED
  BY <1>1, <1>2

\* A step of the reporter that keeps it fit counts the tries right: what it sent was
\* never sent before, and is in one request.
LEMMA BecomeKeeps ==
    ASSUME ReporterInv, NEW m, Again(reporter, m, retrying),
           NEW s, NEW X \in SUBSET Errors, Goes(reporter, s, X, m), Become(s),
           Apart(X, reporter.accepted), reporter.accepted \subseteq s.accepted,
           s.accepted \subseteq reporter.accepted \union X
    PROVE  /\ reporter' = s /\ tries' \in [Errors -> Nat]
           /\ Tried(s, retrying, tries') /\ Again(s, m, retrying)
<1> DEFINE fresh == s.requests \ reporter.requests
           C(e) == {q \in fresh : e \in ErrorsOf(q.batch)}
<1>1. reporter' = s /\ tries' = [e \in Errors |-> tries[e] + Cardinality(C(e))]
  BY DEF Become, Sent
<1>2. /\ s \in Reporters /\ Fit(s, m) /\ reporter.requests \subseteq s.requests
      /\ \A q \in fresh : q.again
      /\ Held(s) \subseteq Held(reporter) \union X
  BY DEF Goes, Follows
<1>3. /\ \A q, p \in s.requests : q # p => Apart(ErrorsOf(q.batch), ErrorsOf(p.batch))
      /\ \A q \in s.requests : Apart(ErrorsOf(q.batch), Pending(s))
      /\ Held(s) \subseteq s.accepted
  BY <1>2 DEF Fit
<1>4. ASSUME NEW e \in Errors
      PROVE  /\ C(e) = {} => tries'[e] = tries[e]
             /\ C(e) # {} => tries'[e] = tries[e] + 1
             /\ tries[e] \in Nat
  <2>1. /\ C(e) = {} => Cardinality(C(e)) = 0
        /\ C(e) # {} => Cardinality(C(e)) = 1
    <3>1. \A p, q \in C(e) : p = q
      BY <1>3 DEF Apart
    <3> HIDE DEF C
    <3> QED
      BY <3>1, OneOrNone
  <2>2. tries[e] \in Nat /\ tries'[e] = tries[e] + Cardinality(C(e))
    BY <1>1 DEF ReporterInv, ReporterTyped
  <2> HIDE DEF C
  <2> QED
    BY <2>1, <2>2
<1>5. tries' \in [Errors -> Nat]
  <2>1. \A e \in Errors : tries'[e] \in Nat
    BY <1>4
  <2> QED
    BY <1>1, <2>1
<1>6. \A q \in s.requests : /\ ErrorsOf(q.batch) \subseteq Held(s)
                            /\ ErrorsOf(q.batch) \subseteq Errors
  BY <1>2, HeldParts
<1>7. Pending(s) \subseteq Held(s) /\ Held(s) \subseteq Errors
  BY <1>2, HeldParts DEF Held
<1>8. \A e \in X : tries[e] = 0
  BY DEF ReporterInv, Tried, Apart
<1>9. ASSUME NEW e \in Held(s), \A q \in reporter.requests : e \notin ErrorsOf(q.batch)
      PROVE  tries[e] = 0
  <2>1. e \in Pending(reporter) \/ e \in X
    BY <1>2, <1>9 DEF Held
  <2> QED
    BY <1>8, <2>1 DEF ReporterInv, Tried
<1>10. \A e \in Pending(s) : tries'[e] = 0
  <2> SUFFICES ASSUME NEW e \in Pending(s) PROVE tries'[e] = 0
    OBVIOUS
  <2>1. e \in Errors /\ e \in Held(s) /\ \A q \in s.requests : e \notin ErrorsOf(q.batch)
    BY <1>3, <1>7 DEF Apart
  <2>2. C(e) = {} /\ tries[e] = 0
    BY <1>2, <1>9, <2>1
  <2> HIDE DEF C
  <2> QED
    BY <1>4, <2>1, <2>2
<1>11. ASSUME NEW q \in s.requests, NEW e \in ErrorsOf(q.batch)
       PROVE  tries'[e] = IF q.again THEN 1 ELSE 2
  <2>0. e \in Errors /\ e \in Held(s)
    BY <1>6
  <2>1. CASE q \in fresh
    <3>1. \A p \in reporter.requests : e \notin ErrorsOf(p.batch)
      BY <1>2, <1>3, <2>1 DEF Apart
    <3>2. tries[e] = 0 /\ q \in C(e) /\ q.again
      BY <1>2, <1>9, <2>0, <2>1, <3>1
    <3> HIDE DEF C
    <3>3. tries'[e] = tries[e] + 1
      BY <1>4, <2>0, <3>2
    <3> QED
      BY <3>2, <3>3
  <2>2. CASE q \in reporter.requests
    <3>1. C(e) = {}
      BY <1>2, <1>3, <2>2 DEF Apart
    <3> HIDE DEF C
    <3>2. tries'[e] = tries[e]
      BY <1>4, <2>0, <3>1
    <3> QED
      BY <2>2, <3>2 DEF ReporterInv, Tried
  <2> QED
    BY <2>1, <2>2
<1>12. Again(s, m, retrying)
  <2>1. \A b \in retrying : /\ ErrorsOf(b) \subseteq reporter.accepted
                            /\ Apart(ErrorsOf(b), Held(reporter))
    BY DEF Again
  <2>2. \A b \in retrying : Apart(ErrorsOf(b), Held(s)) /\ ErrorsOf(b) \subseteq s.accepted
    BY <1>2, <2>1 DEF Apart
  <2> QED
    BY <2>2 DEF Again
<1>13. ASSUME NEW e \in Errors, e \notin Held(s) PROVE tries'[e] = tries[e]
  <2>1. C(e) = {}
    BY <1>6, <1>13
  <2> HIDE DEF C
  <2> QED
    BY <1>4, <2>1
<1>14. \A b \in retrying : \A e \in ErrorsOf(b) : tries'[e] = 1
  <2>1. \A b \in retrying : \A e \in ErrorsOf(b) :
            e \in Errors /\ e \notin Held(s) /\ tries[e] = 1
    BY <1>12 DEF ReporterInv, ReporterTyped, Again, Apart, Tried, Reporters
  <2> QED
    BY <1>13, <2>1
<1>15. ASSUME NEW e \in Errors PROVE (e \notin s.accepted => tries'[e] = 0) /\ tries'[e] <= 2
  <2>1. CASE e \notin Held(s)
    <3>1. tries'[e] = tries[e] /\ tries[e] <= 2 /\ (e \notin reporter.accepted => tries[e] = 0)
      BY <1>13, <2>1 DEF ReporterInv, Tried
    <3> QED
      BY <3>1
  <2>2. CASE e \in Held(s)
    <3>1. e \in s.accepted
      BY <1>3, <2>2
    <3>2. CASE e \in Pending(s)
      BY <1>10, <3>1, <3>2
    <3>3. ASSUME NEW q \in s.requests, e \in ErrorsOf(q.batch) PROVE tries'[e] <= 2
      BY <1>11, <3>3
    <3> QED
      BY <2>2, <3>1, <3>2, <3>3 DEF Held
  <2> QED
    BY <2>1, <2>2
<1>16. Tried(s, retrying, tries')
  BY <1>10, <1>11, <1>14, <1>15 DEF Tried
<1> QED
  BY <1>1, <1>5, <1>12, <1>16

-----------------------------------------------------------------------------
(* One lemma for each action.                                              *)

\* A new error is reported, or buffered, or dropped when the buffer is full.
LEMMA NoteKeeps == ASSUME ReporterInv, NEW e \in Errors, Note(e) PROVE ReporterInv'
<1> DEFINE n == [error |-> e, epoch |-> epoch, stale |-> FALSE]
<1>1. /\ noted[e] = 0 /\ noted' = [noted EXCEPT ![e] = epoch]
      /\ UNCHANGED <<idle, retrying, settled, capped, epoch, visit, hides>>
  BY DEF Note
<1>2. n \in Noted /\ n.error = e /\ n.epoch = epoch
  BY DEF Noted, ReporterInv, ReporterTyped
<1>3. /\ noted' \in [Errors -> 0 .. MaxEpoch + 1] /\ noted'[e] = epoch /\ epoch # 0
      /\ \A x \in Errors \ {e} : noted'[x] = noted[x]
  BY <1>1, ErrorReporterAssumption DEF ReporterInv, ReporterTyped, Epochs
<1>4. e \notin reporter.accepted /\ reporter.accepted \subseteq Errors
  BY <1>1 DEF ReporterInv, Buffered, ReporterTyped, Reporters
<1>5. Fit(reporter, noted') /\ Again(reporter, noted', retrying)
  <2>1. \A x \in reporter.accepted : noted[x] = noted'[x]
    BY <1>3, <1>4
  <2> QED
    BY <2>1, FitSame, AgainSame DEF ReporterInv, ReporterTyped
<1>6. e \notin ErrorsOf(buffer) /\ ErrorsOf(buffer) \subseteq Errors
  <2>1. ASSUME NEW i \in DOMAIN buffer
        PROVE  buffer[i].error \in Errors /\ noted[buffer[i].error] # 0
    <3>1. buffer[i] \in Noted /\ buffer[i].epoch = noted[buffer[i].error]
      BY DEF ReporterInv, ReporterTyped, Buffered, Dated
    <3> QED
      BY <3>1, ErrorReporterAssumption DEF Noted, Epochs
  <2> QED
    BY <1>1, <2>1 DEF ErrorsOf
<1>7. Dated(buffer, noted')
  <2>1. \A x \in ErrorsOf(buffer) : noted[x] = noted'[x]
    BY <1>3, <1>6
  <2> QED
    BY <2>1, OwnSame DEF ReporterInv, Buffered
<1> HIDE DEF n
<1>8. CASE chunk = "loaded" /\ (\E consent \in BOOLEAN : Become(Report(reporter, n, consent)))
           /\ UNCHANGED <<chunk, buffer>>
  <2> PICK consent \in BOOLEAN : Become(Report(reporter, n, consent))
    BY <1>8
  <2> DEFINE s == Report(reporter, n, consent)
  <2>1. /\ Goes(reporter, s, {e}, noted') /\ reporter.accepted \subseteq s.accepted
        /\ s.accepted \subseteq reporter.accepted \union {e}
    <3>1. /\ epoch \in Epochs /\ reporter \in Reporters
          /\ n.epoch = noted'[n.error] /\ n.error \notin reporter.accepted
      BY <1>2, <1>3, <1>4 DEF ReporterInv, ReporterTyped
    <3>2. /\ Goes(reporter, s, {n.error}, noted') /\ reporter.accepted \subseteq s.accepted
          /\ s.accepted \subseteq reporter.accepted \union {n.error}
      BY <1>2, <1>5, <3>1, ReportFits
    <3> QED
      BY <1>2, <3>2
  <2>2. Become(s) /\ {e} \in SUBSET Errors /\ Apart({e}, reporter.accepted)
    BY <1>4 DEF Apart
  <2> HIDE DEF s
  <2>3. /\ reporter' = s /\ tries' \in [Errors -> Nat]
        /\ Tried(s, retrying, tries') /\ Again(s, noted', retrying)
    BY <1>5, <2>1, <2>2, BecomeKeeps
  <2>4. Buffered(buffer, s, noted')
    BY <1>3, <1>6, <1>7, <2>1 DEF ReporterInv, Buffered, Apart
  <2>5. ReporterTyped'
    BY <1>1, <1>3, <1>8, <2>1, <2>3 DEF ReporterInv, ReporterTyped, Goes
  <2>6. Fit(reporter', noted') /\ Tried(reporter', retrying', tries')
        /\ Again(reporter', noted', retrying') /\ Buffered(buffer', reporter', noted')
    BY <1>1, <1>8, <2>1, <2>3, <2>4 DEF Goes
  <2> QED
    BY <2>5, <2>6 DEF ReporterInv
<1>9. CASE /\ chunk' = "loading"
           /\ buffer' = IF Len(buffer) < BufferLimit THEN Append(buffer, n) ELSE buffer
           /\ UNCHANGED <<reporter, tries>>
  <2>1. /\ Buffered(buffer', reporter, noted')
        /\ buffer' \in Seq(Noted) /\ Len(buffer') <= BufferLimit
    <3>1. \A x \in Errors : noted'[x] = 0 => x \notin reporter.accepted
      BY <1>3, <1>4 DEF ReporterInv, Buffered
    <3>2. CASE Len(buffer) < BufferLimit
      <4>1. /\ buffer \in Seq(Noted) /\ Distinct(buffer)
            /\ Apart(ErrorsOf(buffer), reporter.accepted)
        BY DEF ReporterInv, ReporterTyped, Buffered
      <4>2. buffer' = Append(buffer, n)
        BY <1>9, <3>2
      <4>3. Distinct(buffer') /\ Dated(buffer', noted')
        BY <1>2, <1>3, <1>6, <1>7, <4>1, <4>2, DistinctAppended, DatedAppended
      <4>4. ErrorsOf(buffer') = ErrorsOf(buffer) \union {e}
        BY <1>2, <4>1, <4>2, ErrorsAppended
      <4>5. Apart(ErrorsOf(buffer'), reporter.accepted)
        BY <1>4, <4>1, <4>4 DEF Apart
      <4>6. buffer' \in Seq(Noted) /\ Len(buffer') = Len(buffer) + 1 /\ Len(buffer) \in Nat
        BY <1>2, <4>1, <4>2
      <4>7. Len(buffer') <= BufferLimit
        BY <3>2, <4>6, ErrorReporterAssumption
      <4> QED
        BY <3>1, <4>3, <4>5, <4>6, <4>7 DEF Buffered
    <3>3. CASE ~ (Len(buffer) < BufferLimit)
      BY <1>7, <1>9, <3>1, <3>3 DEF ReporterInv, ReporterTyped, Buffered
    <3> QED
      BY <3>2, <3>3
  <2>2. ReporterTyped'
    BY <1>1, <1>3, <1>9, <2>1 DEF ReporterInv, ReporterTyped
  <2>3. Fit(reporter', noted') /\ Tried(reporter', retrying', tries')
        /\ Again(reporter', noted', retrying') /\ Buffered(buffer', reporter', noted')
    BY <1>1, <1>5, <1>9, <2>1 DEF ReporterInv
  <2> QED
    BY <2>2, <2>3 DEF ReporterInv
<1> QED
  BY <1>8, <1>9 DEF Note, n

\* The other steps that only send what was never sent keep the invariant.
LEMMA ReportsKeep ==
    ASSUME ReporterInv, NEW s, NEW X \in SUBSET Errors, Goes(reporter, s, X, noted), Become(s),
           Apart(X, reporter.accepted), reporter.accepted \subseteq s.accepted,
           s.accepted \subseteq reporter.accepted \union X,
           UNCHANGED <<noted, retrying>>,
           Buffered(buffer', s, noted), buffer' \in Seq(Noted), Len(buffer') <= BufferLimit,
           chunk' \in {"no", "loading", "loaded"}, idle' \in BOOLEAN, settled' \in BOOLEAN,
           capped' \in BOOLEAN, epoch' = epoch, visit' = visit, hides' = hides
    PROVE  ReporterInv'
<1>1. Again(reporter, noted, retrying)
  BY DEF ReporterInv
<1>2. /\ reporter' = s /\ tries' \in [Errors -> Nat]
      /\ Tried(s, retrying, tries') /\ Again(s, noted, retrying)
  BY <1>1, BecomeKeeps
<1>3. ReporterTyped'
  BY <1>2 DEF ReporterInv, ReporterTyped, Goes
<1>4. Fit(reporter', noted') /\ Tried(reporter', retrying', tries')
      /\ Again(reporter', noted', retrying') /\ Buffered(buffer', reporter', noted')
  BY <1>2 DEF Goes
<1> QED
  BY <1>3, <1>4 DEF ReporterInv

\* The chunk loads, and takes the buffer.
LEMMA ChunkLoadsKeeps ==
    ASSUME ReporterInv, NEW consent \in BOOLEAN, NEW late \in BOOLEAN, ChunkLoads(consent, late)
    PROVE  ReporterInv'
<1> DEFINE s == Handed(consent, late)
           X == ErrorsOf(buffer)
<1>1. /\ chunk' = "loaded" /\ Become(s) /\ buffer' = <<>>
      /\ UNCHANGED <<noted, idle, retrying, settled, capped, epoch, visit, hides>>
  BY DEF ChunkLoads, Handed
<1>2. /\ reporter \in Reporters /\ epoch \in Epochs /\ Fit(reporter, noted)
      /\ buffer \in Seq(Noted)
      /\ Distinct(buffer) /\ Dated(buffer, noted) /\ Apart(X, reporter.accepted)
  BY DEF ReporterInv, ReporterTyped, Buffered
<1>3. /\ Goes(reporter, s, X, noted) /\ reporter.accepted \subseteq s.accepted
      /\ s.accepted \subseteq reporter.accepted \union X
  BY <1>2, HandedFits
<1> HIDE DEF s
<1>4. X \in SUBSET Errors /\ \A x \in X : noted[x] # 0
  <2>1. ASSUME NEW i \in DOMAIN buffer
        PROVE  buffer[i].error \in Errors /\ noted[buffer[i].error] # 0
    <3>1. buffer[i] \in Noted /\ buffer[i].epoch = noted[buffer[i].error]
      BY <1>2 DEF Dated
    <3> QED
      BY <3>1, ErrorReporterAssumption DEF Noted, Epochs
  <2> QED
    BY <2>1 DEF ErrorsOf
<1>5. Buffered(buffer', s, noted) /\ buffer' \in Seq(Noted) /\ Len(buffer') <= BufferLimit
  <2>1. Distinct(<<>>) /\ Dated(<<>>, noted) /\ ErrorsOf(<<>>) = {}
    BY DEF Distinct, Dated, ErrorsOf
  <2>2. \A x \in Errors : noted[x] = 0 => x \notin s.accepted
    BY <1>3, <1>4 DEF ReporterInv, Buffered
  <2>3. <<>> \in Seq(Noted) /\ Len(<<>>) <= BufferLimit
    BY ErrorReporterAssumption
  <2> QED
    BY <1>1, <2>1, <2>2, <2>3 DEF Buffered, Apart
<1> HIDE DEF X
<1>6. /\ chunk' \in {"no", "loading", "loaded"} /\ idle' \in BOOLEAN /\ settled' \in BOOLEAN
      /\ capped' \in BOOLEAN
  BY <1>1 DEF ReporterInv, ReporterTyped
<1> QED
  BY <1>1, <1>2, <1>3, <1>4, <1>5, <1>6, ReportsKeep

\* The steps that accept nothing.
LEMMA SameAccepted ==
    ASSUME ReporterInv, NEW s, Goes(reporter, s, {}, noted), Become(s),
           s.accepted = reporter.accepted,
           UNCHANGED <<noted, chunk, idle, buffer, retrying, epoch, visit, hides>>,
           settled' \in BOOLEAN, capped' \in BOOLEAN
    PROVE  ReporterInv'
<1>1. Buffered(buffer', s, noted)
  BY DEF ReporterInv, Buffered
<1>2. /\ buffer' \in Seq(Noted) /\ Len(buffer') <= BufferLimit
      /\ chunk' \in {"no", "loading", "loaded"} /\ idle' \in BOOLEAN
  BY DEF ReporterInv, ReporterTyped
<1>3. {} \in SUBSET Errors /\ Apart({}, reporter.accepted)
  BY DEF Apart
<1> QED
  BY <1>1, <1>2, <1>3, ReportsKeep

\* Analytics settles, or the cap comes.
LEMMA ReleaseKeeps ==
    ASSUME ReporterInv, (\E consent \in BOOLEAN : AnalyticsSettles(consent)) \/ Cap
    PROVE  ReporterInv'
<1>1. PICK told \in BOOLEAN :
         /\ Become(Release(told)) /\ settled' \in BOOLEAN /\ capped' \in BOOLEAN
         /\ UNCHANGED <<noted, chunk, idle, buffer, retrying, epoch, visit, hides>>
  <2>1. ASSUME NEW consent \in BOOLEAN, AnalyticsSettles(consent)
        PROVE  /\ Become(Release(consent)) /\ settled' \in BOOLEAN /\ capped' \in BOOLEAN
               /\ UNCHANGED <<noted, chunk, idle, buffer, retrying, epoch, visit, hides>>
    BY <2>1 DEF AnalyticsSettles, ReporterInv, ReporterTyped
  <2>2. CASE Cap
    BY <2>2 DEF Cap, ReporterInv, ReporterTyped
  <2> QED
    BY <2>1, <2>2
<1>2. Goes(reporter, Release(told), {}, noted) /\ Release(told).accepted = reporter.accepted
  BY ReleaseFits DEF ReporterInv, ReporterTyped
<1> QED
  BY <1>1, <1>2, SameAccepted

\* The flush timer fires.
LEMMA FlushKeeps == ASSUME ReporterInv, FlushTimer PROVE ReporterInv'
<1>1. /\ Become(Flush(reporter))
      /\ UNCHANGED <<noted, chunk, idle, buffer, retrying, settled, capped, epoch, visit, hides>>
  BY DEF FlushTimer
<1>2. Goes(reporter, Flush(reporter), {}, noted) /\ Flush(reporter).accepted = reporter.accepted
  BY FlushFits DEF ReporterInv, ReporterTyped, Goes
<1>3. settled' \in BOOLEAN /\ capped' \in BOOLEAN
  BY <1>1 DEF ReporterInv, ReporterTyped
<1> QED
  BY <1>1, <1>2, <1>3, SameAccepted

\* A request that has ended gives back what it held, and its errors are held no more.
LEMMA FinishFits ==
    ASSUME NEW r \in Reporters, NEW m, Fit(r, m), NEW q \in r.requests, NEW s,
           s = [r EXCEPT !.requests = @ \ {q}, !.keepalive = @ - q.keepalive]
    PROVE  /\ s \in Reporters /\ Fit(s, m) /\ s.accepted = r.accepted
           /\ s.requests = r.requests \ {q} /\ Pending(s) = Pending(r)
           /\ Held(s) \subseteq Held(r) /\ Apart(ErrorsOf(q.batch), Held(s))
<1> DEFINE R == r.requests \ {q}
<1>1. /\ IsFiniteSet(R) /\ r.requests = R \union {q} /\ q \notin R
      /\ \A p \in R : p.keepalive \in Nat
  <2>1. IsFiniteSet(R)
    BY FS_Subset DEF Fit
  <2> QED
    BY <2>1, RequestTyped
<1>2. q.keepalive \in Nat
  BY RequestTyped
<1> HIDE DEF R
<1>3. Keepalive(R) \in Nat /\ r.keepalive = Keepalive(R) + q.keepalive /\ r.keepalive <= Quota
  BY <1>1, <1>2, KeepaliveMore DEF Fit
<1>4. r.keepalive - q.keepalive = Keepalive(R) /\ Keepalive(R) <= Quota
  BY <1>2, <1>3, ErrorReporterAssumption
<1>5. /\ s \in Reporters /\ s.queue = r.queue /\ s.accepted = r.accepted
      /\ s.awaiting = r.awaiting /\ s.requests = R /\ s.keepalive = Keepalive(R)
  <2>1. R \subseteq r.requests
    BY <1>1
  <2> QED
    BY <1>3, <1>4, <2>1 DEF Reporters, R
<1>6. Pending(s) = Pending(r)
  BY <1>5 DEF Pending
<1>7. Held(s) = Pending(r) \union Carried(R) /\ Held(s) \subseteq Held(r)
  BY <1>1, <1>5, <1>6 DEF Held, Carried
<1>8. Apart(ErrorsOf(q.batch), Pending(r)) /\ Apart(ErrorsOf(q.batch), Carried(R))
  <2>1. \A p \in R : Apart(ErrorsOf(q.batch), ErrorsOf(p.batch))
    BY <1>1 DEF Fit
  <2> QED
    BY <2>1 DEF Fit, Apart, Carried
<1>9. Fit(s, m)
  BY <1>1, <1>3, <1>4, <1>5, <1>6, <1>7 DEF Fit
<1> QED
  BY <1>5, <1>6, <1>7, <1>8, <1>9 DEF Apart, R

\* An answered batch is forgotten; a failed one may wait for its retry.
LEMMA FinishKeeps ==
    ASSUME ReporterInv, NEW q \in reporter.requests, Answered(q) \/ Failed(q)
    PROVE  ReporterInv'
<1> DEFINE s == [reporter EXCEPT !.requests = @ \ {q}, !.keepalive = @ - q.keepalive]
<1>1. /\ reporter' = s
      /\ \/ retrying' = retrying
         \/ q.again /\ retrying' = retrying \union {q.batch}
      /\ UNCHANGED <<noted, chunk, idle, buffer, settled, capped, epoch, visit, hides, tries>>
  BY DEF Answered, Failed, Finished, GivenBack
<1>2. /\ s \in Reporters /\ Fit(s, noted) /\ s.accepted = reporter.accepted
      /\ s.requests = reporter.requests \ {q} /\ Pending(s) = Pending(reporter)
      /\ Held(s) \subseteq Held(reporter) /\ Apart(ErrorsOf(q.batch), Held(s))
  BY FinishFits DEF ReporterInv, ReporterTyped
<1> HIDE DEF s
<1>3. /\ q.batch \in Seq(Event) /\ Sendable(q.batch, noted)
      /\ ErrorsOf(q.batch) \subseteq Held(reporter)
      /\ ErrorsOf(q.batch) \subseteq reporter.accepted
  BY RequestTyped, HeldParts DEF ReporterInv, ReporterTyped, Fit
<1>4. \A b \in retrying' : b \in Seq(Event)
  BY <1>1, <1>3 DEF ReporterInv, ReporterTyped
<1>5. ReporterTyped'
  BY <1>1, <1>2, <1>4 DEF ReporterInv, ReporterTyped
<1>6. Tried(s, retrying', tries)
  BY <1>1, <1>2 DEF ReporterInv, Tried
<1>7. Again(s, noted, retrying')
  <2>1. \A b \in retrying : /\ Sendable(b, noted) /\ ErrorsOf(b) \subseteq s.accepted
                            /\ Apart(ErrorsOf(b), Held(s))
                            /\ Apart(ErrorsOf(b), ErrorsOf(q.batch))
    BY <1>2, <1>3 DEF ReporterInv, Again, Apart
  <2>2. \A b, c \in retrying' : b # c => Apart(ErrorsOf(b), ErrorsOf(c))
    BY <1>1, <2>1 DEF ReporterInv, Again, Apart
  <2>3. \A b \in retrying' : Sendable(b, noted) /\ ErrorsOf(b) \subseteq s.accepted
                             /\ Apart(ErrorsOf(b), Held(s))
    BY <1>1, <1>2, <1>3, <2>1
  <2> QED
    BY <2>2, <2>3 DEF Again
<1>8. Buffered(buffer, s, noted)
  BY <1>2 DEF ReporterInv, Buffered
<1> QED
  BY <1>1, <1>2, <1>5, <1>6, <1>7, <1>8 DEF ReporterInv

\* A retry sends a batch for the second and last time.
LEMMA RetryKeeps ==
    ASSUME ReporterInv, NEW b \in retrying, RetryTimer(b)
    PROVE  ReporterInv'
<1> DEFINE s == Send(reporter, b, FALSE)
<1>1. /\ retrying' = retrying \ {b} /\ Become(s)
      /\ UNCHANGED <<noted, chunk, idle, buffer, settled, capped, epoch, visit, hides>>
  BY DEF RetryTimer
<1>2. /\ reporter \in Reporters /\ Fit(reporter, noted) /\ b \in Seq(Event) /\ Sendable(b, noted)
      /\ ErrorsOf(b) \subseteq reporter.accepted /\ Apart(ErrorsOf(b), Held(reporter))
  BY DEF ReporterInv, ReporterTyped, Again
<1>3. Sends(reporter, s, b, FALSE, noted)
  BY <1>2, SendFits
<1> HIDE DEF s
<1>4. PICK q : /\ q \notin reporter.requests /\ s.requests = reporter.requests \union {q}
               /\ q.batch = b /\ q.again = FALSE
  BY <1>3 DEF Sends
<1>5. /\ s \in Reporters /\ Fit(s, noted)
      /\ s.accepted = reporter.accepted /\ Pending(s) = Pending(reporter)
      /\ Held(s) = Held(reporter) \union ErrorsOf(b)
  BY <1>3 DEF Sends, Pending
<1> DEFINE fresh == s.requests \ reporter.requests
           C(e) == {p \in fresh : e \in ErrorsOf(p.batch)}
<1>6. reporter' = s /\ tries' = [e \in Errors |-> tries[e] + Cardinality(C(e))]
  BY <1>1 DEF Become, Sent
<1>7. fresh = {q}
  BY <1>4
<1> HIDE DEF fresh
<1>8. ASSUME NEW e \in Errors
      PROVE  /\ e \in ErrorsOf(b) => tries'[e] = tries[e] + 1
             /\ e \notin ErrorsOf(b) => tries'[e] = tries[e]
             /\ tries[e] \in Nat
  <2>1. tries[e] \in Nat /\ tries'[e] = tries[e] + Cardinality(C(e))
    BY <1>6 DEF ReporterInv, ReporterTyped
  <2>2. e \in ErrorsOf(b) => C(e) = {q}
    BY <1>4, <1>7
  <2>3. e \notin ErrorsOf(b) => C(e) = {}
    BY <1>4, <1>7
  <2> HIDE DEF C
  <2>4. Cardinality({q}) = 1 /\ Cardinality({}) = 0
    BY FS_Singleton, FS_EmptySet
  <2> QED
    BY <2>1, <2>2, <2>3, <2>4
<1>9. \A e \in ErrorsOf(b) : e \in Errors /\ tries[e] = 1 /\ tries'[e] = 2
  <2>1. ErrorsOf(b) \subseteq Errors
    BY <1>2 DEF Reporters
  <2>2. \A e \in ErrorsOf(b) : tries[e] = 1
    BY DEF ReporterInv, Tried
  <2> QED
    BY <1>8, <2>1, <2>2
<1>10. tries' \in [Errors -> Nat]
  <2>1. \A e \in Errors : tries'[e] \in Nat
    BY <1>8
  <2> QED
    BY <1>6, <2>1
<1>11. Held(reporter) \subseteq Errors /\ Pending(reporter) \subseteq Held(reporter)
       /\ \A p \in reporter.requests : ErrorsOf(p.batch) \subseteq Held(reporter)
  BY <1>2, HeldParts DEF Held
<1>12. \A e \in Held(reporter) : e \in Errors /\ tries'[e] = tries[e]
  BY <1>2, <1>8, <1>11 DEF Apart
<1>13. \A c \in retrying' : \A e \in ErrorsOf(c) : tries'[e] = 1
  <2>1. \A c \in retrying' : c \in retrying /\ Apart(ErrorsOf(c), ErrorsOf(b))
                             /\ ErrorsOf(c) \subseteq Errors
    BY <1>1, <1>2 DEF ReporterInv, Again, Reporters
  <2>2. \A c \in retrying' : \A e \in ErrorsOf(c) : tries[e] = 1 /\ e \notin ErrorsOf(b)
    BY <2>1 DEF ReporterInv, Tried, Apart
  <2> QED
    BY <1>8, <2>1, <2>2
<1>14. Tried(s, retrying', tries')
  <2>1. \A e \in Pending(s) : tries'[e] = 0
    BY <1>5, <1>11, <1>12 DEF ReporterInv, Tried
  <2>2. \A p \in s.requests : \A e \in ErrorsOf(p.batch) : tries'[e] = IF p.again THEN 1 ELSE 2
    BY <1>4, <1>9, <1>11, <1>12 DEF ReporterInv, Tried
  <2>3. \A e \in Errors : (e \notin s.accepted => tries'[e] = 0) /\ tries'[e] <= 2
    BY <1>2, <1>5, <1>8, <1>9 DEF ReporterInv, Tried
  <2> QED
    BY <1>13, <2>1, <2>2, <2>3 DEF Tried
<1>15. Again(s, noted, retrying')
  <2>1. \A c \in retrying' : c \in retrying /\ c # b
    BY <1>1
  <2> QED
    BY <1>5, <2>1 DEF ReporterInv, Again, Apart
<1>16. ReporterTyped'
  BY <1>1, <1>5, <1>6, <1>10 DEF ReporterInv, ReporterTyped
<1>17. Buffered(buffer, s, noted)
  BY <1>5 DEF ReporterInv, Buffered
<1> QED
  BY <1>1, <1>5, <1>6, <1>14, <1>15, <1>16, <1>17 DEF ReporterInv

\* A distinct sequence has an error once or not at all.
LEMMA OnceIn ==
    ASSUME NEW s, Distinct(s), NEW e
    PROVE  LET C == {i \in DOMAIN s : s[i].error = e} IN
           /\ e \in ErrorsOf(s) => Cardinality(C) = 1
           /\ e \notin ErrorsOf(s) => Cardinality(C) = 0
<1> DEFINE C == {i \in DOMAIN s : s[i].error = e}
<1>1. \A x, y \in C : x = y
  BY DEF Distinct
<1>2. e \in ErrorsOf(s) <=> C # {}
  BY DEF ErrorsOf
<1> HIDE DEF C
<1>3. (C = {} => Cardinality(C) = 0) /\ (C # {} => Cardinality(C) = 1)
  BY <1>1, OneOrNone
<1> QED
  BY <1>2, <1>3 DEF C

\* An error that waits for its identity, for a request or for a retry is beaconed once.
LEMMA UnsentOnce ==
    ASSUME ReporterInv, NEW e
    PROVE  LET again == \E b \in retrying : e \in ErrorsOf(b) IN
           /\ e \in Pending(reporter) \/ again => Unsent(e) = 1
           /\ ~ (e \in Pending(reporter) \/ again) => Unsent(e) = 0
           /\ ~ (e \in Pending(reporter) /\ again)
<1> DEFINE again == \E b \in retrying : e \in ErrorsOf(b)
           C == {b \in retrying : e \in ErrorsOf(b)}
           W(s) == Cardinality({i \in DOMAIN s : s[i].error = e})
<1>1. Unsent(e) = W(reporter.queue) + W(reporter.awaiting) + Cardinality(C)
  BY DEF Unsent
<1>2. /\ e \in ErrorsOf(reporter.queue) => W(reporter.queue) = 1
      /\ e \notin ErrorsOf(reporter.queue) => W(reporter.queue) = 0
      /\ e \in ErrorsOf(reporter.awaiting) => W(reporter.awaiting) = 1
      /\ e \notin ErrorsOf(reporter.awaiting) => W(reporter.awaiting) = 0
  <2>1. Distinct(reporter.queue) /\ Distinct(reporter.awaiting)
    BY DEF ReporterInv, Fit
  <2> QED
    BY <2>1, OnceIn
<1>3. (again => Cardinality(C) = 1) /\ (~again => Cardinality(C) = 0)
  <2>1. \A b, c \in C : b = c
    BY DEF ReporterInv, Again, Apart
  <2>2. again <=> C # {}
    OBVIOUS
  <2> HIDE DEF C, again
  <2> QED
    BY <2>1, <2>2, OneOrNone
<1>4. ~ (e \in ErrorsOf(reporter.queue) /\ e \in ErrorsOf(reporter.awaiting))
  BY DEF ReporterInv, Fit, Apart
<1>5. ~ (e \in Pending(reporter) /\ again)
  BY DEF ReporterInv, Again, Apart, Held
<1>6. e \in Pending(reporter)
          <=> e \in ErrorsOf(reporter.queue) \/ e \in ErrorsOf(reporter.awaiting)
  BY DEF Pending
<1> HIDE DEF C, W, again
<1>7. /\ e \in Pending(reporter) \/ again => Unsent(e) = 1
      /\ ~ (e \in Pending(reporter) \/ again) => Unsent(e) = 0
  BY <1>1, <1>2, <1>3, <1>4, <1>5, <1>6
<1> QED
  BY <1>5, <1>7 DEF again

\* A hidden page beacons everything that waits: once what was never sent, and for the
\* second time what waits for its retry.
LEMMA HideKeeps == ASSUME ReporterInv, PageHide PROVE ReporterInv'
<1> DEFINE s == Hidden
           Retried(e) == \E b \in retrying : e \in ErrorsOf(b)
<1>1. /\ reporter' = s /\ retrying' = {} /\ hides' = hides + 1 /\ hides < MaxHides
      /\ tries' = [e \in Errors |-> tries[e] + Unsent(e)]
      /\ UNCHANGED <<noted, chunk, idle, buffer, settled, capped, epoch, visit>>
  BY DEF PageHide
<1>2. reporter \in Reporters /\ Fit(reporter, noted)
  BY DEF ReporterInv, ReporterTyped
<1>3. /\ s \in Reporters /\ s.queue = <<>> /\ s.awaiting = <<>> /\ s.accepted = reporter.accepted
      /\ s.requests = reporter.requests /\ s.keepalive = reporter.keepalive
  <2>1. <<>> \in Seq(Event) /\ <<>> \in Seq(Noted)
    OBVIOUS
  <2> QED
    BY <1>2, <2>1 DEF Hidden, Reporters
<1> HIDE DEF s
<1>4. Pending(s) = {} /\ Held(s) = Carried(reporter.requests) /\ Held(s) \subseteq Held(reporter)
  BY <1>3 DEF Pending, Held, Carried, ErrorsOf
<1>5. Fit(s, noted)
  <2>1. /\ Distinct(s.awaiting) /\ Dated(s.awaiting, noted)
        /\ Distinct(s.queue) /\ Own(s.queue, noted)
    BY <1>3 DEF Distinct, Dated, Own
  <2>2. Apart(ErrorsOf(s.awaiting), ErrorsOf(s.queue))
    BY <1>3 DEF Apart, ErrorsOf
  <2>3. \A q \in s.requests : Sendable(q.batch, noted) /\ Apart(ErrorsOf(q.batch), Pending(s))
    BY <1>2, <1>3, <1>4 DEF Fit, Apart
  <2>4. Held(s) \subseteq s.accepted
    BY <1>2, <1>3, <1>4 DEF Fit
  <2> QED
    BY <1>2, <1>3, <2>1, <2>2, <2>3, <2>4 DEF Fit
<1>6. ASSUME NEW e \in Errors
      PROVE  /\ e \in Pending(reporter) \/ Retried(e) => tries'[e] = tries[e] + 1
             /\ ~ (e \in Pending(reporter) \/ Retried(e)) => tries'[e] = tries[e]
             /\ tries[e] \in Nat
  <2>1. tries[e] \in Nat /\ tries'[e] = tries[e] + Unsent(e)
    BY <1>1 DEF ReporterInv, ReporterTyped
  <2>2. /\ e \in Pending(reporter) \/ Retried(e) => Unsent(e) = 1
        /\ ~ (e \in Pending(reporter) \/ Retried(e)) => Unsent(e) = 0
    BY UnsentOnce
  <2> HIDE DEF Retried
  <2> QED
    BY <2>1, <2>2
<1>7. tries' \in [Errors -> Nat]
  <2>1. \A e \in Errors : tries'[e] \in Nat
    <3> HIDE DEF Retried
    <3> QED
      BY <1>6
  <2> QED
    BY <1>1, <2>1
<1>8. ASSUME NEW e \in Held(s)
      PROVE  e \in Errors /\ tries'[e] = tries[e]
  <2>1. e \in Errors /\ e \in Held(reporter)
    BY <1>2, <1>4, HeldParts
  <2>2. e \notin Pending(reporter)
    BY <1>2, <1>4 DEF Fit, Apart, Carried
  <2>3. ~Retried(e)
    BY <2>1 DEF ReporterInv, Again, Apart
  <2> HIDE DEF Retried
  <2> QED
    BY <1>6, <2>1, <2>2, <2>3
<1>9. ASSUME NEW e \in Errors
      PROVE  (e \notin s.accepted => tries'[e] = 0) /\ tries'[e] <= 2
  <2>1. /\ e \in Pending(reporter) => tries[e] = 0
        /\ Retried(e) => tries[e] = 1
        /\ e \notin reporter.accepted => tries[e] = 0
        /\ tries[e] <= 2
    BY DEF ReporterInv, Tried
  <2>2. e \in Pending(reporter) \/ Retried(e) => e \in reporter.accepted
    BY <1>2 DEF ReporterInv, Again, Fit, Held
  <2> HIDE DEF Retried
  <2> QED
    BY <1>3, <1>6, <2>1, <2>2
<1>10. Tried(s, {}, tries')
  <2>1. \A q \in s.requests : \A e \in ErrorsOf(q.batch) : e \in Held(s)
    BY DEF Held
  <2>2. \A q \in s.requests : \A e \in ErrorsOf(q.batch) : tries'[e] = IF q.again THEN 1 ELSE 2
    BY <1>3, <1>8, <2>1 DEF ReporterInv, Tried
  <2> QED
    BY <1>4, <1>9, <2>2 DEF Tried
<1>11. Again(s, noted, {})
  BY DEF Again
<1>12. Buffered(buffer, s, noted)
  BY <1>3 DEF ReporterInv, Buffered
<1>13. hides' \in 0 .. MaxHides
  BY <1>1, ErrorReporterAssumption DEF ReporterInv, ReporterTyped
<1>14. ReporterTyped'
  BY <1>1, <1>3, <1>7, <1>13 DEF ReporterInv, ReporterTyped
<1> QED
  BY <1>1, <1>5, <1>10, <1>11, <1>12, <1>14 DEF ReporterInv

\* The other steps leave the errors where they are.
LEMMA RestKeeps ==
    ASSUME ReporterInv, IdleLoad \/ ChunkFails \/ NewEpoch \/ Unload \/ UNCHANGED reporterVars
    PROVE  ReporterInv'
<1>1. UNCHANGED <<noted, buffer, reporter, retrying, tries>>
  BY DEF IdleLoad, ChunkFails, NewEpoch, Unload, reporterVars
<1>2. /\ chunk' \in {"no", "loading", "loaded"} /\ idle' \in BOOLEAN /\ settled' \in BOOLEAN
      /\ capped' \in BOOLEAN /\ visit' \in {"open", "gone"} /\ hides' \in 0 .. MaxHides
  BY DEF IdleLoad, ChunkFails, NewEpoch, Unload, reporterVars, ReporterInv, ReporterTyped
<1>3. epoch' \in Epochs
  <2>1. CASE NewEpoch
    BY <2>1, ErrorReporterAssumption DEF NewEpoch, ReporterInv, ReporterTyped, Epochs
  <2>2. CASE ~NewEpoch
    BY <2>2 DEF IdleLoad, ChunkFails, Unload, reporterVars, ReporterInv, ReporterTyped
  <2> QED
    BY <2>1, <2>2
<1>4. ReporterTyped'
  BY <1>1, <1>2, <1>3 DEF ReporterInv, ReporterTyped
<1> QED
  BY <1>1, <1>4 DEF ReporterInv

\* A new document holds no error.
LEMMA ReporterInvInit == ReporterInit => ReporterInv
<1> SUFFICES ASSUME ReporterInit PROVE ReporterInv
  OBVIOUS
<1> DEFINE r == [accepted |-> {}, awaiting |-> <<>>, queue |-> <<>>, timer |-> FALSE,
                 requests |-> {}, keepalive |-> 0]
<1>1. /\ noted = [e \in Errors |-> 0] /\ chunk = "no" /\ idle = TRUE /\ buffer = <<>>
      /\ reporter = r
      /\ retrying = {} /\ settled = FALSE /\ capped = FALSE /\ epoch = 1
      /\ visit = "open" /\ hides = 0
      /\ tries = [e \in Errors |-> 0]
  BY DEF ReporterInit
<1>2. /\ r \in Reporters
      /\ r.accepted = {} /\ r.awaiting = <<>> /\ r.queue = <<>> /\ r.requests = {}
      /\ r.keepalive = 0
  <2>1. <<>> \in Seq(Event) /\ <<>> \in Seq(Noted)
    OBVIOUS
  <2> QED
    BY <2>1 DEF Reporters
<1> HIDE DEF r
<1>3. Pending(r) = {} /\ Held(r) = {}
  BY <1>2 DEF Pending, Held, ErrorsOf
<1>4. Fit(r, noted)
  <2>1. IsFiniteSet(r.requests) /\ r.keepalive = Keepalive(r.requests) /\ r.keepalive <= Quota
    BY <1>2, KeepaliveNone, FS_EmptySet, ErrorReporterAssumption
  <2>2. Cardinality(r.accepted) <= PageLimit
    BY <1>2, FS_EmptySet, ErrorReporterAssumption
  <2>3. /\ Distinct(r.awaiting) /\ Dated(r.awaiting, noted)
        /\ Distinct(r.queue) /\ Own(r.queue, noted)
        /\ Apart(ErrorsOf(r.awaiting), ErrorsOf(r.queue))
    BY <1>2 DEF Distinct, Dated, Own, Apart, ErrorsOf
  <2> QED
    BY <1>2, <1>3, <2>1, <2>2, <2>3 DEF Fit
<1>5. Tried(r, retrying, tries)
  BY <1>1, <1>2, <1>3 DEF Tried
<1>6. Again(r, noted, retrying)
  BY <1>1 DEF Again
<1>7. Buffered(buffer, r, noted)
  BY <1>1, <1>2 DEF Buffered, Distinct, Dated, Apart
<1>8. ReporterTyped
  <2>1. buffer \in Seq(Noted) /\ Len(buffer) <= BufferLimit
    BY <1>1, ErrorReporterAssumption
  <2>2. epoch \in Epochs /\ hides \in 0 .. MaxHides /\ noted \in [Errors -> 0 .. MaxEpoch + 1]
    BY <1>1, ErrorReporterAssumption DEF Epochs
  <2> QED
    BY <1>1, <1>2, <2>1, <2>2 DEF ReporterTyped
<1> QED
  BY <1>1, <1>4, <1>5, <1>6, <1>7, <1>8 DEF ReporterInv

\* Every step keeps every error in one place.
LEMMA ReporterInvStep == ReporterInv /\ [ReporterNext]_reporterVars => ReporterInv'
<1> SUFFICES ASSUME ReporterInv, [ReporterNext]_reporterVars PROVE ReporterInv'
  OBVIOUS
<1>1. ASSUME NEW e \in Errors, Note(e) PROVE ReporterInv'
  BY <1>1, NoteKeeps
<1>2. CASE IdleLoad \/ ChunkFails \/ NewEpoch \/ Unload \/ UNCHANGED reporterVars
  BY <1>2, RestKeeps
<1>3. CASE Cap \/ \E consent \in BOOLEAN : AnalyticsSettles(consent)
  BY <1>3, ReleaseKeeps
<1>4. CASE FlushTimer
  BY <1>4, FlushKeeps
<1>5. CASE PageHide
  BY <1>5, HideKeeps
<1>6. ASSUME NEW consent \in BOOLEAN, NEW late \in BOOLEAN, ChunkLoads(consent, late)
      PROVE  ReporterInv'
  BY <1>6, ChunkLoadsKeeps
<1>7. ASSUME NEW r \in reporter.requests, Answered(r) \/ Failed(r) PROVE ReporterInv'
  BY <1>7, FinishKeeps
<1>8. ASSUME NEW b \in retrying, RetryTimer(b) PROVE ReporterInv'
  BY <1>8, RetryKeeps
<1> QED
  BY <1>1, <1>2, <1>3, <1>4, <1>5, <1>6, <1>7, <1>8 DEF ReporterNext

\* Every error is in one place at most, and was tried as often as that place says.
THEOREM ReporterInductive == ReporterSpec => []ReporterInv
BY ReporterInvInit, ReporterInvStep, PTL DEF ReporterSpec

\* The keepalive bytes counted are those in flight, within the quota, and the batches
\* keep to their limits (takeBatch, send).
THEOREM ReporterBytesKept == ReporterSpec => []BytesKept
<1>1. ReporterInv => BytesKept
  <2> SUFFICES ASSUME ReporterInv PROVE BytesKept
    OBVIOUS
  <2>1. ReporterTypeOK
    BY ErrorReporterAssumption DEF ReporterInv, ReporterTyped, Fit, Reporters, ReporterTypeOK
  <2>2. reporter.keepalive = Keepalive(reporter.requests)
    BY DEF ReporterInv, Fit
  <2>3. \A b \in retrying \union {q.batch : q \in reporter.requests} : Batch(b)
    BY DEF ReporterInv, Fit, Again, Sendable
  <2> QED
    BY <2>1, <2>2, <2>3 DEF BytesKept
<1> QED
  BY <1>1, ReporterInductive, PTL

\* No error leaves the page more than twice, whatever fails, retries or is hidden.
THEOREM ReporterTwiceAtMost == ReporterSpec => []TwiceAtMost
<1>1. ReporterInv => TwiceAtMost
  BY DEF ReporterInv, Tried, TwiceAtMost
<1> QED
  BY <1>1, ReporterInductive, PTL

\* No event carries the identity of another person or tenant than was there when its
\* error was noted.
THEOREM ReporterOwnName == ReporterSpec => []OwnName
<1>1. ReporterInv => OwnName
  <2> SUFFICES ASSUME ReporterInv PROVE OwnName
    OBVIOUS
  <2>1. Own(reporter.queue, noted)
    BY DEF ReporterInv, Fit
  <2>2. \A b \in retrying \union {q.batch : q \in reporter.requests} : Own(b, noted)
    BY DEF ReporterInv, Fit, Again, Sendable
  <2>3. ASSUME NEW b, Own(b, noted), NEW ev \in ToSet(b)
        PROVE  ev.name \in {Anonymous, noted[ev.error]}
    BY <2>3 DEF Own, ToSet
  <2> QED
    BY <2>1, <2>2, <2>3 DEF OwnName
<1> QED
  BY <1>1, ReporterInductive, PTL
=============================================================================
