----------------------- MODULE AnalyticsIdentity_proofs -----------------------
(***************************************************************************)
(* Why a tab's events are its own user's, and whose identity a repair may   *)
(* take, for any tabs, people and outside acts: a queue of commands leads   *)
(* from the person analytics holds to the user the store holds, a plan of   *)
(* storage operations has one of a few shapes, an identity that a page has  *)
(* not seen is on its way out of it, and an identity that is not the tab's  *)
(* own is one that it was told of.                                          *)
(***************************************************************************)
EXTENDS AnalyticsIdentity, SequenceTheorems, TLAPS

-----------------------------------------------------------------------------
(* Short sequences. *)

\* Two short sequences make a longer one.
LEMMA Joined ==
    ASSUME NEW a, NEW b, NEW c PROVE <<a>> \o <<b, c>> = <<a, b, c>> /\ <<a>> \o <<b>> = <<a, b>>
<1> DEFINE S == {a, b, c}
<1>1. /\ <<a>> \in Seq(S) /\ <<b>> \in Seq(S) /\ <<a, b>> \in Seq(S)
      /\ <<b, c>> \in Seq(S) /\ <<a, b, c>> \in Seq(S)
  OBVIOUS
<1> HIDE DEF S
<1>2. /\ <<a>> \o <<b>> \in Seq(S) /\ Len(<<a>> \o <<b>>) = 2
      /\ \A i \in 1 .. 2 : (<<a>> \o <<b>>)[i] = <<a, b>>[i]
      /\ <<a>> \o <<b, c>> \in Seq(S) /\ Len(<<a>> \o <<b, c>>) = 3
      /\ \A i \in 1 .. 3 : (<<a>> \o <<b, c>>)[i] = <<a, b, c>>[i]
  BY <1>1, ConcatProperties
<1> QED
  BY <1>1, <1>2, SeqEqual, ZenonT(60)

\* Two pairs make four.
LEMMA PairsJoined ==
    ASSUME NEW a, NEW b, NEW c, NEW d PROVE <<a, b>> \o <<c, d>> = <<a, b, c, d>>
<1> DEFINE S == {a, b, c, d}
<1>1. <<a, b>> \in Seq(S) /\ <<c, d>> \in Seq(S) /\ <<a, b, c, d>> \in Seq(S)
  OBVIOUS
<1> HIDE DEF S
<1>2. /\ <<a, b>> \o <<c, d>> \in Seq(S) /\ Len(<<a, b>> \o <<c, d>>) = 4
      /\ \A i \in 1 .. 4 : (<<a, b>> \o <<c, d>>)[i] = <<a, b, c, d>>[i]
  BY <1>1, ConcatProperties
<1> QED
  BY <1>1, <1>2, SeqEqual

\* And the empty one changes nothing.
LEMMA EmptyJoined ==
    ASSUME NEW S, NEW q \in Seq(S)
    PROVE  <<>> \o q = q /\ q \o <<>> = q
BY ConcatEmptySeq

\* The first of two sequences is the first of the first.
LEMMA HeadJoined ==
    ASSUME NEW S, NEW q \in Seq(S), NEW r \in Seq(S), q # <<>>
    PROVE  q \o r # <<>> /\ Head(q \o r) = Head(q)
<1>1. Len(q) \in Nat \ {0} /\ Len(r) \in Nat
  OBVIOUS
<1>2. q \o r \in Seq(S) /\ Len(q \o r) = Len(q) + Len(r) /\ (q \o r)[1] = q[1]
  BY <1>1, ConcatProperties
<1>3. q \o r # <<>>
  BY <1>1, <1>2
<1> QED
  BY <1>2, <1>3

\* A short sequence is one of its members' kind.
LEMMA ShortTyped ==
    ASSUME NEW S, NEW a \in S, NEW b \in S, NEW c \in S, NEW d \in S
    PROVE  /\ <<>> \in Seq(S) /\ <<a>> \in Seq(S) /\ <<a, b>> \in Seq(S)
           /\ <<a, b, c>> \in Seq(S) /\ <<a, b, c, d>> \in Seq(S)
OBVIOUS

\* What is left of a short sequence.
LEMMA Tails ==
    ASSUME NEW a, NEW b, NEW c, NEW d
    PROVE  /\ Tail(<<a>>) = <<>> /\ Tail(<<a, b>>) = <<b>>
           /\ Tail(<<a, b, c>>) = <<b, c>> /\ Tail(<<a, b, c, d>>) = <<b, c, d>>
OBVIOUS

-----------------------------------------------------------------------------
(* What a command plans. *)

\* The operations that are left of a tab's plan, by whom it is signed in as.
Plans(u) ==
    IF u = Nobody
    THEN {<<>>, <<<<"reset", Nobody>>>>} \union
         {<<<<"unregister", x>>>> : x \in People} \union
         {<<<<"unregister", x>>, <<"reset", Nobody>>>> : x \in People}
    ELSE {<<>>, <<<<"identify", u>>>>, <<<<"register", u>>, <<"identify", u>>>>,
          <<<<"reset", Nobody>>, <<"register", u>>, <<"identify", u>>>>} \union
         {<<<<"unregister", x>>, <<"reset", Nobody>>, <<"register", u>>, <<"identify", u>>>>
            : x \in People}

\* A plan that goes on is a plan.
LEMMA PlansGoOn ==
    ASSUME NEW u, NEW p \in Plans(u), p # <<>>
    PROVE  Tail(p) \in Plans(u)
<1>1. CASE u = Nobody
  <2>1. CASE p = <<<<"reset", Nobody>>>>
    BY <1>1, <2>1, Tails DEF Plans
  <2>2. CASE \E x \in People : p = <<<<"unregister", x>>>>
    BY <1>1, <2>2, Tails DEF Plans
  <2>3. ASSUME NEW x \in People, p = <<<<"unregister", x>>, <<"reset", Nobody>>>>
        PROVE  Tail(p) \in Plans(u)
    BY <1>1, <2>3, Tails DEF Plans
  <2> QED
    BY <1>1, <2>1, <2>2, <2>3 DEF Plans
<1>2. CASE u # Nobody
  <2>1. CASE p = <<<<"identify", u>>>>
    BY <1>2, <2>1, Tails DEF Plans
  <2>4. CASE p = <<<<"register", u>>, <<"identify", u>>>>
    BY <1>2, <2>4, Tails DEF Plans
  <2>2. CASE p = <<<<"reset", Nobody>>, <<"register", u>>, <<"identify", u>>>>
    BY <1>2, <2>2, Tails DEF Plans
  <2>3. ASSUME NEW x \in People,
               p = <<<<"unregister", x>>, <<"reset", Nobody>>, <<"register", u>>,
                     <<"identify", u>>>>
        PROVE  Tail(p) \in Plans(u)
    BY <1>2, <2>3, Tails DEF Plans
  <2> QED
    BY <1>2, <2>1, <2>2, <2>3, <2>4 DEF Plans
<1> QED
  BY <1>1, <1>2

\* A plan is made of operations.
LEMMA PlansTyped == ASSUME NEW u \in Users, NEW p \in Plans(u) PROVE p \in Seq(Operations)
<1> DEFINE un(x) == <<"unregister", x>>
           re == <<"register", u>>
           id == <<"identify", u>>
           no == <<"reset", Nobody>>
<1>1. \A x \in People : un(x) \in Operations
  BY DEF Operations
<1>2. no \in Operations /\ (u # Nobody => re \in Operations /\ id \in Operations)
  BY DEF Operations, Users
<1>3. u = Nobody => \/ p = <<>> \/ p = <<no>>
                    \/ \E x \in People : p = <<un(x)>> \/ p = <<un(x), no>>
  BY DEF Plans
<1>4. u # Nobody => \/ p = <<>> \/ p = <<id>> \/ p = <<re, id>> \/ p = <<no, re, id>>
                    \/ \E x \in People : p = <<un(x), no, re, id>>
  BY DEF Plans
<1> HIDE DEF un, re, id, no
<1>5. CASE u = Nobody
  BY <1>1, <1>2, <1>3, <1>5, ShortTyped
<1>6. CASE u # Nobody
  BY <1>1, <1>2, <1>4, <1>6, ShortTyped
<1> QED
  BY <1>5, <1>6

\* A reset's plan, and an identity's.
LEMMA ResetPlans ==
    ASSUME NEW t \in Tabs, signedIn[t] \in Users
    PROVE  /\ signedIn[t] = Nobody => ResetPlan(t) = <<<<"reset", Nobody>>>>
           /\ signedIn[t] # Nobody =>
                 ResetPlan(t) = <<<<"unregister", signedIn[t]>>, <<"reset", Nobody>>>>
           /\ ResetPlan(t) \in Plans(Nobody)
<1>1. signedIn[t] = Nobody => ResetPlan(t) = <<<<"reset", Nobody>>>>
  <2>1. <<<<"reset", Nobody>>>> \in Seq({<<"reset", Nobody>>})
    OBVIOUS
  <2> QED
    BY <2>1, EmptyJoined DEF ResetPlan
<1>2. signedIn[t] # Nobody =>
         ResetPlan(t) = <<<<"unregister", signedIn[t]>>, <<"reset", Nobody>>>>
  BY Joined DEF ResetPlan
<1> QED
  BY <1>1, <1>2 DEF Plans, Users

\* An identity that is not the tab's own is reset before it is registered.
LEMMA IdentityPlans ==
    ASSUME NEW t \in Tabs, NEW u \in People, signedIn[t] \in Users
    PROVE  /\ held[t] \in {Nobody, u} =>
                 IdentityPlan(t, u) = <<<<"register", u>>, <<"identify", u>>>>
           /\ held[t] \notin {Nobody, u} =>
                 \/ IdentityPlan(t, u) = <<<<"reset", Nobody>>, <<"register", u>>,
                                           <<"identify", u>>>>
                 \/ /\ signedIn[t] \in People
                    /\ IdentityPlan(t, u) = <<<<"unregister", signedIn[t]>>,
                          <<"reset", Nobody>>, <<"register", u>>, <<"identify", u>>>>
           /\ IdentityPlan(t, u) \in Plans(u)
<1> DEFINE un == <<"unregister", signedIn[t]>>
           re == <<"register", u>>
           id == <<"identify", u>>
           no == <<"reset", Nobody>>
<1>1. held[t] \in {Nobody, u} => IdentityPlan(t, u) = <<>> \o <<re, id>>
  BY DEF IdentityPlan
<1>2. held[t] \notin {Nobody, u} => IdentityPlan(t, u) = ResetPlan(t) \o <<re, id>>
  BY DEF IdentityPlan
<1>3. /\ signedIn[t] = Nobody => ResetPlan(t) = <<no>>
      /\ signedIn[t] # Nobody => ResetPlan(t) = <<un, no>>
  BY ResetPlans
<1>4. /\ <<>> \o <<re, id>> = <<re, id>>
      /\ <<no>> \o <<re, id>> = <<no, re, id>>
      /\ <<un, no>> \o <<re, id>> = <<un, no, re, id>>
  <2> HIDE DEF un, re, id, no
  <2>1. <<re, id>> \in Seq({re, id})
    BY ShortTyped
  <2>2. <<>> \o <<re, id>> = <<re, id>>
    BY <2>1, EmptyJoined
  <2>3. <<no>> \o <<re, id>> = <<no, re, id>>
    BY Joined
  <2>4. <<un, no>> \o <<re, id>> = <<un, no, re, id>>
    BY PairsJoined
  <2> QED
    BY <2>2, <2>3, <2>4
<1>5. IdentityPlan(t, u) \in {<<re, id>>, <<no, re, id>>, <<un, no, re, id>>}
  BY <1>1, <1>2, <1>3, <1>4
<1>6. signedIn[t] # Nobody => signedIn[t] \in People
  BY DEF Users
<1>7. u # Nobody
  BY IdentityAssumption
<1>8. /\ <<re, id>> \in Plans(u) /\ <<no, re, id>> \in Plans(u)
      /\ signedIn[t] \in People => <<un, no, re, id>> \in Plans(u)
  BY <1>7 DEF Plans
<1>9. signedIn[t] = Nobody => IdentityPlan(t, u) \in {<<re, id>>, <<no, re, id>>}
  BY <1>1, <1>2, <1>3, <1>4
<1>10. IdentityPlan(t, u) \in Plans(u)
  BY <1>5, <1>6, <1>8, <1>9
<1> HIDE DEF un, re, id, no
<1>11. /\ held[t] \in {Nobody, u} => IdentityPlan(t, u) = <<re, id>>
       /\ held[t] \notin {Nobody, u} => \/ IdentityPlan(t, u) = <<no, re, id>>
                                        \/ /\ signedIn[t] \in People
                                           /\ IdentityPlan(t, u) = <<un, no, re, id>>
  BY <1>1, <1>2, <1>3, <1>4, <1>6
<1> QED
  BY <1>10, <1>11 DEF un, re, id, no

-----------------------------------------------------------------------------
(* Where a queue of commands leads. *)

Decides(c) == c[1] \in {"identify", "reset"}
Forgets(c) == c[1] \in {"forget", "forget unless held"}

\* Run on a tab that is signed in as `from', q leaves it signed in as `to': its
\* last command that decides is about that person.
Leads(q, from, to) ==
    \/ \E m \in DOMAIN q : /\ Decides(q[m]) /\ q[m][2] = to
                           /\ \A i \in DOMAIN q : i > m => ~Decides(q[i])
    \/ (\A i \in DOMAIN q : ~Decides(q[i])) /\ from = to
Plain(q) == \A i \in DOMAIN q : ~Forgets(q[i])

\* One queue after another.
LEMMA LeadsOn ==
    ASSUME NEW q \in Seq(Commands), NEW r \in Seq(Commands), NEW a, NEW b, NEW c,
           Leads(q, a, b), Leads(r, b, c)
    PROVE  Leads(q \o r, a, c)
<1>1. /\ DOMAIN (q \o r) = 1 .. (Len(q) + Len(r))
      /\ \A i \in 1 .. (Len(q) + Len(r)) :
            (q \o r)[i] = IF i <= Len(q) THEN q[i] ELSE r[i - Len(q)]
      /\ DOMAIN q = 1 .. Len(q) /\ DOMAIN r = 1 .. Len(r)
      /\ Len(q) \in Nat /\ Len(r) \in Nat
  BY ConcatProperties
<1>2. ASSUME NEW m \in DOMAIN r, Decides(r[m]), r[m][2] = c,
             \A i \in DOMAIN r : i > m => ~Decides(r[i])
      PROVE  Leads(q \o r, a, c)
  <2>1. /\ Len(q) + m \in DOMAIN (q \o r) /\ (q \o r)[Len(q) + m] = r[m]
        /\ \A i \in DOMAIN (q \o r) : i > Len(q) + m =>
              (q \o r)[i] = r[i - Len(q)] /\ i - Len(q) \in DOMAIN r /\ i - Len(q) > m
    BY <1>1
  <2> QED
    BY <1>2, <2>1 DEF Leads
<1>3. CASE (\A i \in DOMAIN r : ~Decides(r[i])) /\ b = c
  <2>1. \A i \in DOMAIN (q \o r) :
           \/ i \in DOMAIN q /\ (q \o r)[i] = q[i]
           \/ i > Len(q) /\ ~Decides((q \o r)[i])
    BY <1>1, <1>3
  <2>2. \A i \in DOMAIN q : i \in DOMAIN (q \o r) /\ (q \o r)[i] = q[i]
    BY <1>1
  <2> QED
    BY <1>1, <1>3, <2>1, <2>2 DEF Leads
<1> QED
  BY <1>2, <1>3 DEF Leads

\* What is left when the first command has run.
LEMMA LeadsNext ==
    ASSUME NEW q \in Seq(Commands), q # <<>>, NEW a, NEW c, Leads(q, a, c)
    PROVE  Leads(Tail(q), IF Decides(Head(q)) THEN Head(q)[2] ELSE a, c)
<1>1. /\ DOMAIN q = 1 .. Len(q) /\ Len(q) \in Nat /\ Head(q) = q[1] /\ 1 \in DOMAIN q
      /\ DOMAIN Tail(q) = 1 .. (Len(q) - 1)
      /\ \A i \in DOMAIN Tail(q) : Tail(q)[i] = q[i + 1] /\ i + 1 \in DOMAIN q
  OBVIOUS
<1>2. \A i \in DOMAIN q \ {1} : i - 1 \in DOMAIN Tail(q) /\ Tail(q)[i - 1] = q[i]
  BY <1>1
<1>3. ASSUME NEW m \in DOMAIN q, Decides(q[m]), q[m][2] = c,
             \A i \in DOMAIN q : i > m => ~Decides(q[i])
      PROVE  Leads(Tail(q), IF Decides(Head(q)) THEN Head(q)[2] ELSE a, c)
  <2>1. CASE m = 1
    BY <1>1, <1>3, <2>1 DEF Leads
  <2>2. CASE m # 1
    <3>1. m - 1 \in DOMAIN Tail(q) /\ Tail(q)[m - 1] = q[m]
      BY <1>2, <2>2
    <3>2. \A i \in DOMAIN Tail(q) : i > m - 1 => ~Decides(Tail(q)[i])
      BY <1>1, <1>3
    <3> QED
      BY <1>3, <3>1, <3>2 DEF Leads
  <2> QED
    BY <2>1, <2>2
<1>4. CASE (\A i \in DOMAIN q : ~Decides(q[i])) /\ a = c
  BY <1>1, <1>4 DEF Leads
<1> QED
  BY <1>3, <1>4 DEF Leads

\* One command, and none.
LEMMA LeadsOnce ==
    ASSUME NEW c \in Commands, NEW a
    PROVE  /\ Leads(<<>>, a, a) /\ Plain(<<>>)
           /\ Decides(c) => Leads(<<c>>, a, c[2])
           /\ ~Decides(c) => Leads(<<c>>, a, a)
           /\ ~Forgets(c) => Plain(<<c>>)
BY DEF Leads, Plain

\* Two queues that forget nothing forget nothing together.
LEMMA PlainJoined ==
    ASSUME NEW q \in Seq(Commands), NEW r \in Seq(Commands), Plain(q), Plain(r)
    PROVE  Plain(q \o r)
BY ConcatProperties DEF Plain

\* What the app asks when the store's user changes leads there.
LEMMA UserChangedLeads ==
    ASSUME NEW a \in Users, NEW b \in Users
    PROVE  /\ UserChanged(a, b) \in Seq(Commands)
           /\ Leads(UserChanged(a, b), a, b)
           /\ Plain(UserChanged(a, b))
<1> DEFINE q == IF a \notin {Nobody, b} THEN <<<<"reset", Nobody>>>> ELSE <<>>
           r == IF b \notin {Nobody, a} THEN <<<<"identify", b>>>> ELSE <<>>
           m == IF a \notin {Nobody, b} THEN Nobody ELSE a
<1>1. <<"reset", Nobody>> \in Commands /\ (b # Nobody => <<"identify", b>> \in Commands)
  BY DEF Commands, Users
<1>2. /\ Decides(<<"reset", Nobody>>) /\ ~Forgets(<<"reset", Nobody>>)
      /\ Decides(<<"identify", b>>) /\ ~Forgets(<<"identify", b>>)
      /\ <<"reset", Nobody>>[2] = Nobody /\ <<"identify", b>>[2] = b
  BY DEF Decides, Forgets
<1>3. /\ Leads(<<<<"reset", Nobody>>>>, a, Nobody) /\ Plain(<<<<"reset", Nobody>>>>)
      /\ b # Nobody => Leads(<<<<"identify", b>>>>, m, b) /\ Plain(<<<<"identify", b>>>>)
  BY <1>1, <1>2, LeadsOnce
<1>4. /\ a \notin {Nobody, b} => q = <<<<"reset", Nobody>>>> /\ m = Nobody
      /\ a \in {Nobody, b} => q = <<>> /\ m = a
      /\ b \notin {Nobody, a} => r = <<<<"identify", b>>>>
      /\ b \in {Nobody, a} => r = <<>> /\ m = b
  OBVIOUS
<1>6. \A x : Leads(<<>>, x, x) /\ Plain(<<>>)
  BY <1>1, LeadsOnce
<1>7. /\ <<>> \in Seq(Commands) /\ <<<<"reset", Nobody>>>> \in Seq(Commands)
      /\ b # Nobody => <<<<"identify", b>>>> \in Seq(Commands)
  BY <1>1
<1> HIDE DEF q, r, m
<1>8. q \in Seq(Commands) /\ Leads(q, a, m) /\ Plain(q)
  BY <1>3, <1>4, <1>6, <1>7
<1>9. r \in Seq(Commands) /\ Leads(r, m, b) /\ Plain(r)
  BY <1>3, <1>4, <1>6, <1>7
<1>5. UserChanged(a, b) = q \o r
  BY DEF UserChanged, q, r
<1> QED
  BY <1>8, <1>9, <1>5, LeadsOn, PlainJoined, ConcatProperties

-----------------------------------------------------------------------------
(* A tab's queue and plan follow its user. *)

Opens(q) == q # <<>> /\ Head(q)[1] \in {"identify", "forget", "forget unless held"}
Blank(t) ==
    /\ ~loaded[t] /\ refreshing[t] = "no" /\ ~logouts[t]
    /\ user[t] = Nobody /\ signedIn[t] = Nobody
    /\ queue[t] = <<>> /\ plan[t] = <<>>

\* A page that is gone has nothing, one whose SDK has yet to load has identified
\* nobody and begins with its bootstrap's command, and a registry text was read
\* for the change that comes next.
Shape(t) ==
    /\ ~Open(t) => Blank(t)
    /\ ~loaded[t] => signedIn[t] = Nobody /\ plan[t] = <<>>
    /\ Open(t) /\ ~loaded[t] => Opens(queue[t])
    /\ text[t] # <<>> => plan[t] # <<>> /\ Head(plan[t])[1] \in {"register", "unregister"}

\* The queue leads from whom the tab is signed in as to its user, and forgets
\* nobody but the visitor that the page found.
Follows(t) ==
    /\ Leads(queue[t], signedIn[t], user[t])
    /\ \A i \in DOMAIN queue[t] : Forgets(queue[t][i]) => i = 1 /\ signedIn[t] = Nobody
    /\ plan[t] \in Plans(signedIn[t])

FollowInv == TypeOK /\ \A t \in Tabs : Shape(t) /\ Follows(t)

\* The plans are the same before a step and after it.
LEMMA PlansKept ==
    ASSUME NEW t \in Tabs, plan'[t] \in Plans(signedIn'[t])
    PROVE  (plan[t] \in Plans(signedIn[t]))'
BY DEF Plans

\* What the other tabs' steps leave of a tab.
Same(o) ==
    /\ page'[o] = page[o] /\ loaded'[o] = loaded[o] /\ user'[o] = user[o]
    /\ queue'[o] = queue[o] /\ plan'[o] = plan[o] /\ text'[o] = text[o]
    /\ signedIn'[o] = signedIn[o]
    /\ refreshing'[o] # "no" => refreshing[o] # "no" \/ Open(o)
    /\ logouts'[o] => logouts[o] \/ Open(o)

\* Such a tab keeps its shape, and its queue still leads to its user.
LEMMA SameFollows ==
    ASSUME NEW o \in Tabs, Shape(o), Follows(o), Same(o), TypeOK
    PROVE  Shape(o)' /\ Follows(o)'
<1>1. Shape(o)'
  BY DEF Shape, Same, Open, Blank
<1>2. Leads(queue[o], signedIn[o], user[o])'
  BY DEF Follows, Same, Leads
<1>3. Follows(o)'
  BY <1>2 DEF Follows, Same, Plans
<1> QED
  BY <1>1, <1>3

\* A step of one tab.
LEMMA OneTab ==
    ASSUME FollowInv, TypeOK', NEW t \in Tabs, Shape(t)', Follows(t)',
           \A o \in Tabs \ {t} : Same(o)
    PROVE  FollowInv'
BY SameFollows DEF FollowInv

\* What a tab asks of analytics when its user changes.
LEMMA AskedFollows ==
    ASSUME FollowInv, NEW t \in Tabs, NEW q \in Seq(Commands), NEW u \in Users,
           Leads(q, user[t], u), Plain(q), Open(t), Open(t)',
           queue' = [queue EXCEPT ![t] = @ \o q], user' = [user EXCEPT ![t] = u],
           UNCHANGED <<loaded, plan, text, signedIn>>
    PROVE  /\ queue' \in [Tabs -> Seq(Commands)]
           /\ \A o \in Tabs \ {t} : queue'[o] = queue[o] /\ user'[o] = user[o]
           /\ Shape(t)' /\ Follows(t)'
<1>1. queue[t] \in Seq(Commands) /\ queue'[t] = queue[t] \o q /\ user'[t] = u
  BY DEF FollowInv, TypeOK
<1>2. queue' \in [Tabs -> Seq(Commands)]
  BY <1>1, ConcatProperties DEF FollowInv, TypeOK
<1>3. \A o \in Tabs \ {t} : queue'[o] = queue[o] /\ user'[o] = user[o]
  BY DEF FollowInv, TypeOK
<1>4. Leads(queue'[t], signedIn[t], user'[t])
  <2>1. Leads(queue[t], signedIn[t], user[t])
    BY DEF FollowInv, Follows
  <2>2. Leads(queue[t] \o q, signedIn[t], u)
    BY <1>1, <2>1, LeadsOn
  <2> QED
    BY <1>1, <2>2
<1>5. \A i \in DOMAIN queue'[t] : Forgets(queue'[t][i]) => i = 1 /\ signedIn[t] = Nobody
  BY <1>1, ConcatProperties DEF FollowInv, Follows, Plain
<1>6. Opens(queue[t]) => Opens(queue'[t])
  BY <1>1, HeadJoined DEF Opens
<1>7. Follows(t)'
  BY <1>4, <1>5 DEF FollowInv, Follows, Plans, Leads
<1>8. Shape(t)'
  BY <1>6 DEF FollowInv, Shape, Opens, Blank, Open
<1> QED
  BY <1>2, <1>3, <1>7, <1>8

\* The changes of user, and what goes with them.
LEMMA AskedLeads ==
    ASSUME NEW a \in Users, NEW b \in Users
    PROVE  /\ UserChanged(a, b) \in Seq(Commands)
           /\ Leads(UserChanged(a, b), a, b) /\ Plain(UserChanged(a, b))
           /\ LET q == <<<<"yield", Nobody>>>> \o UserChanged(a, b)
              IN  q \in Seq(Commands) /\ Leads(q, a, b) /\ Plain(q)
           /\ b # Nobody =>
                 LET q == UserChanged(a, b) \o <<<<"confirm", b>>>>
                 IN  q \in Seq(Commands) /\ Leads(q, a, b) /\ Plain(q)
           /\ LET q == <<<<"yield", Nobody>>>> \o UserChanged(a, Nobody)
                          \o UserChanged(Nobody, b)
              IN  q \in Seq(Commands) /\ Leads(q, a, b) /\ Plain(q)
<1> DEFINE yields == <<<<"yield", Nobody>>>>
           confirms == <<<<"confirm", b>>>>
<1>1. /\ UserChanged(a, b) \in Seq(Commands)
      /\ Leads(UserChanged(a, b), a, b) /\ Plain(UserChanged(a, b))
      /\ UserChanged(a, Nobody) \in Seq(Commands)
      /\ Leads(UserChanged(a, Nobody), a, Nobody) /\ Plain(UserChanged(a, Nobody))
      /\ UserChanged(Nobody, b) \in Seq(Commands)
      /\ Leads(UserChanged(Nobody, b), Nobody, b) /\ Plain(UserChanged(Nobody, b))
  BY UserChangedLeads DEF Users
<1>2. /\ <<"yield", Nobody>> \in Commands
      /\ ~Decides(<<"yield", Nobody>>) /\ ~Forgets(<<"yield", Nobody>>)
      /\ b # Nobody => /\ <<"confirm", b>> \in Commands
                       /\ ~Decides(<<"confirm", b>>) /\ ~Forgets(<<"confirm", b>>)
  BY DEF Commands, Decides, Forgets, Users
<1>3. /\ yields \in Seq(Commands) /\ Leads(yields, a, a) /\ Plain(yields)
      /\ b # Nobody => /\ confirms \in Seq(Commands) /\ Leads(confirms, b, b)
                       /\ Plain(confirms)
  BY <1>2, LeadsOnce
<1> HIDE DEF yields, confirms
<1>4. LET q == yields \o UserChanged(a, b)
      IN  q \in Seq(Commands) /\ Leads(q, a, b) /\ Plain(q)
  BY <1>1, <1>3, LeadsOn, PlainJoined, ConcatProperties
<1>5. b # Nobody => LET q == UserChanged(a, b) \o confirms
                    IN  q \in Seq(Commands) /\ Leads(q, a, b) /\ Plain(q)
  BY <1>1, <1>3, LeadsOn, PlainJoined, ConcatProperties
<1>6. LET q == yields \o UserChanged(a, Nobody)
      IN  q \in Seq(Commands) /\ Leads(q, a, Nobody) /\ Plain(q)
  BY <1>1, <1>3, LeadsOn, PlainJoined, ConcatProperties
<1>7. LET q == yields \o UserChanged(a, Nobody) \o UserChanged(Nobody, b)
      IN  q \in Seq(Commands) /\ Leads(q, a, b) /\ Plain(q)
  BY <1>1, <1>6, LeadsOn, PlainJoined, ConcatProperties
<1> QED
  BY <1>1, <1>4, <1>5, <1>7 DEF yields, confirms

\* What is posted is news.
LEMMA PostedTyped ==
    ASSUME NEW t \in Tabs, NEW m \in News, channel \in [Tabs -> SUBSET News]
    PROVE  Posted(t, m) \in [Tabs -> SUBSET News]
BY DEF Posted

\* A page begins with one command.
LEMMA RestoreFollows ==
    ASSUME FollowInv, NEW t \in Tabs, Restore(t) PROVE FollowInv'
<1> USE IdentityAssumption
<1>1. /\ queue[t] = <<>> /\ user[t] = Nobody /\ signedIn[t] = Nobody /\ plan[t] = <<>>
      /\ text[t] = <<>> /\ refreshing[t] = "no"
  BY DEF Restore, FollowInv, Shape, Blank, Open
<1>2. PICK c \in Commands, u \in Users :
         /\ \/ c = <<"identify", account>> /\ u = account /\ u \in People
            \/ c \in {<<"forget", Nobody>>, <<"forget unless held", Nobody>>} /\ u = Nobody
         /\ Asks(t, <<c>>)
         /\ user' = [user EXCEPT ![t] = u]
         /\ channel' = channel \/ channel' = Posted(t, <<"who", Nobody>>)
  <2>1. user' = user => user' = [user EXCEPT ![t] = Nobody]
    BY <1>1 DEF FollowInv, TypeOK
  <2>2. CASE account # Nobody /\ Asks(t, UserChanged(Nobody, account))
             /\ user' = [user EXCEPT ![t] = account] /\ channel' = channel
    <3>1. account \in People /\ <<"identify", account>> \in Commands /\ account \in Users
      BY <2>2 DEF FollowInv, TypeOK, Users, Commands
    <3>2. UserChanged(Nobody, account) = <<>> \o <<<<"identify", account>>>>
      BY <2>2 DEF UserChanged
    <3>3. UserChanged(Nobody, account) = <<<<"identify", account>>>>
      BY <3>1, <3>2, ShortTyped, EmptyJoined
    <3> QED
      BY <2>2, <3>1, <3>3
  <2>3. <<"forget", Nobody>> \in Commands /\ <<"forget unless held", Nobody>> \in Commands
        /\ Nobody \in Users
    BY DEF Commands, Users
  <2> QED
    BY <2>1, <2>2, <2>3 DEF Restore
<1>3. queue'[t] = <<c>> /\ queue' \in [Tabs -> Seq(Commands)]
      /\ \A o \in Tabs \ {t} : queue'[o] = queue[o]
  <2>1. queue' = [queue EXCEPT ![t] = <<>> \o <<c>>]
    BY <1>1, <1>2 DEF Asks
  <2>2. <<>> \o <<c>> = <<c>> /\ <<c>> \in Seq(Commands)
    BY ShortTyped, EmptyJoined
  <2> QED
    BY <2>1, <2>2 DEF FollowInv, TypeOK
<1>4. TypeOK'
  <2>1. channel' \in [Tabs -> SUBSET News]
    <3>1. <<"who", Nobody>> \in News
      BY DEF News
    <3> QED
      BY <1>2, <3>1, PostedTyped, ZenonT(60) DEF FollowInv, TypeOK
  <2>2. known' \in [Tabs -> SUBSET People]
    <3>1. SignedInSomewhere \subseteq People
      BY DEF SignedInSomewhere, FollowInv, TypeOK, Users
    <3> QED
      BY <3>1 DEF Restore, FollowInv, TypeOK
  <2>3. user' \in [Tabs -> Users]
    BY <1>2 DEF FollowInv, TypeOK
  <2> QED
    BY <1>3, <2>1, <2>2, <2>3 DEF Restore, FollowInv, TypeOK, browser, history
<1>5. Leads(<<c>>, Nobody, u)
  <2>1. CASE c = <<"identify", account>> /\ u = account
    <3>1. Decides(c) /\ c[2] = u
      BY <2>1 DEF Decides
    <3> QED
      BY <3>1, LeadsOnce
  <2>2. CASE c \in {<<"forget", Nobody>>, <<"forget unless held", Nobody>>} /\ u = Nobody
    <3>1. ~Decides(<<"forget", Nobody>>) /\ ~Decides(<<"forget unless held", Nobody>>)
      BY DEF Decides
    <3> QED
      BY <2>2, <3>1, LeadsOnce
  <2> QED
    BY <1>2, <2>1, <2>2
<1>6. Opens(<<c>>)
  <2>1. c[1] \in {"identify", "forget", "forget unless held"}
    <3>1. /\ <<"identify", account>>[1] = "identify" /\ <<"forget", Nobody>>[1] = "forget"
          /\ <<"forget unless held", Nobody>>[1] = "forget unless held"
      OBVIOUS
    <3>2. CASE c = <<"identify", account>>
      BY <3>1, <3>2
    <3>3. CASE c = <<"forget", Nobody>>
      BY <3>1, <3>3
    <3>4. CASE c = <<"forget unless held", Nobody>>
      BY <3>1, <3>4
    <3> QED
      BY <1>2, <3>2, <3>3, <3>4
  <2>2. <<c>> # <<>> /\ Head(<<c>>) = c
    OBVIOUS
  <2> QED
    BY <2>1, <2>2 DEF Opens
<1>7. page'[t] = "open" /\ user'[t] = u /\ plan'[t] = <<>> /\ text'[t] = <<>>
      /\ signedIn'[t] = Nobody
  BY <1>1, <1>2 DEF Restore, FollowInv, TypeOK
<1>8. Shape(t)'
  BY <1>3, <1>6, <1>7 DEF Shape, Opens, Open
<1>9. Follows(t)'
  <2>1. Leads(queue[t], signedIn[t], user[t])'
    BY <1>3, <1>5, <1>7 DEF Leads
  <2>2. (plan[t] \in Plans(signedIn[t]))'
    BY <1>7 DEF Plans
  <2> QED
    BY <1>3, <1>7, <2>1, <2>2 DEF Follows
<1>10. \A o \in Tabs \ {t} : Same(o)
  BY <1>2, <1>3 DEF Same, Restore, FollowInv, TypeOK
<1> QED
  BY <1>4, <1>8, <1>9, <1>10, OneTab

\* A page that is gone leads nowhere.
LEMMA DiscardFollows ==
    ASSUME FollowInv, NEW t \in Tabs, Unload(t) \/ CloseTab(t) PROVE FollowInv'
<1>1. Discard(t) /\ plan[t] = <<>>
  BY DEF Unload, CloseTab, Idle
<1>2. TypeOK'
  <2>1. acts' \in 0 .. MaxActs
    BY IdentityAssumption DEF Unload, CloseTab, Act, FollowInv, TypeOK
  <2> QED
    BY <1>1, <2>1 DEF Discard, FollowInv, TypeOK, browser, Identities, Users
<1>3. /\ page'[t] = "closed" /\ ~loaded'[t] /\ refreshing'[t] = "no" /\ ~logouts'[t]
      /\ user'[t] = Nobody /\ signedIn'[t] = Nobody /\ queue'[t] = <<>> /\ plan'[t] = <<>>
      /\ text'[t] = text[t]
  BY <1>1 DEF Discard, FollowInv, TypeOK
<1>4. text[t] = <<>>
  BY <1>1 DEF FollowInv, Shape
<1>5. Shape(t)'
  BY <1>3, <1>4 DEF Shape, Blank, Open
<1>6. Follows(t)'
  BY <1>3 DEF Follows, Leads, Plans
<1>7. \A o \in Tabs \ {t} : Same(o)
  BY <1>1 DEF Discard, Same, FollowInv, TypeOK
<1> QED
  BY <1>2, <1>5, <1>6, <1>7, OneTab

\* The SDK loads.
LEMMA LoadFollows ==
    ASSUME FollowInv, NEW t \in Tabs, SDKLoaded(t) PROVE FollowInv'
<1>1. TypeOK'
  BY DEF SDKLoaded, FollowInv, TypeOK, browser, history
<1>2. Shape(t)'
  BY DEF SDKLoaded, FollowInv, TypeOK, Shape, Open, Blank
<1>3. Follows(t)'
  BY DEF SDKLoaded, FollowInv, Follows, Leads, Plans
<1>4. \A o \in Tabs \ {t} : Same(o)
  BY DEF SDKLoaded, Same, FollowInv, TypeOK
<1> QED
  BY <1>1, <1>2, <1>3, <1>4, OneTab

\* What a tab asks of analytics when the user signs in, or out.
LEMMA SignAsks ==
    ASSUME FollowInv, NEW t \in Tabs, (\E p \in People : SignIn(t, p)) \/ SignOut(t)
    PROVE  \E q \in Seq(Commands), u \in Users :
            /\ Leads(q, user[t], u) /\ Plain(q)
            /\ Asks(t, q) /\ user' = [user EXCEPT ![t] = u] /\ account' = u
            /\ logouts' = logouts \/ logouts' = LoggedOut(t)
            /\ page' = page \/ page' = [page EXCEPT ![t] = "leaving"]
<1>1. user[t] \in Users /\ Nobody \in Users
  BY DEF FollowInv, TypeOK, Users
<1>2. ASSUME NEW p \in People, SignIn(t, p), user[t] = Nobody
      PROVE  Asks(t, UserChanged(user[t], p)) /\ logouts' = logouts
  BY <1>2 DEF SignIn
<1>3. ASSUME NEW p \in People, SignIn(t, p), user[t] # Nobody
      PROVE  /\ Asks(t, <<<<"yield", Nobody>>>> \o UserChanged(user[t], Nobody)
                           \o UserChanged(Nobody, p))
             /\ logouts' = LoggedOut(t)
  BY <1>3 DEF SignIn
<1>4. ASSUME NEW p \in People, SignIn(t, p)
      PROVE  p \in Users /\ user' = [user EXCEPT ![t] = p] /\ account' = p /\ page' = page
  BY <1>4 DEF SignIn, Users
<1>5. ASSUME SignOut(t)
      PROVE  /\ Asks(t, UserChanged(user[t], Nobody)) /\ logouts' = LoggedOut(t)
             /\ user' = [user EXCEPT ![t] = Nobody] /\ account' = Nobody
             /\ page' = [page EXCEPT ![t] = "leaving"]
  BY <1>5 DEF SignOut
<1>6. CASE \E p \in People : SignIn(t, p) /\ user[t] = Nobody
  BY <1>1, <1>2, <1>4, <1>6, AskedLeads
<1>7. CASE \E p \in People : SignIn(t, p) /\ user[t] # Nobody
  BY <1>1, <1>3, <1>4, <1>7, AskedLeads
<1>8. CASE SignOut(t)
  BY <1>1, <1>5, <1>8, AskedLeads
<1> QED
  BY <1>6, <1>7, <1>8

\* The user signs in, or out.
LEMMA SignFollows ==
    ASSUME FollowInv, NEW t \in Tabs, (\E p \in People : SignIn(t, p)) \/ SignOut(t)
    PROVE  FollowInv'
<1>1. PICK q \in Seq(Commands), u \in Users :
         /\ Leads(q, user[t], u) /\ Plain(q)
         /\ Asks(t, q) /\ user' = [user EXCEPT ![t] = u] /\ account' = u
         /\ logouts' = logouts \/ logouts' = LoggedOut(t)
         /\ page' = page \/ page' = [page EXCEPT ![t] = "leaving"]
  BY SignAsks
<1>2. /\ Open(t) /\ Open(t)'
      /\ UNCHANGED <<stored, registry, loaded, plan, text, held, signedIn, superseded,
                     repair, siblings, channel, refreshing, overtaken, known>>
      /\ Act
  BY <1>1 DEF SignIn, SignOut, Open, FollowInv, TypeOK
<1>3. /\ queue' \in [Tabs -> Seq(Commands)]
      /\ \A o \in Tabs \ {t} : queue'[o] = queue[o] /\ user'[o] = user[o]
      /\ Shape(t)' /\ Follows(t)'
  BY <1>1, <1>2, AskedFollows DEF Asks
<1>4. TypeOK'
  <2>1. acts' \in 0 .. MaxActs
    BY <1>2, IdentityAssumption DEF Act, FollowInv, TypeOK
  <2>2. logouts' \in [Tabs -> BOOLEAN] /\ page' \in [Tabs -> {"closed", "open", "leaving"}]
    BY <1>1 DEF LoggedOut, FollowInv, TypeOK
  <2>3. user' \in [Tabs -> Users]
    BY <1>1 DEF FollowInv, TypeOK
  <2> QED
    BY <1>1, <1>2, <1>3, <2>1, <2>2, <2>3 DEF FollowInv, TypeOK
<1>5. \A o \in Tabs \ {t} : Same(o)
  BY <1>1, <1>2, <1>3 DEF Same, LoggedOut, Others, Open, FollowInv, TypeOK
<1> QED
  BY <1>3, <1>4, <1>5, OneTab

\* What a tab asks when it hears of a logout, or of the refresh it asked for.
LEMMA SettledAsks ==
    ASSUME FollowInv, NEW t \in Tabs, HearLogout(t) \/ Refreshed(t)
    PROVE  \E q \in Seq(Commands), u \in Users :
            /\ Leads(q, user[t], u) /\ Plain(q)
            /\ Asks(t, q) /\ user' = [user EXCEPT ![t] = u]
<1>1. user[t] \in Users /\ Nobody \in Users /\ account \in Users
  BY DEF FollowInv, TypeOK, Users
<1>2. CASE Asks(t, UserChanged(user[t], Nobody)) /\ user' = [user EXCEPT ![t] = Nobody]
  BY <1>1, <1>2, AskedLeads
<1>3. CASE HearLogout(t)
  BY <1>2, <1>3 DEF HearLogout
<1>4. CASE Confirmed(t)
  <2>1. /\ account # Nobody /\ user' = [user EXCEPT ![t] = account]
        /\ \/ Asks(t, UserChanged(user[t], account) \o <<<<"confirm", account>>>>)
           \/ Asks(t, UserChanged(user[t], account))
    <3>1. \/ Asks(t, UserChanged(user[t], account) \o <<<<"confirm", account>>>>)
          \/ Asks(t, UserChanged(user[t], account) \o <<>>)
      BY <1>4 DEF Confirmed
    <3>2. UserChanged(user[t], account) \o <<>> = UserChanged(user[t], account)
      BY <1>1 DEF UserChanged
    <3> QED
      BY <1>4, <3>1, <3>2 DEF Confirmed
  <2> QED
    BY <1>1, <2>1, AskedLeads
<1>5. CASE SomebodyElse(t)
  <2>1. /\ user' = [user EXCEPT ![t] = Nobody]
        /\ Asks(t, <<<<"yield", Nobody>>>> \o UserChanged(user[t], Nobody))
    BY <1>5 DEF SomebodyElse
  <2> QED
    BY <1>1, <2>1, AskedLeads
<1>6. CASE Ended(t)
  BY <1>2, <1>6 DEF Ended
<1> QED
  BY <1>3, <1>4, <1>5, <1>6 DEF Refreshed

\* A tab hears of a logout, or of the refresh it asked for.
LEMMA SettledFollows ==
    ASSUME FollowInv, NEW t \in Tabs, HearLogout(t) \/ Refreshed(t)
    PROVE  FollowInv'
<1>1. PICK q \in Seq(Commands), u \in Users :
         /\ Leads(q, user[t], u) /\ Plain(q)
         /\ Asks(t, q) /\ user' = [user EXCEPT ![t] = u]
  BY SettledAsks
<1>2. /\ page' = page \/ page' = [page EXCEPT ![t] = "leaving"]
      /\ \/ logouts' = logouts \/ logouts' = LoggedOut(t)
         \/ logouts' = [logouts EXCEPT ![t] = FALSE]
      /\ refreshing' = refreshing \/ refreshing' = [refreshing EXCEPT ![t] = "no"]
      /\ UNCHANGED <<browser, loaded, plan, text, held, signedIn, superseded, repair,
                     siblings, channel, history, known>>
  <2>1. CASE HearLogout(t)
    <3>1. page' = [page EXCEPT ![t] = IF user[t] = Nobody THEN @ ELSE "leaving"]
      BY <2>1 DEF HearLogout
    <3>2. page' = page \/ page' = [page EXCEPT ![t] = "leaving"]
      BY <3>1 DEF FollowInv, TypeOK
    <3> QED
      BY <2>1, <3>2 DEF HearLogout
  <2>2. CASE Refreshed(t)
    BY <2>2 DEF Refreshed, Confirmed, SomebodyElse, Ended, Leaves
  <2> QED
    BY <2>1, <2>2
<1>3. Open(t) /\ Open(t)'
  <2>1. Open(t)
    BY DEF HearLogout, Refreshed, FollowInv, Shape, Blank
  <2> QED
    BY <1>2, <2>1 DEF Open, FollowInv, TypeOK
<1>4. /\ queue' \in [Tabs -> Seq(Commands)]
      /\ \A o \in Tabs \ {t} : queue'[o] = queue[o] /\ user'[o] = user[o]
      /\ Shape(t)' /\ Follows(t)'
  BY <1>1, <1>2, <1>3, AskedFollows DEF Asks
<1>5. TypeOK'
  <2>1. /\ logouts' \in [Tabs -> BOOLEAN] /\ page' \in [Tabs -> {"closed", "open", "leaving"}]
        /\ refreshing' \in [Tabs -> {"no", "refresh", "recheck"}]
    BY <1>2 DEF LoggedOut, FollowInv, TypeOK
  <2>2. user' \in [Tabs -> Users]
    BY <1>1 DEF FollowInv, TypeOK
  <2> QED
    BY <1>2, <1>4, <2>1, <2>2 DEF FollowInv, TypeOK, browser, history
<1>6. \A o \in Tabs \ {t} : Same(o)
  BY <1>2, <1>4 DEF Same, LoggedOut, Others, Open, FollowInv, TypeOK
<1> QED
  BY <1>4, <1>5, <1>6, OneTab

\* The steps that leave every queue and plan alone.
LEMMA QuietFollows ==
    ASSUME FollowInv,
           \/ \E t \in Tabs : \/ RefreshInBackground(t) \/ RefreshFailed(t)
                              \/ HearNews(t) \/ Adopt(t) \/ EventDropped(t) \/ EventSent(t)
           \/ (\E p \in People : RegistryExpires(p)) \/ WebsiteWrites \/ SessionEnds
    PROVE  FollowInv'
<1>1. ASSUME TypeOK', \A o \in Tabs : Same(o) PROVE FollowInv'
  BY <1>1, SameFollows DEF FollowInv
<1>2. CASE \E t \in Tabs : RefreshInBackground(t) \/ RefreshFailed(t)
  <2>1. TypeOK'
    <3>1. acts' \in 0 .. MaxActs
      BY <1>2, IdentityAssumption
         DEF RefreshInBackground, RefreshFailed, Act, FollowInv, TypeOK, history
    <3>2. refreshing' \in [Tabs -> {"no", "refresh", "recheck"}]
      BY <1>2 DEF RefreshInBackground, RefreshFailed, FollowInv, TypeOK
    <3> QED
      BY <1>2, <3>1, <3>2
         DEF RefreshInBackground, RefreshFailed, FollowInv, TypeOK, browser, facade, history
  <2>2. \A o \in Tabs : Same(o)
    BY <1>2 DEF RefreshInBackground, RefreshFailed, FollowInv, TypeOK, Same, Open, facade
  <2> QED
    BY <1>1, <2>1, <2>2
<1>3. ASSUME NEW t \in Tabs, HearNews(t) PROVE FollowInv'
  <2>1. PICK m \in channel[t] :
           IF m[1] = "who"
           THEN /\ UNCHANGED siblings
                /\ channel' = [IF signedIn[t] = Nobody \/ superseded[t] THEN channel
                               ELSE Posted(t, <<"identified", signedIn[t]>>)
                                 EXCEPT ![t] = @ \ {m}]
           ELSE /\ siblings' = [siblings EXCEPT ![t] = @ \union {m[2]}]
                /\ channel' = [channel EXCEPT ![t] = @ \ {m}]
    BY <1>3 DEF HearNews
  <2>2. m \in News /\ (m[1] # "who" => m[2] \in People)
    BY DEF FollowInv, TypeOK, News
  <2>3. siblings' \in [Tabs -> SUBSET People]
    <3>1. CASE m[1] = "who"
      BY <2>1, <3>1 DEF FollowInv, TypeOK
    <3>2. CASE m[1] # "who"
      <4>1. siblings[t] \union {m[2]} \in SUBSET People
        BY <2>2, <3>2 DEF FollowInv, TypeOK
      <4>2. siblings' = [siblings EXCEPT ![t] = siblings[t] \union {m[2]}]
        BY <2>1, <3>2
      <4>3. siblings \in [Tabs -> SUBSET People]
        BY DEF FollowInv, TypeOK
      <4> QED
        BY <4>1, <4>2, <4>3
    <3> QED
      BY <3>1, <3>2
  <2>4. signedIn[t] # Nobody => Posted(t, <<"identified", signedIn[t]>>) \in [Tabs -> SUBSET News]
    <3>1. signedIn[t] # Nobody => <<"identified", signedIn[t]>> \in News
      BY DEF FollowInv, TypeOK, News, Users
    <3> QED
      BY <3>1, PostedTyped DEF FollowInv, TypeOK
  <2>5. channel' \in [Tabs -> SUBSET News]
    <3>1. PICK c \in [Tabs -> SUBSET News] : channel' = [c EXCEPT ![t] = @ \ {m}]
      BY <2>1, <2>4 DEF FollowInv, TypeOK
    <3>2. c[t] \ {m} \in SUBSET News
      OBVIOUS
    <3> QED
      BY <3>1, <3>2
  <2>6. TypeOK'
    BY <1>3, <2>3, <2>5 DEF HearNews, FollowInv, TypeOK, browser, history
  <2>7. \A o \in Tabs : Same(o)
    BY <1>3 DEF HearNews, Same
  <2> QED
    BY <1>1, <2>6, <2>7
<1>4. ASSUME NEW t \in Tabs, Adopt(t) \/ EventDropped(t) \/ EventSent(t) PROVE FollowInv'
  <2>1. TypeOK'
    BY <1>4 DEF Adopt, EventDropped, Supersede, EventSent, FollowInv, TypeOK, browser, history
  <2>2. Open(t)
    BY <1>4 DEF Adopt, EventDropped, EventSent, FollowInv, Shape, Blank
  <2>3. \A o \in Tabs : Same(o)
    BY <1>4, <2>2 DEF Adopt, EventDropped, Supersede, EventSent, FollowInv, TypeOK, Same
  <2> QED
    BY <1>1, <2>1, <2>3
<1>5. CASE (\E p \in People : RegistryExpires(p)) \/ WebsiteWrites \/ SessionEnds
  <2>1. TypeOK'
    BY <1>5, IdentityAssumption DEF RegistryExpires, WebsiteWrites, SessionEnds, Act, FollowInv,
       TypeOK, Identities, Users, facade, history
  <2>2. \A o \in Tabs : Same(o)
    BY <1>5 DEF RegistryExpires, WebsiteWrites, SessionEnds, Same, facade
  <2> QED
    BY <1>1, <2>1, <2>2
<1> QED
  BY <1>2, <1>3, <1>4, <1>5

\* A command that a tab runs.
LEMMA CommandFollows ==
    ASSUME FollowInv, NEW t \in Tabs, RunCommand(t) PROVE FollowInv'
<1> DEFINE c == Head(queue[t])
<1>1. /\ queue[t] \in Seq(Commands) /\ queue[t] # <<>> /\ plan[t] = <<>> /\ loaded[t]
      /\ queue' = [queue EXCEPT ![t] = Tail(@)]
      /\ UNCHANGED <<browser, page, loaded, user, text, siblings, channel, logouts,
                     refreshing, history, known>>
  BY DEF RunCommand, FollowInv, TypeOK
<1>2. /\ c \in Commands /\ c = queue[t][1] /\ 1 \in DOMAIN queue[t]
      /\ Tail(queue[t]) \in Seq(Commands)
      /\ \A i \in DOMAIN Tail(queue[t]) : i + 1 \in DOMAIN queue[t] /\ i + 1 # 1
                                          /\ Tail(queue[t])[i] = queue[t][i + 1]
  BY <1>1, HeadTailProperties
<1>3. queue' \in [Tabs -> Seq(Commands)] /\ queue'[t] = Tail(queue[t])
      /\ \A o \in Tabs \ {t} : queue'[o] = queue[o]
  BY <1>1, <1>2 DEF FollowInv, TypeOK
<1>4. signedIn[t] \in Users /\ held[t] \in Identities
  BY DEF FollowInv, TypeOK
<1>5. Forgets(c) => signedIn[t] = Nobody
  BY <1>2 DEF FollowInv, Follows
<1> HIDE DEF c
<1>6. PICK s, p :
         /\ s \in Users /\ p \in Plans(s)
         /\ signedIn' = [signedIn EXCEPT ![t] = s] /\ plan' = [plan EXCEPT ![t] = p]
         /\ s = IF Decides(c) THEN c[2] ELSE signedIn[t]
  <2> DEFINE Ran(s, p) ==
               /\ s \in Users /\ p \in Plans(s)
               /\ signedIn' = [signedIn EXCEPT ![t] = s] /\ plan' = [plan EXCEPT ![t] = p]
               /\ s = IF Decides(c) THEN c[2] ELSE signedIn[t]
  <2>1. signedIn' = signedIn => signedIn' = [signedIn EXCEPT ![t] = signedIn[t]]
    BY DEF FollowInv, TypeOK
  <2>2. plan' = plan => plan' = [plan EXCEPT ![t] = <<>>]
    BY <1>1 DEF FollowInv, TypeOK
  <2>3. \A s : <<>> \in Plans(s)
    BY DEF Plans
  <2>4. ASSUME NEW u \in People, Identify(t, u), Decides(c) => c[2] = u,
               ~Decides(c) => signedIn[t] = u
        PROVE  Ran(u, IdentityPlan(t, u))
    BY <1>4, <2>4, IdentityPlans DEF Identify, Users
  <2>5. CASE c[1] = "identify" /\ Identify(t, c[2])
    <3>1. Decides(c) /\ c[2] \in People
      BY <1>2, <2>5 DEF Decides, Commands
    <3> QED
      BY <2>4, <2>5, <3>1
  <2>6. CASE c[1] = "confirm" /\ Confirm(t, c[2])
    <3>1. ~Decides(c) /\ c[2] \in People
      BY <1>2, <2>6 DEF Decides, Commands
    <3>2. CASE signedIn[t] = c[2] /\ Identify(t, c[2])
      BY <2>4, <3>1, <3>2
    <3>3. CASE signedIn' = signedIn /\ plan' = plan
      <4>1. Ran(signedIn[t], <<>>)
        BY <1>4, <2>1, <2>2, <2>3, <3>1, <3>3
      <4> QED
        BY <4>1
    <3> QED
      BY <2>6, <3>2, <3>3 DEF Confirm
  <2>7. CASE Forgets(c) /\ \E b \in BOOLEAN : Forget(t, b)
    <3>1. ~Decides(c) /\ signedIn[t] = Nobody /\ Nobody \in Users
      BY <1>5, <2>7 DEF Decides, Forgets, Users
    <3>2. CASE signedIn' = signedIn /\ plan' = plan
      <4>1. Ran(signedIn[t], <<>>)
        BY <1>4, <2>1, <2>2, <2>3, <3>1, <3>2
      <4> QED
        BY <4>1
    <3>3. CASE /\ signedIn' = [signedIn EXCEPT ![t] = Nobody]
               /\ plan' = [plan EXCEPT ![t] = ResetPlan(t)]
      <4>1. Ran(Nobody, ResetPlan(t))
        BY <1>4, <3>1, <3>3, ResetPlans
      <4> QED
        BY <4>1
    <3> QED
      BY <2>7, <3>2, <3>3 DEF Forget
  <2>8. CASE c[1] = "yield" /\ Yield(t)
    <3>1. ~Decides(c)
      BY <2>8 DEF Decides
    <3>2. Ran(signedIn[t], <<>>)
      BY <1>4, <2>1, <2>2, <2>3, <2>8, <3>1 DEF Yield
    <3> QED
      BY <3>2
  <2>9. CASE c[1] = "reset" /\ Reset(t)
    <3>1. Decides(c) /\ c[2] = Nobody /\ Nobody \in Users
      BY <1>2, <2>9 DEF Decides, Commands, Users
    <3> DEFINE p == IF ~superseded[t] THEN ResetPlan(t)
                    ELSE IF signedIn[t] # Nobody THEN <<<<"unregister", signedIn[t]>>>>
                         ELSE <<>>
    <3>2. p \in Plans(Nobody)
      BY <1>4, ResetPlans DEF Plans, Users
    <3>3. signedIn' = [signedIn EXCEPT ![t] = Nobody] /\ plan' = [plan EXCEPT ![t] = p]
      BY <2>9 DEF Reset
    <3>4. Ran(Nobody, p)
      BY <3>1, <3>2, <3>3
    <3> QED
      BY <3>4
  <2> QED
    BY <2>5, <2>6, <2>7, <2>8, <2>9 DEF RunCommand, c, Forgets
<1>7. /\ signedIn' \in [Tabs -> Users] /\ plan' \in [Tabs -> Seq(Operations)]
      /\ signedIn'[t] = s /\ plan'[t] = p
      /\ \A o \in Tabs \ {t} : signedIn'[o] = signedIn[o] /\ plan'[o] = plan[o]
  <2>1. p \in Seq(Operations)
    BY <1>6, PlansTyped
  <2> QED
    BY <1>6, <2>1 DEF FollowInv, TypeOK
<1>8. TypeOK'
  <2>1. /\ superseded' \in [Tabs -> BOOLEAN] /\ repair' \in [Tabs -> BOOLEAN]
        /\ held' \in [Tabs -> Identities]
    BY ZenonT(60) DEF RunCommand, Identify, Confirm, Forget, Yield, Reset, FollowInv, TypeOK
  <2> QED
    BY <1>1, <1>3, <1>7, <2>1 DEF FollowInv, TypeOK, browser, history
<1>9. Shape(t)'
  BY <1>1 DEF FollowInv, Shape, Open, Blank
<1>10. Follows(t)'
  <2>1. Leads(Tail(queue[t]), s, user[t])
    BY <1>1, <1>6, LeadsNext DEF FollowInv, Follows, c
  <2>2. \A i \in DOMAIN Tail(queue[t]) : ~Forgets(Tail(queue[t])[i])
    BY <1>2 DEF FollowInv, Follows
  <2>3. Leads(queue[t], signedIn[t], user[t])'
    BY <1>1, <1>3, <1>7, <2>1 DEF Leads
  <2>4. (plan[t] \in Plans(signedIn[t]))'
    BY <1>6, <1>7 DEF Plans
  <2> QED
    BY <1>3, <2>2, <2>3, <2>4 DEF Follows
<1>11. \A o \in Tabs \ {t} : Same(o)
  BY <1>1, <1>3, <1>7 DEF Same
<1> QED
  BY <1>8, <1>9, <1>10, <1>11, OneTab

\* A storage operation of a plan.
LEMMA OperationTyped ==
    ASSUME FollowInv, NEW t \in Tabs, plan[t] # <<>>
    PROVE  /\ Head(plan[t]) \in Operations
           /\ Head(plan[t])[1] \in {"register", "unregister", "identify", "reset"}
           /\ Head(plan[t])[1] \in {"register", "unregister"} => Head(plan[t])[2] \in People
           /\ Head(plan[t])[2] \in Users
           /\ Tail(plan[t]) \in Seq(Operations) /\ Tail(plan[t]) \in Plans(signedIn[t])
<1>1. plan[t] \in Seq(Operations) /\ plan[t] \in Plans(signedIn[t])
  BY DEF FollowInv, TypeOK, Follows
<1>2. Head(plan[t]) \in Operations /\ Tail(plan[t]) \in Seq(Operations)
  BY <1>1, HeadTailProperties
<1>3. Tail(plan[t]) \in Plans(signedIn[t])
  BY <1>1, PlansGoOn
<1>4. \A c \in Operations : /\ c[1] \in {"register", "unregister", "identify", "reset"}
                            /\ c[1] \in {"register", "unregister"} => c[2] \in People
                            /\ c[2] \in Users
  BY DEF Operations, Users
<1> QED
  BY <1>2, <1>3, <1>4

\* A plan that goes on by one operation still follows its tab.
LEMMA OperationFollows ==
    ASSUME FollowInv, NEW t \in Tabs,
           RegistryRead(t) \/ RegistryWritten(t) \/ IdentityWritten(t)
    PROVE  FollowInv'
<1>1. CASE RegistryRead(t)
  <2>1. TypeOK'
    BY <1>1 DEF RegistryRead, FollowInv, TypeOK, browser, history
  <2>2. Shape(t)'
    BY <1>1 DEF RegistryRead, FollowInv, Shape, Open, Blank
  <2>3. Follows(t)'
    BY <1>1 DEF RegistryRead, FollowInv, Follows, Leads, Plans
  <2>4. \A o \in Tabs \ {t} : Same(o)
    BY <1>1 DEF RegistryRead, Same, FollowInv, TypeOK
  <2> QED
    BY <2>1, <2>2, <2>3, <2>4, OneTab
<1>2. CASE RegistryWritten(t) \/ IdentityWritten(t)
  <2>1. /\ plan[t] # <<>> /\ plan' = [plan EXCEPT ![t] = Tail(plan[t])]
        /\ text' = text \/ text' = [text EXCEPT ![t] = <<>>]
        /\ UNCHANGED <<account, page, loaded, user, queue, signedIn, superseded, repair,
                       siblings, logouts, refreshing, acts>>
    BY <1>2 DEF RegistryWritten, IdentityWritten, PlanGoesOn, FollowInv, Shape, history
  <2>2. /\ plan' \in [Tabs -> Seq(Operations)] /\ plan'[t] = Tail(plan[t])
        /\ \A o \in Tabs \ {t} : plan'[o] = plan[o] /\ text'[o] = text[o]
    BY <2>1, OperationTyped DEF FollowInv, TypeOK
  <2>3. text'[t] = <<>>
    BY <1>2 DEF RegistryWritten, IdentityWritten, FollowInv, Shape, TypeOK
  <2>4. registry' \subseteq People /\ overtaken' \in BOOLEAN
    <3>1. CASE RegistryWritten(t)
      <4>1. text[t][1] \in SUBSET People
        BY <3>1 DEF RegistryWritten, FollowInv, TypeOK
      <4>2. Head(plan[t])[1] \in {"register", "unregister"}
        BY <3>1 DEF RegistryWritten, FollowInv, Shape
      <4>3. Head(plan[t])[2] \in People
        BY <2>1, <4>2, OperationTyped
      <4>4. registry' \subseteq People
        BY <3>1, <4>1, <4>3 DEF RegistryWritten
      <4>5. overtaken' \in BOOLEAN
        BY <3>1 DEF RegistryWritten, FollowInv, TypeOK
      <4> QED
        BY <4>4, <4>5
    <3>2. CASE IdentityWritten(t)
      BY <3>2 DEF IdentityWritten, FollowInv, TypeOK, history
    <3> QED
      BY <1>2, <3>1, <3>2
  <2>5. /\ held' \in [Tabs -> Identities] /\ stored' \in Identities
        /\ known' \in [Tabs -> SUBSET People] /\ channel' \in [Tabs -> SUBSET News]
    <3>1. CASE RegistryWritten(t)
      BY <3>1 DEF RegistryWritten, FollowInv, TypeOK
    <3>2. CASE IdentityWritten(t)
      <4> DEFINE id == Head(plan[t])[2]
      <4>1. id \in Users
        BY <2>1, OperationTyped
      <4>2. /\ held' = [held EXCEPT ![t] = id] /\ stored' \in {id, stored}
            /\ known' = [o \in Tabs |-> IF Open(o) /\ id # Nobody THEN known[o] \union {id}
                                        ELSE known[o]]
            /\ channel' = channel \/ (id # Nobody /\ channel' = Posted(t, <<"identified", id>>))
        BY <3>2 DEF IdentityWritten
      <4> HIDE DEF id
      <4>3. id # Nobody => <<"identified", id>> \in News
        BY <4>1 DEF News, Users
      <4>4. channel' \in [Tabs -> SUBSET News]
        BY <4>2, <4>3, PostedTyped DEF FollowInv, TypeOK
      <4>5. held' \in [Tabs -> Identities] /\ stored' \in Identities
        BY <4>1, <4>2 DEF FollowInv, TypeOK, Users, Identities
      <4>6. known' \in [Tabs -> SUBSET People]
        BY <4>1, <4>2 DEF FollowInv, TypeOK, Users
      <4> QED
        BY <4>4, <4>5, <4>6
    <3> QED
      BY <1>2, <3>1, <3>2
  <2>6. TypeOK'
    <3>1. text' \in [Tabs -> {<<>>} \union {<<r>> : r \in SUBSET People}]
      BY <2>1 DEF FollowInv, TypeOK
    <3> QED
      BY <2>1, <2>2, <2>4, <2>5, <3>1 DEF FollowInv, TypeOK
  <2>7. Shape(t)'
    BY <2>1, <2>2, <2>3 DEF FollowInv, Shape, Open, Blank
  <2>8. Follows(t)'
    <3>1. Leads(queue[t], signedIn[t], user[t])'
      BY <2>1 DEF FollowInv, Follows, Leads
    <3>2. plan'[t] \in Plans(signedIn'[t])
      BY <2>1, <2>2, OperationTyped
    <3>3. (plan[t] \in Plans(signedIn[t]))'
      BY <3>2, PlansKept
    <3> QED
      BY <2>1, <3>1, <3>3 DEF FollowInv, Follows
  <2>9. \A o \in Tabs \ {t} : Same(o)
    BY <2>1, <2>2 DEF Same
  <2> QED
    BY <2>6, <2>7, <2>8, <2>9, OneTab
<1> QED
  BY <1>1, <1>2

\* A repair that fires.
LEMMA RepairFollows ==
    ASSUME FollowInv, NEW t \in Tabs, RepairFires(t) PROVE FollowInv'
<1>1. /\ UNCHANGED <<browser, page, loaded, user, queue, text, held, signedIn, siblings,
                     channel, logouts, history, known>>
      /\ plan[t] = <<>> /\ repair' = [repair EXCEPT ![t] = FALSE]
      /\ \/ plan' = plan
         \/ /\ signedIn[t] # Nobody
            /\ plan' = [plan EXCEPT ![t] = IdentityPlan(t, signedIn[t])]
            /\ UNCHANGED <<superseded, refreshing>>
      /\ \/ UNCHANGED <<superseded, refreshing>>
         \/ signedIn[t] # Nobody /\ Supersede(t)
  BY DEF RepairFires, Idle
<1>2. signedIn[t] # Nobody => /\ signedIn[t] \in People /\ Open(t) /\ loaded[t]
                              /\ IdentityPlan(t, signedIn[t]) \in Plans(signedIn[t])
  <2>1. signedIn[t] \in Users /\ (signedIn[t] # Nobody => signedIn[t] \in People)
    BY DEF FollowInv, TypeOK, Users
  <2>2. signedIn[t] # Nobody => Open(t) /\ loaded[t]
    BY DEF FollowInv, Shape, Blank
  <2> QED
    BY <2>1, <2>2, IdentityPlans
<1>3. /\ plan' \in [Tabs -> Seq(Operations)] /\ plan'[t] \in Plans(signedIn[t])
      /\ \A o \in Tabs \ {t} : plan'[o] = plan[o]
  <2>1. signedIn[t] # Nobody => IdentityPlan(t, signedIn[t]) \in Seq(Operations)
    BY <1>2, PlansTyped DEF FollowInv, TypeOK
  <2>2. plan[t] \in Plans(signedIn[t])
    BY DEF FollowInv, Follows
  <2>3. CASE plan' = plan
    BY <2>2, <2>3 DEF FollowInv, TypeOK
  <2>4. CASE signedIn[t] # Nobody /\ plan' = [plan EXCEPT ![t] = IdentityPlan(t, signedIn[t])]
    BY <1>2, <2>1, <2>4 DEF FollowInv, TypeOK
  <2> QED
    BY <1>1, <2>3, <2>4
<1>4. TypeOK'
  <2>1. /\ superseded' \in [Tabs -> BOOLEAN]
        /\ refreshing' \in [Tabs -> {"no", "refresh", "recheck"}]
    BY <1>1 DEF Supersede, FollowInv, TypeOK
  <2>2. repair' \in [Tabs -> BOOLEAN]
    BY <1>1 DEF FollowInv, TypeOK
  <2> QED
    BY <1>1, <1>3, <2>1, <2>2 DEF FollowInv, TypeOK, browser, history
<1>5. text[t] = <<>>
  BY <1>1 DEF FollowInv, Shape
<1>6. Shape(t)'
  <2>1. CASE signedIn[t] = Nobody
    <3>1. plan' = plan /\ refreshing' = refreshing
      BY <1>1, <2>1
    <3> QED
      BY <1>1, <3>1 DEF FollowInv, Shape, Open, Blank
  <2>2. CASE signedIn[t] # Nobody
    BY <1>1, <1>2, <1>5, <2>2 DEF Shape, Open
  <2> QED
    BY <2>1, <2>2
<1>7. Follows(t)'
  <2>1. Leads(queue[t], signedIn[t], user[t])'
    BY <1>1 DEF FollowInv, Follows, Leads
  <2>2. (plan[t] \in Plans(signedIn[t]))'
    BY <1>1, <1>3 DEF Plans
  <2> QED
    BY <1>1, <2>1, <2>2 DEF FollowInv, Follows
<1>8. \A o \in Tabs \ {t} : Same(o)
  BY <1>1, <1>3 DEF Same, Supersede, FollowInv, TypeOK
<1> QED
  BY <1>4, <1>6, <1>7, <1>8, OneTab

\* Nothing is asked yet.
LEMMA FollowInit == Init => FollowInv
<1> SUFFICES ASSUME Init PROVE FollowInv
  OBVIOUS
<1>1. TypeOK
  <2>1. /\ queue \in [Tabs -> Seq(Commands)] /\ plan \in [Tabs -> Seq(Operations)]
        /\ acts \in 0 .. MaxActs
    BY IdentityAssumption DEF Init
  <2>2. /\ text \in [Tabs -> {<<>>} \union {<<r>> : r \in SUBSET People}]
        /\ siblings \in [Tabs -> SUBSET People] /\ channel \in [Tabs -> SUBSET News]
        /\ known \in [Tabs -> SUBSET People]
    BY DEF Init
  <2> QED
    BY <2>1, <2>2 DEF Init, TypeOK, Users, Identities
<1>2. ASSUME NEW t \in Tabs PROVE Shape(t) /\ Follows(t)
  BY DEF Init, Shape, Blank, Open, Follows, Leads, Plans
<1> QED
  BY <1>1, <1>2 DEF FollowInv

\* Every step keeps it.
LEMMA FollowStep == ASSUME FollowInv, [Next]_vars PROVE FollowInv'
<1>1. CASE UNCHANGED vars
  BY <1>1 DEF vars, browser, facade, history, FollowInv, TypeOK, Shape, Follows, Open, Blank,
     Leads, Plans
<1>2. CASE Next
  BY <1>2, RestoreFollows, LoadFollows, DiscardFollows, SignFollows, SettledFollows,
     QuietFollows, CommandFollows, OperationFollows, RepairFollows DEF Next
<1> QED
  BY <1>1, <1>2

\* Queues and plans follow their tab's user (telemetry.ts:191-218, 416-449).
THEOREM QueuesFollow == Spec => []FollowInv
BY FollowInit, FollowStep, PTL DEF Spec

-----------------------------------------------------------------------------
(* What a plan still has to do. *)

Has(p, op) == \E i \in DOMAIN p : p[i][1] = op
Resets(t) == Has(plan[t], "reset")

\* What plans of each length have to do.
LEMMA HasNone == ASSUME NEW op PROVE ~Has(<<>>, op)
BY DEF Has

LEMMA HasOne == ASSUME NEW a, NEW op PROVE Has(<<a>>, op) <=> a[1] = op
BY DEF Has

LEMMA HasTwo == ASSUME NEW a, NEW b, NEW op PROVE Has(<<a, b>>, op) <=> a[1] = op \/ b[1] = op
BY DEF Has

LEMMA HasThree ==
    ASSUME NEW a, NEW b, NEW c, NEW op
    PROVE  Has(<<a, b, c>>, op) <=> a[1] = op \/ b[1] = op \/ c[1] = op
<1>1. DOMAIN <<a, b, c>> = {1, 2, 3}
  OBVIOUS
<1> QED
  BY <1>1 DEF Has

LEMMA HasFour ==
    ASSUME NEW a, NEW b, NEW c, NEW d, NEW op
    PROVE  Has(<<a, b, c, d>>, op) <=> a[1] = op \/ b[1] = op \/ c[1] = op \/ d[1] = op
<1>1. DOMAIN <<a, b, c, d>> = {1, 2, 3, 4}
  OBVIOUS
<1> QED
  BY <1>1 DEF Has

\* What a plan begins with tells the rest of it.
LEMMA PlanHeads ==
    ASSUME NEW u \in Users, NEW p \in Plans(u), p # <<>>
    PROVE  /\ Head(p)[1] = "identify" => u # Nobody /\ p = <<<<"identify", u>>>>
           /\ Head(p)[1] = "register" =>
                 u # Nobody /\ p = <<<<"register", u>>, <<"identify", u>>>>
           /\ Head(p)[1] = "reset" => Head(p)[2] = Nobody
           /\ Head(p)[1] \in {"identify", "register"} => ~Has(p, "reset")
           /\ Has(p, "identify") <=> u # Nobody
<1> DEFINE un(x) == <<"unregister", x>>
           re == <<"register", u>>
           id == <<"identify", u>>
           no == <<"reset", Nobody>>
<1>1. /\ \A x : un(x)[1] = "unregister"
      /\ re[1] = "register" /\ id[1] = "identify" /\ no[1] = "reset" /\ no[2] = Nobody
  OBVIOUS
<1>2. u = Nobody => \/ p = <<no>>
                    \/ \E x \in People : p = <<un(x)>> \/ p = <<un(x), no>>
  BY DEF Plans
<1>3. u # Nobody => \/ p = <<id>> \/ p = <<re, id>> \/ p = <<no, re, id>>
                    \/ \E x \in People : p = <<un(x), no, re, id>>
  BY DEF Plans
<1> HIDE DEF un, re, id, no
<1>4. ASSUME NEW x \in People, u = Nobody,
             p = <<no>> \/ p = <<un(x)>> \/ p = <<un(x), no>>
      PROVE  /\ Head(p) \in {no, un(x)} /\ ~Has(p, "identify")
  <2>1. CASE p = <<no>>
    BY <1>1, <2>1, HasOne
  <2>2. CASE p = <<un(x)>>
    BY <1>1, <2>2, HasOne
  <2>3. CASE p = <<un(x), no>>
    BY <1>1, <2>3, HasTwo
  <2> QED
    BY <1>4, <2>1, <2>2, <2>3
<1>5. CASE p = <<no>> /\ u = Nobody
  <2>1. Head(p) = no /\ ~Has(p, "identify")
    BY <1>1, <1>5, HasOne
  <2> QED
    BY <1>1, <1>5, <2>1
<1>6. CASE u = Nobody
  BY <1>1, <1>2, <1>4, <1>5, <1>6
<1>7. ASSUME u # Nobody, p = <<id>>
      PROVE  Head(p) = id /\ Has(p, "identify") /\ ~Has(p, "reset")
  BY <1>1, <1>7, HasOne
<1>8. ASSUME u # Nobody, p = <<re, id>>
      PROVE  Head(p) = re /\ Has(p, "identify") /\ ~Has(p, "reset")
  BY <1>1, <1>8, HasTwo
<1>9. ASSUME u # Nobody, p = <<no, re, id>> PROVE Head(p) = no /\ Has(p, "identify")
  BY <1>1, <1>9, HasThree
<1>10. ASSUME u # Nobody, NEW x \in People, p = <<un(x), no, re, id>>
       PROVE  Head(p) = un(x) /\ Has(p, "identify")
  BY <1>1, <1>10, HasFour
<1>11. CASE u # Nobody
  <2>1. CASE p = <<id>>
    BY <1>1, <1>7, <1>11, <2>1 DEF id
  <2>2. CASE p = <<re, id>>
    BY <1>1, <1>8, <1>11, <2>2 DEF id, re
  <2>3. CASE p = <<no, re, id>>
    BY <1>1, <1>9, <1>11, <2>3
  <2>4. CASE \E x \in People : p = <<un(x), no, re, id>>
    BY <1>1, <1>10, <1>11, <2>4
  <2> QED
    BY <1>3, <1>11, <2>1, <2>2, <2>3, <2>4
<1> QED
  BY <1>6, <1>11

\* What is done later is done by the rest.
LEMMA HasNext ==
    ASSUME NEW p \in Seq(Operations), p # <<>>, NEW op, Has(p, op), Head(p)[1] # op
    PROVE  Has(Tail(p), op)
<1>1. /\ DOMAIN p = 1 .. Len(p) /\ Len(p) \in Nat /\ Head(p) = p[1]
      /\ DOMAIN Tail(p) = 1 .. (Len(p) - 1)
      /\ \A i \in 1 .. (Len(p) - 1) : Tail(p)[i] = p[i + 1]
  OBVIOUS
<1>2. PICK i \in DOMAIN p : p[i][1] = op
  BY DEF Has
<1>3. i # 1 /\ i - 1 \in DOMAIN Tail(p) /\ Tail(p)[i - 1] = p[i]
  BY <1>1, <1>2
<1> QED
  BY <1>2, <1>3 DEF Has

\* A tab identifies while a plan of somebody signed in goes on.
LEMMA Identifying ==
    ASSUME FollowInv, NEW t \in Tabs
    PROVE  Identifies(t) <=> signedIn[t] # Nobody /\ plan[t] # <<>>
<1>1. Identifies(t) <=> Has(plan[t], "identify")
  BY DEF Identifies, Has
<1>2. plan[t] = <<>> => ~Has(plan[t], "identify")
  BY HasNone
<1>3. signedIn[t] \in Users /\ plan[t] \in Plans(signedIn[t])
  BY DEF FollowInv, TypeOK, Follows
<1> QED
  BY <1>1, <1>2, <1>3, PlanHeads

\* A reset resets, and an identity that is not the tab's own is reset first.
LEMMA PlansReset ==
    ASSUME NEW t \in Tabs, signedIn[t] \in Users
    PROVE  /\ Has(ResetPlan(t), "reset")
           /\ \A u \in People : held[t] \notin {Nobody, u} => Has(IdentityPlan(t, u), "reset")
           /\ \A u \in People : IdentityPlan(t, u) # <<>>
<1> DEFINE un == <<"unregister", signedIn[t]>>
           re(u) == <<"register", u>>
           id(u) == <<"identify", u>>
           no == <<"reset", Nobody>>
<1>1. no[1] = "reset"
  OBVIOUS
<1>2. ResetPlan(t) = <<no>> \/ ResetPlan(t) = <<un, no>>
  BY ResetPlans
<1>3. \A u \in People : /\ held[t] \in {Nobody, u} => IdentityPlan(t, u) = <<re(u), id(u)>>
                        /\ held[t] \notin {Nobody, u} =>
                              \/ IdentityPlan(t, u) = <<no, re(u), id(u)>>
                              \/ IdentityPlan(t, u) = <<un, no, re(u), id(u)>>
  BY IdentityPlans
<1> HIDE DEF un, re, id, no
<1>4. Has(ResetPlan(t), "reset")
  BY <1>1, <1>2, HasOne, HasTwo
<1>5. ASSUME NEW u \in People, held[t] \notin {Nobody, u}
      PROVE  Has(IdentityPlan(t, u), "reset")
  <2>1. CASE IdentityPlan(t, u) = <<no, re(u), id(u)>>
    BY <1>1, <2>1, HasThree
  <2>2. CASE IdentityPlan(t, u) = <<un, no, re(u), id(u)>>
    BY <1>1, <2>2, HasFour
  <2> QED
    BY <1>3, <1>5, <2>1, <2>2
<1>6. \A u \in People : IdentityPlan(t, u) # <<>>
  BY <1>3
<1> QED
  BY <1>4, <1>5, <1>6

-----------------------------------------------------------------------------
(* An identity that a page has not seen is on its way out of it. *)

Stranger(t, x) == x \in People \ known[t]

\* The tab is about to run its first command, or runs one that takes the held
\* identity away or makes it its own.
Cleanses(t) ==
    \/ plan[t] = <<>> /\ Opens(queue[t])
    \/ plan[t] # <<>> /\ (Resets(t) \/ signedIn[t] = held[t])

StoredSeen(t) == loaded[t] /\ Stranger(t, stored) => held[t] = stored
HeldSeen(t)   == loaded[t] /\ Stranger(t, held[t]) => Cleanses(t)
HeardSeen(t) ==
    /\ siblings[t] \subseteq known[t]
    /\ \A p \in People : <<"identified", p>> \in channel[t] => p \in known[t]
    /\ ~Open(t) => siblings[t] = {} /\ channel[t] = {}
SignedSeen(t) ==
    Open(t) => \A o \in Tabs : signedIn[o] \in known[t] \union {Nobody} \/ plan[o] # <<>>

SeenInv ==
    FollowInv /\ \A t \in Tabs : StoredSeen(t) /\ HeldSeen(t) /\ HeardSeen(t) /\ SignedSeen(t)

\* What a command does.
Commanded(t) ==
    \/ \E u \in People : /\ signedIn'[t] = u /\ plan'[t] = IdentityPlan(t, u)
                         /\ held'[t] = held[t]
    \/ signedIn'[t] = Nobody /\ plan'[t] = ResetPlan(t) /\ held'[t] = held[t]
    \/ /\ ~Opens(queue[t])
       /\ signedIn'[t] = Nobody /\ held'[t] = held[t] /\ superseded[t]
       /\ plan'[t] = <<>> \/ plan'[t] = <<<<"unregister", signedIn[t]>>>>
    \/ /\ ~Opens(queue[t])
       /\ signedIn'[t] = signedIn[t] /\ plan'[t] = <<>> /\ held'[t] = stored
    \/ /\ signedIn'[t] = signedIn[t] /\ plan'[t] = <<>> /\ held'[t] = held[t]
       /\ Opens(queue[t]) => held[t] = Nobody \/ held[t] \in siblings[t]

\* Nothing but what the command does changes.
LEMMA CommandDoes ==
    ASSUME FollowInv, NEW t \in Tabs, RunCommand(t)
    PROVE  /\ Commanded(t) /\ loaded[t] /\ plan[t] = <<>>
           /\ \A o \in Tabs \ {t} : /\ signedIn'[o] = signedIn[o] /\ plan'[o] = plan[o]
                                    /\ held'[o] = held[o] /\ queue'[o] = queue[o]
           /\ UNCHANGED <<browser, page, loaded, text, siblings, channel, history, known>>
<1> DEFINE c == Head(queue[t])
<1>1. /\ queue[t] \in Seq(Commands) /\ queue[t] # <<>> /\ plan[t] = <<>> /\ loaded[t]
      /\ queue' = [queue EXCEPT ![t] = Tail(@)]
      /\ UNCHANGED <<browser, page, loaded, user, text, siblings, channel, logouts,
                     refreshing, history, known>>
  BY DEF RunCommand, FollowInv, TypeOK
<1>2. c \in Commands
  BY <1>1, HeadTailProperties
<1>3. c[1] \notin {"identify", "forget", "forget unless held"} => ~Opens(queue[t])
  BY DEF Opens
<1>4. /\ signedIn \in [Tabs -> Users] /\ plan \in [Tabs -> Seq(Operations)]
      /\ held \in [Tabs -> Identities]
  BY DEF FollowInv, TypeOK
<1> HIDE DEF c
<1> DEFINE Rest == \A o \in Tabs \ {t} : /\ signedIn'[o] = signedIn[o] /\ plan'[o] = plan[o]
                                         /\ held'[o] = held[o]
<1>5. ASSUME NEW u \in People, Identify(t, u) PROVE Rest /\ Commanded(t)
  BY <1>4, <1>5 DEF Identify, Commanded
<1>6. ASSUME c[1] = "identify" /\ Identify(t, c[2]) PROVE Rest /\ Commanded(t)
  <2>1. c[2] \in People
    BY <1>2, <1>6 DEF Commands
  <2> QED
    BY <1>5, <1>6, <2>1
<1>7. ASSUME c[1] = "confirm" /\ Confirm(t, c[2]) PROVE Rest /\ Commanded(t)
  <2>1. c[2] \in People /\ ~Opens(queue[t])
    BY <1>2, <1>3, <1>7 DEF Commands
  <2>2. CASE Identify(t, c[2])
    BY <1>5, <2>1, <2>2
  <2>3. CASE UNCHANGED <<held, signedIn, plan>>
    BY <1>1, <2>1, <2>3 DEF Commanded
  <2> QED
    BY <1>7, <2>2, <2>3 DEF Confirm
<1>8. ASSUME NEW b \in BOOLEAN, Forget(t, b) PROVE Rest /\ Commanded(t)
  <2>1. CASE UNCHANGED <<plan, signedIn, held>> /\ (held[t] = Nobody \/ held[t] \in siblings[t])
    BY <1>1, <2>1 DEF Commanded
  <2>2. CASE /\ plan' = [plan EXCEPT ![t] = ResetPlan(t)]
             /\ signedIn' = [signedIn EXCEPT ![t] = Nobody] /\ held' = held
    BY <1>4, <2>2 DEF Commanded
  <2> QED
    BY <1>8, <2>1, <2>2 DEF Forget
<1>9. ASSUME c[1] = "yield" /\ Yield(t) PROVE Rest /\ Commanded(t)
  BY <1>1, <1>3, <1>4, <1>9 DEF Yield, Commanded
<1>10. ASSUME c[1] = "reset" /\ Reset(t) PROVE Rest /\ Commanded(t)
  <2>1. signedIn' = [signedIn EXCEPT ![t] = Nobody] /\ held' = held
    BY <1>10 DEF Reset
  <2>2. CASE plan' = [plan EXCEPT ![t] = ResetPlan(t)]
    BY <1>4, <2>1, <2>2 DEF Commanded
  <2>3. CASE superseded[t] /\ \/ plan' = [plan EXCEPT ![t] = <<>>]
                              \/ plan' = [plan EXCEPT ![t] = <<<<"unregister", signedIn[t]>>>>]
    BY <1>3, <1>4, <1>10, <2>1, <2>3 DEF Commanded
  <2> QED
    BY <1>10, <2>2, <2>3 DEF Reset
<1>11. Rest /\ Commanded(t)
  BY <1>6, <1>7, <1>8, <1>9, <1>10, <1>5 DEF RunCommand, c
<1>12. \A o \in Tabs \ {t} : queue'[o] = queue[o]
  BY <1>1 DEF FollowInv, TypeOK
<1> QED
  BY <1>1, <1>11, <1>12

\* A queue that grows begins as it did.
LEMMA OpensStill ==
    ASSUME FollowInv, NEW t \in Tabs, NEW q \in Seq(Commands), Asks(t, q)
    PROVE  \A o \in Tabs : Opens(queue[o]) => Opens(queue'[o])
<1>1. queue[t] \in Seq(Commands) /\ queue'[t] = queue[t] \o q
      /\ \A o \in Tabs \ {t} : queue'[o] = queue[o]
  BY DEF Asks, FollowInv, TypeOK
<1>2. Opens(queue[t]) => Opens(queue'[t])
  BY <1>1, HeadJoined, ZenonT(60) DEF Opens
<1> QED
  BY <1>1, <1>2

\* A step that stores, holds and tells nothing new.
LEMMA SeenKept ==
    ASSUME SeenInv, FollowInv', stored' = stored \/ stored' \notin People,
           UNCHANGED <<loaded, held, signedIn, siblings, known>>,
           \A o \in Tabs :
              /\ Open(o)' <=> Open(o)
              /\ loaded[o] /\ Stranger(o, held[o]) /\ Cleanses(o) => Cleanses(o)'
              /\ plan[o] # <<>> /\ signedIn[o] # Nobody => plan'[o] # <<>>
              /\ channel'[o] \subseteq channel[o]
    PROVE  SeenInv'
<1>1. ASSUME NEW o \in Tabs PROVE StoredSeen(o)' /\ HeldSeen(o)'
  BY DEF SeenInv, StoredSeen, HeldSeen, Stranger
<1>2. ASSUME NEW o \in Tabs PROVE HeardSeen(o)' /\ SignedSeen(o)'
  BY DEF SeenInv, HeardSeen, SignedSeen
<1> QED
  BY <1>1, <1>2 DEF SeenInv

\* The steps that are so, a change of user among them.
LEMMA QuietSeen ==
    ASSUME SeenInv, FollowInv',
           \/ \E t \in Tabs : \/ \E p \in People : SignIn(t, p)
                              \/ SignOut(t) \/ HearLogout(t) \/ Refreshed(t)
                              \/ RefreshInBackground(t) \/ RefreshFailed(t)
                              \/ RegistryRead(t) \/ EventDropped(t) \/ EventSent(t)
           \/ (\E p \in People : RegistryExpires(p)) \/ WebsiteWrites \/ SessionEnds
           \/ UNCHANGED vars
    PROVE  SeenInv'
<1>0. FollowInv
  BY DEF SeenInv
<1>1. ASSUME stored' = stored \/ stored' \notin People,
             UNCHANGED <<loaded, plan, held, signedIn, siblings, channel, known>>,
             \A o \in Tabs : /\ Open(o)' <=> Open(o)
                             /\ Opens(queue[o]) => Opens(queue'[o])
      PROVE  SeenInv'
  <2>1. \A o \in Tabs : Cleanses(o) => Cleanses(o)'
    BY <1>1 DEF Cleanses, Resets, Opens
  <2> QED
    BY <1>1, <2>1, SeenKept
<1>2. ASSUME NEW t \in Tabs, (\E p \in People : SignIn(t, p)) \/ SignOut(t) PROVE SeenInv'
  <2>1. /\ stored' = stored
        /\ UNCHANGED <<loaded, plan, held, signedIn, siblings, channel, known>>
        /\ page[t] = "open"
        /\ page' = page \/ page' = [page EXCEPT ![t] = "leaving"]
    BY <1>2 DEF SignIn, SignOut
  <2>2. \A o \in Tabs : Open(o)' <=> Open(o)
    BY <1>0, <1>2, <2>1 DEF FollowInv, TypeOK, Open, SignIn, SignOut
  <2>3. \A o \in Tabs : Opens(queue[o]) => Opens(queue'[o])
    BY <1>0, <1>2, SignAsks, OpensStill
  <2> QED
    BY <1>1, <2>1, <2>2, <2>3
<1>3. ASSUME NEW t \in Tabs, HearLogout(t) \/ Refreshed(t) PROVE SeenInv'
  <2>1. UNCHANGED <<stored, loaded, plan, held, signedIn, siblings, channel, known>>
    BY <1>3 DEF HearLogout, Refreshed, browser
  <2>2. Open(t)
    BY <1>0, <1>3 DEF HearLogout, Refreshed, FollowInv, Shape, Blank
  <2>3. \A o \in Tabs : Open(o)' <=> Open(o)
    BY <1>0, <1>3, <2>2
       DEF FollowInv, TypeOK, Open, HearLogout, Refreshed, Confirmed, SomebodyElse, Ended,
           Leaves
  <2>4. \A o \in Tabs : Opens(queue[o]) => Opens(queue'[o])
    BY <1>0, <1>3, SettledAsks, OpensStill
  <2> QED
    BY <1>1, <2>1, <2>3, <2>4
<1>4. CASE \E t \in Tabs : \/ RefreshInBackground(t) \/ RefreshFailed(t)
                           \/ RegistryRead(t) \/ EventDropped(t) \/ EventSent(t)
  BY <1>1, <1>4 DEF RefreshInBackground, RefreshFailed, RegistryRead, EventDropped, EventSent,
     browser, facade, Open
<1>5. CASE (\E p \in People : RegistryExpires(p)) \/ WebsiteWrites \/ SessionEnds
  BY <1>1, <1>5, IdentityAssumption DEF RegistryExpires, WebsiteWrites, SessionEnds, facade, Open
<1>6. CASE UNCHANGED vars
  BY <1>1, <1>6 DEF vars, browser, facade, history, Open
<1> QED
  BY <1>2, <1>3, <1>4, <1>5, <1>6

\* A registry write goes on to the reset or the identify() that is planned, and a
\* repair finds no stranger.
LEMMA PlanSeen ==
    ASSUME SeenInv, FollowInv', NEW t \in Tabs, RegistryWritten(t) \/ RepairFires(t)
    PROVE  SeenInv'
<1>0. FollowInv
  BY DEF SeenInv
<1>1. /\ UNCHANGED <<stored, page, loaded, held, queue, signedIn, siblings, channel, known>>
      /\ \A o \in Tabs \ {t} : plan'[o] = plan[o]
  BY <1>0 DEF RegistryWritten, RepairFires, PlanGoesOn, browser, FollowInv, TypeOK
<1>2. /\ loaded[t] /\ Stranger(t, held[t]) /\ Cleanses(t) => Cleanses(t)'
      /\ plan[t] # <<>> /\ signedIn[t] # Nobody => plan'[t] # <<>>
  <2>1. CASE RegistryWritten(t)
    <3>1. /\ plan[t] # <<>> /\ plan'[t] = Tail(plan[t])
          /\ Head(plan[t])[1] \in {"register", "unregister"}
          /\ plan[t] \in Seq(Operations)
      BY <1>0, <2>1 DEF RegistryWritten, PlanGoesOn, FollowInv, Shape, TypeOK
    <3>2. Has(plan[t], "reset") => Has(plan'[t], "reset")
      BY <3>1, HasNext
    <3>3. signedIn[t] # Nobody => plan'[t] # <<>>
      <4>1. signedIn[t] # Nobody => Has(plan[t], "identify")
        BY <1>0, <3>1, PlanHeads DEF FollowInv, Follows, TypeOK
      <4>2. signedIn[t] # Nobody => Has(plan'[t], "identify")
        BY <3>1, <4>1, HasNext
      <4> QED
        BY <4>2, HasNone
    <3>4. Has(plan'[t], "reset") => plan'[t] # <<>>
      BY HasNone
    <3>5. (held[t] \in People /\ signedIn[t] = held[t]) => signedIn[t] # Nobody
      BY IdentityAssumption
    <3> QED
      BY <1>1, <3>1, <3>2, <3>3, <3>4, <3>5 DEF Cleanses, Resets, Stranger
  <2>2. CASE RepairFires(t)
    BY <2>2 DEF RepairFires, Idle, Cleanses, Opens
  <2> QED
    BY <2>1, <2>2
<1>3. \A o \in Tabs \ {t} : Cleanses(o) => Cleanses(o)'
  BY <1>1 DEF Cleanses, Resets, Opens
<1>4. \A o \in Tabs : Open(o)' <=> Open(o)
  BY <1>1 DEF Open
<1> QED
  BY <1>1, <1>2, <1>3, <1>4, SeenKept

\* A page that begins, whose SDK loads, or that goes.
LEMMA PageSeen ==
    ASSUME SeenInv, FollowInv', NEW t \in Tabs,
           Restore(t) \/ SDKLoaded(t) \/ Unload(t) \/ CloseTab(t)
    PROVE  SeenInv'
<1>0. FollowInv
  BY DEF SeenInv
<1>1. CASE Restore(t)
  <2>1. /\ UNCHANGED <<stored, loaded, held, plan, signedIn, siblings>>
        /\ page'[t] = "open" /\ known'[t] = SignedInSomewhere
        /\ \A o \in Tabs \ {t} : /\ page'[o] = page[o] /\ known'[o] = known[o]
                                 /\ queue'[o] = queue[o]
        /\ channel' = channel \/ channel' = Posted(t, <<"who", Nobody>>)
    <3>1. \E q : queue' = [queue EXCEPT ![t] = q]
      BY <1>1 DEF Restore, Asks
    <3>2. \A o \in Tabs \ {t} : queue'[o] = queue[o]
      BY <1>0, <3>1 DEF FollowInv, TypeOK
    <3>3. /\ page' = [page EXCEPT ![t] = "open"]
          /\ known' = [known EXCEPT ![t] = SignedInSomewhere]
      BY <1>1 DEF Restore
    <3>4. /\ UNCHANGED <<stored, loaded, held, plan, signedIn, siblings>>
          /\ channel' = channel \/ channel' = Posted(t, <<"who", Nobody>>)
      BY <1>1 DEF Restore, browser
    <3> QED
      BY <1>0, <3>2, <3>3, <3>4 DEF FollowInv, TypeOK
  <2>2. ~loaded[t] /\ siblings[t] = {} /\ channel[t] = {}
    BY <1>0, <1>1 DEF Restore, FollowInv, Shape, Blank, Open, SeenInv, HeardSeen
  <2>3. channel'[t] = {}
    BY <1>0, <2>1, <2>2 DEF Posted, Others
  <2>4. \A o \in Tabs \ {t} : /\ \A p \in People : <<"identified", p>> \in channel'[o] =>
                                                      <<"identified", p>> \in channel[o]
                              /\ ~Open(o) => channel'[o] = channel[o]
    BY <2>1 DEF Posted, Others
  <2>5. \A o \in Tabs : signedIn[o] \in SignedInSomewhere \union {Nobody}
    BY <1>0 DEF SignedInSomewhere, FollowInv, Shape, Blank
  <2>6. ASSUME NEW o \in Tabs PROVE StoredSeen(o)' /\ HeldSeen(o)'
    BY <2>1, <2>2, <2>6 DEF SeenInv, StoredSeen, HeldSeen, Stranger, Cleanses, Resets, Opens
  <2>7. ASSUME NEW o \in Tabs PROVE HeardSeen(o)' /\ SignedSeen(o)'
    <3>1. CASE o = t
      BY <2>1, <2>2, <2>3, <2>5, <3>1 DEF HeardSeen, SignedSeen, Open
    <3>2. CASE o # t
      BY <2>1, <2>4, <3>2 DEF SeenInv, HeardSeen, SignedSeen, Open
    <3> QED
      BY <3>1, <3>2
  <2> QED
    BY <2>6, <2>7 DEF SeenInv
<1>2. CASE SDKLoaded(t)
  <2>1. /\ UNCHANGED <<stored, page, queue, plan, signedIn, siblings, channel, known>>
        /\ Open(t) /\ ~loaded[t] /\ held'[t] = stored
        /\ \A o \in Tabs \ {t} : loaded'[o] = loaded[o] /\ held'[o] = held[o]
    BY <1>0, <1>2 DEF SDKLoaded, FollowInv, TypeOK, browser
  <2>2. plan[t] = <<>> /\ Opens(queue[t])
    BY <1>0, <2>1 DEF FollowInv, Shape
  <2>3. Cleanses(t)'
    BY <2>1, <2>2 DEF Cleanses, Opens
  <2>4. ASSUME NEW o \in Tabs PROVE StoredSeen(o)' /\ HeldSeen(o)'
    BY <2>1, <2>3 DEF SeenInv, StoredSeen, HeldSeen, Stranger, Cleanses, Resets, Opens
  <2>5. ASSUME NEW o \in Tabs PROVE HeardSeen(o)' /\ SignedSeen(o)'
    BY <2>1 DEF SeenInv, HeardSeen, SignedSeen, Open
  <2> QED
    BY <2>4, <2>5 DEF SeenInv
<1>3. CASE Unload(t) \/ CloseTab(t)
  <2>1. /\ Discard(t) /\ plan[t] = <<>>
    BY <1>3 DEF Unload, CloseTab, Idle
  <2>2. /\ UNCHANGED <<stored, plan>>
        /\ ~loaded'[t] /\ ~Open(t)' /\ signedIn'[t] = Nobody
        /\ siblings'[t] = {} /\ channel'[t] = {}
        /\ \A o \in Tabs \ {t} :
              /\ page'[o] = page[o] /\ loaded'[o] = loaded[o] /\ held'[o] = held[o]
              /\ queue'[o] = queue[o] /\ signedIn'[o] = signedIn[o]
              /\ siblings'[o] = siblings[o] /\ channel'[o] = channel[o]
              /\ known'[o] = known[o]
    BY <1>0, <2>1 DEF Discard, FollowInv, TypeOK, browser, Open
  <2>3. ASSUME NEW o \in Tabs PROVE StoredSeen(o)' /\ HeldSeen(o)'
    BY <2>2 DEF SeenInv, StoredSeen, HeldSeen, Stranger, Cleanses, Resets, Opens
  <2>4. ASSUME NEW o \in Tabs PROVE HeardSeen(o)' /\ SignedSeen(o)'
    BY <2>2 DEF SeenInv, HeardSeen, SignedSeen, Open
  <2> QED
    BY <2>3, <2>4 DEF SeenInv
<1> QED
  BY <1>1, <1>2, <1>3

\* A command leaves a stranger alone only when it holds nobody.
LEMMA CommandSeen ==
    ASSUME SeenInv, FollowInv', NEW t \in Tabs, RunCommand(t) PROVE SeenInv'
<1>0. FollowInv
  BY DEF SeenInv
<1>1. /\ Commanded(t) /\ loaded[t] /\ plan[t] = <<>>
      /\ \A o \in Tabs \ {t} : /\ signedIn'[o] = signedIn[o] /\ plan'[o] = plan[o]
                               /\ held'[o] = held[o] /\ queue'[o] = queue[o]
      /\ UNCHANGED <<stored, page, loaded, siblings, channel, known>>
  BY <1>0, CommandDoes DEF browser
<1>2. held'[t] = held[t] \/ held'[t] = stored
  BY <1>1 DEF Commanded
<1>3. signedIn[t] \in Users /\ ~Resets(t) /\ siblings[t] \subseteq known[t]
  BY <1>0, <1>1, HasNone DEF FollowInv, TypeOK, Resets, SeenInv, HeardSeen
<1>4. Stranger(t, held[t]) => Opens(queue[t])
  BY <1>1 DEF SeenInv, HeldSeen, Cleanses
<1>5. Stranger(t, held'[t]) => Cleanses(t)'
  <2> SUFFICES ASSUME Stranger(t, held'[t]) PROVE Cleanses(t)'
    OBVIOUS
  <2>1. Stranger(t, held[t]) /\ held'[t] = held[t] /\ Opens(queue[t])
    BY <1>1, <1>2, <1>4 DEF SeenInv, StoredSeen, Stranger
  <2>2. held[t] \in People /\ held[t] # Nobody /\ held[t] \notin siblings[t]
    BY <1>3, <2>1, IdentityAssumption DEF Stranger
  <2>3. CASE signedIn'[t] = Nobody /\ plan'[t] = ResetPlan(t)
    <3>1. Has(plan'[t], "reset") /\ plan'[t] # <<>>
      BY <1>3, <2>3, PlansReset, HasNone
    <3> QED
      BY <3>1 DEF Cleanses, Resets, Has
  <2>4. ASSUME NEW u \in People, signedIn'[t] = u, plan'[t] = IdentityPlan(t, u)
        PROVE  Cleanses(t)'
    <3>1. plan'[t] # <<>> /\ (held[t] # u => Has(plan'[t], "reset"))
      BY <1>3, <2>2, <2>4, PlansReset
    <3> QED
      BY <2>1, <2>4, <3>1 DEF Cleanses, Resets, Has
  <2>5. \/ \E u \in People : signedIn'[t] = u /\ plan'[t] = IdentityPlan(t, u)
        \/ signedIn'[t] = Nobody /\ plan'[t] = ResetPlan(t)
    BY <1>1, <2>1, <2>2 DEF Commanded
  <2> QED
    BY <2>3, <2>4, <2>5
<1>6. \/ signedIn'[t] = signedIn[t] \/ signedIn'[t] = Nobody \/ plan'[t] # <<>>
  BY <1>1, <1>3, PlansReset DEF Commanded
<1>7. ASSUME NEW o \in Tabs PROVE StoredSeen(o)' /\ HeldSeen(o)'
  <2>1. CASE o = t
    <3>1. StoredSeen(t)'
      BY <1>1, <1>2 DEF SeenInv, StoredSeen, Stranger
    <3>2. HeldSeen(t)'
      BY <1>1, <1>5 DEF HeldSeen, Stranger
    <3> QED
      BY <2>1, <3>1, <3>2
  <2>2. CASE o # t
    BY <1>1, <2>2, ZenonT(60) DEF SeenInv, StoredSeen, HeldSeen, Stranger, Cleanses, Resets, Opens
  <2> QED
    BY <2>1, <2>2
<1>8. ASSUME NEW o \in Tabs PROVE HeardSeen(o)' /\ SignedSeen(o)'
  BY <1>1, <1>6 DEF SeenInv, HeardSeen, SignedSeen, Open
<1> QED
  BY <1>7, <1>8 DEF SeenInv

\* What an operation on the identity does.
LEMMA IdentityDoes ==
    ASSUME FollowInv, NEW t \in Tabs, IdentityWritten(t)
    PROVE  /\ plan[t] # <<>> /\ plan'[t] = Tail(plan[t]) /\ Open(t) /\ loaded[t]
           /\ \A o \in Tabs \ {t} : plan'[o] = plan[o] /\ held'[o] = held[o]
           /\ \/ /\ signedIn[t] \in People /\ plan[t] = <<<<"identify", signedIn[t]>>>>
                 /\ held'[t] = signedIn[t] /\ plan'[t] = <<>>
                 /\ stored' = signedIn[t] \/ (stored' = stored /\ held[t] = signedIn[t])
                 /\ \A o \in Tabs : known'[o] = IF Open(o) THEN known[o] \union {signedIn[t]}
                                                ELSE known[o]
                 /\ channel' = Posted(t, <<"identified", signedIn[t]>>)
              \/ /\ Head(plan[t])[1] = "reset"
                 /\ held'[t] = Nobody
                 /\ stored' = Nobody \/ (stored' = stored /\ held[t] = Nobody)
                 /\ \A o \in Tabs : known'[o] = known[o]
                 /\ channel' = channel
                 /\ signedIn[t] # Nobody => plan'[t] # <<>>
           /\ UNCHANGED <<account, registry, page, loaded, user, queue, text, signedIn,
                          superseded, repair, siblings, logouts, refreshing, history>>
<1> DEFINE id == Head(plan[t])[2]
<1>1. /\ plan[t] # <<>> /\ Head(plan[t])[1] \in {"identify", "reset"}
      /\ held' = [held EXCEPT ![t] = id]
      /\ stored' = id \/ (stored' = stored /\ held[t] = id)
      /\ known' = [o \in Tabs |-> IF Open(o) /\ id # Nobody THEN known[o] \union {id}
                                  ELSE known[o]]
      /\ channel' = IF id = Nobody THEN channel ELSE Posted(t, <<"identified", id>>)
      /\ plan' = [plan EXCEPT ![t] = Tail(plan[t])]
      /\ UNCHANGED <<account, registry, page, loaded, user, queue, text, signedIn,
                     superseded, repair, siblings, logouts, refreshing, history>>
  BY DEF IdentityWritten, PlanGoesOn
<1>2. /\ plan[t] \in Seq(Operations) /\ plan[t] \in Plans(signedIn[t]) /\ signedIn[t] \in Users
      /\ held \in [Tabs -> Identities] /\ plan \in [Tabs -> Seq(Operations)]
  BY DEF FollowInv, TypeOK, Follows
<1>3. Open(t) /\ loaded[t]
  BY <1>1 DEF FollowInv, Shape, Blank
<1>4. /\ plan'[t] = Tail(plan[t]) /\ held'[t] = id
      /\ \A o \in Tabs \ {t} : plan'[o] = plan[o] /\ held'[o] = held[o]
  BY <1>1, <1>2
<1>5. CASE Head(plan[t])[1] = "identify"
  <2>1. signedIn[t] # Nobody /\ plan[t] = <<<<"identify", signedIn[t]>>>>
    BY <1>1, <1>2, <1>5, PlanHeads
  <2>2. id = signedIn[t] /\ Tail(plan[t]) = <<>>
    BY <2>1
  <2>3. signedIn[t] \in People
    BY <1>2, <2>1 DEF Users
  <2> QED
    BY <1>1, <1>3, <1>4, <2>1, <2>2, <2>3
<1>6. CASE Head(plan[t])[1] = "reset"
  <2>1. id = Nobody
    BY <1>1, <1>2, <1>6, PlanHeads
  <2>2. signedIn[t] # Nobody => Has(plan[t], "identify")
    BY <1>1, <1>2, PlanHeads
  <2>3. signedIn[t] # Nobody => Has(Tail(plan[t]), "identify")
    BY <1>1, <1>2, <1>6, <2>2, HasNext
  <2>4. signedIn[t] # Nobody => plan'[t] # <<>>
    BY <1>4, <2>3, HasNone
  <2> HIDE DEF id
  <2> QED
    BY <1>1, <1>3, <1>4, <1>6, <2>1, <2>4
<1> QED
  BY <1>1, <1>5, <1>6

\* An identity that is stored is known wherever a page is open.
LEMMA IdentitySeen ==
    ASSUME SeenInv, FollowInv', NEW t \in Tabs, IdentityWritten(t) PROVE SeenInv'
<1>0. FollowInv
  BY DEF SeenInv
<1>1. /\ plan[t] # <<>> /\ Open(t) /\ loaded[t]
      /\ \A o \in Tabs \ {t} : plan'[o] = plan[o] /\ held'[o] = held[o]
      /\ UNCHANGED <<page, loaded, queue, signedIn, siblings>>
  BY <1>0, IdentityDoes
<1>2. \A o \in Tabs : loaded[o] => Open(o)
  BY <1>0 DEF FollowInv, Shape, Blank
<1>3. CASE /\ signedIn[t] \in People /\ plan'[t] = <<>>
           /\ held'[t] = signedIn[t]
           /\ stored' = signedIn[t] \/ (stored' = stored /\ held[t] = signedIn[t])
           /\ \A o \in Tabs : known'[o] = IF Open(o) THEN known[o] \union {signedIn[t]}
                                          ELSE known[o]
           /\ channel' = Posted(t, <<"identified", signedIn[t]>>)
  <2>1. \A o \in Tabs : Open(o) => signedIn[t] \in known'[o]
    BY <1>3
  <2>2. \A o \in Tabs : known[o] \subseteq known'[o]
    BY <1>3
  <2>3. ASSUME NEW o \in Tabs PROVE StoredSeen(o)' /\ HeldSeen(o)'
    <3>1. CASE o = t
      BY <1>1, <1>3, <2>1, <2>2, <3>1 DEF SeenInv, StoredSeen, HeldSeen, Stranger
    <3>2. CASE o # t
      BY <1>1, <1>2, <1>3, <2>1, <2>2, <3>2, ZenonT(60)
         DEF SeenInv, StoredSeen, HeldSeen, Stranger, Cleanses, Resets, Opens
    <3> QED
      BY <3>1, <3>2
  <2>4. ASSUME NEW o \in Tabs PROVE HeardSeen(o)'
    <3>1. \A p \in People : <<"identified", p>> \in channel'[o] =>
              <<"identified", p>> \in channel[o] \/ (p = signedIn[t] /\ Open(o))
      BY <1>3 DEF Posted, Others
    <3>2. ~Open(o) => channel'[o] = channel[o] /\ known'[o] = known[o]
      BY <1>3 DEF Posted, Others
    <3> QED
      BY <1>1, <2>1, <2>2, <3>1, <3>2 DEF SeenInv, HeardSeen, Open
  <2>5. ASSUME NEW o \in Tabs PROVE SignedSeen(o)'
    BY <1>1, <2>1, <2>2 DEF SeenInv, SignedSeen, Open
  <2> QED
    BY <2>3, <2>4, <2>5 DEF SeenInv
<1>4. CASE /\ held'[t] = Nobody
           /\ stored' = Nobody \/ (stored' = stored /\ held[t] = Nobody)
           /\ \A o \in Tabs : known'[o] = known[o]
           /\ channel' = channel
           /\ signedIn[t] # Nobody => plan'[t] # <<>>
  <2>1. ASSUME NEW o \in Tabs PROVE StoredSeen(o)' /\ HeldSeen(o)'
    BY <1>1, <1>4, IdentityAssumption
       DEF SeenInv, StoredSeen, HeldSeen, Stranger, Cleanses, Resets, Opens
  <2>2. ASSUME NEW o \in Tabs PROVE HeardSeen(o)' /\ SignedSeen(o)'
    BY <1>1, <1>4 DEF SeenInv, HeardSeen, SignedSeen, Open
  <2> QED
    BY <2>1, <2>2 DEF SeenInv
<1> QED
  BY <1>0, <1>3, <1>4, IdentityDoes

\* What is heard of was signed in, and what is adopted was stored.
LEMMA NewsSeen ==
    ASSUME SeenInv, FollowInv', NEW t \in Tabs, HearNews(t) \/ Adopt(t) PROVE SeenInv'
<1>0. FollowInv
  BY DEF SeenInv
<1>1. CASE HearNews(t)
  <2>1. /\ UNCHANGED <<stored, page, loaded, queue, plan, held, signedIn, known>>
        /\ plan[t] = <<>>
    BY <1>1 DEF HearNews, Idle, browser
  <2>2. \A o \in Tabs : known[o] \in SUBSET People
    BY <1>0 DEF FollowInv, TypeOK
  <2>3. /\ \A o \in Tabs \ {t} : siblings'[o] = siblings[o]
        /\ siblings'[t] \subseteq siblings[t]
              \union {p \in People : <<"identified", p>> \in channel[t]}
        /\ \A o \in Tabs : ~Open(o) => siblings'[o] = {} /\ channel'[o] = {}
        /\ \A o \in Tabs, p \in People : <<"identified", p>> \in channel'[o] =>
              \/ <<"identified", p>> \in channel[o]
              \/ p = signedIn[t] /\ Open(o)
    <3>1. PICK m \in channel[t] :
             IF m[1] = "who"
             THEN /\ UNCHANGED siblings
                  /\ channel' = [IF signedIn[t] = Nobody \/ superseded[t] THEN channel
                                 ELSE Posted(t, <<"identified", signedIn[t]>>)
                                   EXCEPT ![t] = @ \ {m}]
             ELSE /\ siblings' = [siblings EXCEPT ![t] = @ \union {m[2]}]
                  /\ channel' = [channel EXCEPT ![t] = @ \ {m}]
      BY <1>1 DEF HearNews
    <3>2. m \in News /\ channel \in [Tabs -> SUBSET News]
          /\ siblings \in [Tabs -> SUBSET People]
      BY <1>0 DEF FollowInv, TypeOK
    <3>3. m[1] # "who" => m[2] \in People /\ m = <<"identified", m[2]>>
      BY <3>2 DEF News
    <3>4. Open(t) /\ \A o \in Tabs : ~Open(o) => siblings[o] = {} /\ channel[o] = {}
      BY DEF SeenInv, HeardSeen
    <3>5. CASE m[1] # "who"
      <4>1. /\ siblings'[t] = siblings[t] \union {m[2]} /\ channel'[t] = channel[t] \ {m}
            /\ \A o \in Tabs \ {t} : siblings'[o] = siblings[o] /\ channel'[o] = channel[o]
        BY <3>1, <3>2, <3>5
      <4> QED
        BY <3>3, <3>4, <3>5, <4>1
    <3>6. CASE m[1] = "who" /\ channel' = [channel EXCEPT ![t] = @ \ {m}]
      <4>1. /\ siblings' = siblings /\ channel'[t] = channel[t] \ {m}
            /\ \A o \in Tabs \ {t} : channel'[o] = channel[o]
        BY <3>1, <3>2, <3>6
      <4> QED
        BY <3>4, <4>1
    <3>7. CASE /\ m[1] = "who"
               /\ channel' = [Posted(t, <<"identified", signedIn[t]>>) EXCEPT ![t] = @ \ {m}]
      <4>1. /\ siblings' = siblings /\ channel'[t] = channel[t] \ {m}
            /\ \A o \in Tabs \ {t} :
                  channel'[o] = IF Open(o) THEN channel[o] \union {<<"identified", signedIn[t]>>}
                                ELSE channel[o]
        BY <3>1, <3>2, <3>7 DEF Posted, Others
      <4>2. \A p : <<"identified", p>> = <<"identified", signedIn[t]>> => p = signedIn[t]
        OBVIOUS
      <4>3. \A o \in Tabs, p \in People : <<"identified", p>> \in channel'[o] =>
               \/ <<"identified", p>> \in channel[o]
               \/ p = signedIn[t] /\ Open(o)
        BY <4>1, <4>2
      <4>4. \A o \in Tabs : ~Open(o) => siblings'[o] = {} /\ channel'[o] = {}
        BY <3>4, <4>1
      <4> QED
        BY <4>1, <4>3, <4>4
    <3> QED
      BY <3>1, <3>5, <3>6, <3>7
  <2>4. \A o \in Tabs : Open(o) => signedIn[t] \in known[o] \union {Nobody}
    BY <2>1 DEF SeenInv, SignedSeen
  <2>5. ASSUME NEW o \in Tabs PROVE StoredSeen(o)' /\ HeldSeen(o)' /\ SignedSeen(o)'
    BY <2>1 DEF SeenInv, StoredSeen, HeldSeen, SignedSeen, Stranger, Cleanses, Resets, Opens,
       Open
  <2>6. ASSUME NEW o \in Tabs PROVE HeardSeen(o)'
    <3>1. siblings[o] \subseteq known[o]
          /\ \A p \in People : <<"identified", p>> \in channel[o] => p \in known[o]
      BY DEF SeenInv, HeardSeen
    <3>2. siblings'[o] \subseteq known[o]
      BY <2>3, <3>1
    <3>3. \A p \in People : <<"identified", p>> \in channel'[o] => p \in known[o]
      BY <2>3, <2>4, <3>1, IdentityAssumption
    <3> QED
      BY <2>1, <2>3, <3>2, <3>3 DEF HeardSeen, Open
  <2> QED
    BY <2>5, <2>6 DEF SeenInv
<1>2. CASE Adopt(t)
  <2>1. /\ UNCHANGED <<stored, page, loaded, queue, plan, signedIn, siblings, channel, known>>
        /\ loaded[t] /\ held[t] # stored /\ held'[t] = stored
        /\ \A o \in Tabs \ {t} : held'[o] = held[o]
    BY <1>0, <1>2 DEF Adopt, browser, FollowInv, TypeOK
  <2>2. ~Stranger(t, stored)
    BY <2>1 DEF SeenInv, StoredSeen
  <2>3. ASSUME NEW o \in Tabs PROVE StoredSeen(o)' /\ HeldSeen(o)'
    BY <2>1, <2>2 DEF SeenInv, StoredSeen, HeldSeen, Stranger, Cleanses, Resets, Opens
  <2>4. ASSUME NEW o \in Tabs PROVE HeardSeen(o)' /\ SignedSeen(o)'
    BY <2>1 DEF SeenInv, HeardSeen, SignedSeen, Open
  <2> QED
    BY <2>3, <2>4 DEF SeenInv
<1> QED
  BY <1>1, <1>2

\* No page has seen anybody yet.
LEMMA SeenInit == Init => SeenInv
<1> SUFFICES ASSUME Init PROVE SeenInv
  OBVIOUS
<1>1. ASSUME NEW t \in Tabs
      PROVE  StoredSeen(t) /\ HeldSeen(t) /\ HeardSeen(t) /\ SignedSeen(t)
  BY DEF Init, StoredSeen, HeldSeen, HeardSeen, SignedSeen, Open
<1> QED
  BY <1>1, FollowInit DEF SeenInv

\* Every step keeps strangers on their way out.
LEMMA SeenStep == ASSUME SeenInv, [Next]_vars PROVE SeenInv'
<1>1. FollowInv'
  BY FollowStep DEF SeenInv
<1>2. CASE Next
  BY <1>1, <1>2, QuietSeen, PlanSeen, PageSeen, CommandSeen, IdentitySeen, NewsSeen DEF Next
<1> QED
  BY <1>1, <1>2, QuietSeen

\* Whose events a tab sends, in every reachable state: its own user's, or those of
\* nobody it has not seen here (telemetry.ts:550-588, 684-711).
THEOREM EventsAttributed == Spec => []Attributed
<1>1. ASSUME SeenInv PROVE Attributed
  <2>1. InStep
    <3> SUFFICES ASSUME NEW t \in Tabs, loaded[t], Idle(t) PROVE signedIn[t] = user[t]
      BY DEF InStep
    <3>1. queue[t] = <<>> /\ Leads(queue[t], signedIn[t], user[t])
      BY <1>1 DEF Idle, SeenInv, FollowInv, Follows
    <3> QED
      BY <3>1 DEF Leads
  <2>2. NoStranger
    <3> SUFFICES ASSUME NEW t \in Tabs, loaded[t], Idle(t), Stranger(t, held[t]) PROVE FALSE
      BY DEF NoStranger, Stranger
    <3> QED
      BY <1>1 DEF Idle, SeenInv, HeldSeen, Cleanses, Opens
  <2> QED
    BY <1>1, <2>1, <2>2 DEF Attributed, SeenInv, FollowInv
<1> QED
  BY <1>1, SeenInit, SeenStep, PTL DEF Spec

-----------------------------------------------------------------------------
(* An identity that is not the tab's own is one that the tab was told of. *)

\* The registry names whoever some tab signed in as and is done identifying.
Registered(p) ==
    overtaken \/ p \in registry \/ \A o \in Tabs : signedIn[o] = p => plan[o] # <<>>
Knows(t, p) ==
    p \in siblings[t] \/ (<<"identified", p>> \in channel[t] /\ Registered(p))

StoredTold(t) == loaded[t] /\ stored \in People /\ stored # held[t] => Knows(t, stored)
HeldTold(t) ==
    loaded[t] /\ held[t] \in People /\ signedIn[t] \notin {Nobody, held[t]} =>
        Knows(t, held[t]) \/ Resets(t)
\* It is registered before it is identified.
FirstRegistered(t) ==
    plan[t] = <<<<"identify", signedIn[t]>>>> => overtaken \/ signedIn[t] \in registry

ToldInv == FollowInv /\ \A t \in Tabs : StoredTold(t) /\ HeldTold(t) /\ FirstRegistered(t)

\* What was known stays known.
LEMMA KnowsKept ==
    ASSUME NEW t \in Tabs, NEW p \in People, Knows(t, p), Registered(p) => Registered(p)',
           \/ p \in siblings'[t]
           \/ siblings[t] \subseteq siblings'[t] /\
              (<<"identified", p>> \in channel[t] => <<"identified", p>> \in channel'[t])
    PROVE  Knows(t, p)'
BY DEF Knows

\* A step that leaves the registry alone leaves nobody unregistered, but a tab that
\* is done identifying somebody new.
LEMMA RegisteredKept ==
    ASSUME NEW p \in People, Registered(p), registry' = registry, overtaken' = overtaken,
           \A o \in Tabs : signedIn'[o] = p =>
              plan'[o] # <<>> \/ (signedIn[o] = p /\ plan[o] = <<>>)
    PROVE  Registered(p)'
BY DEF Registered

\* A step that stores, holds and plans nothing new.
LEMMA ToldKept ==
    ASSUME ToldInv, FollowInv', stored' = stored \/ stored' \notin People,
           UNCHANGED <<loaded, held, signedIn>>,
           \A t \in Tabs, p \in People : loaded[t] /\ Knows(t, p) => Knows(t, p)',
           \A t \in Tabs : (Resets(t) => Resets(t)') /\ FirstRegistered(t)'
    PROVE  ToldInv'
<1>1. ASSUME NEW t \in Tabs PROVE StoredTold(t)' /\ HeldTold(t)'
  BY DEF ToldInv, StoredTold, HeldTold
<1> QED
  BY <1>1 DEF ToldInv

\* The steps that are so, those of the user and the outside among them.
LEMMA QuietTold ==
    ASSUME ToldInv, FollowInv',
           \/ \E t \in Tabs : \/ \E p \in People : SignIn(t, p)
                              \/ SignOut(t) \/ HearLogout(t) \/ Refreshed(t)
                              \/ RefreshInBackground(t) \/ RefreshFailed(t)
                              \/ RegistryRead(t) \/ EventDropped(t) \/ EventSent(t)
                              \/ Restore(t) \/ HearNews(t)
           \/ (\E p \in People : RegistryExpires(p)) \/ WebsiteWrites \/ SessionEnds
           \/ UNCHANGED vars
    PROVE  ToldInv'
<1>0. FollowInv
  BY DEF ToldInv
<1>1. ASSUME stored' = stored \/ stored' \notin People,
             UNCHANGED <<registry, overtaken, loaded, plan, held, signedIn>>,
             \A t \in Tabs, p \in People :
                \/ p \in siblings'[t]
                \/ siblings[t] \subseteq siblings'[t] /\
                   (<<"identified", p>> \in channel[t] => <<"identified", p>> \in channel'[t])
      PROVE  ToldInv'
  <2>1. \A p \in People : Registered(p) => Registered(p)'
    BY <1>1 DEF Registered
  <2>2. \A t \in Tabs, p \in People : Knows(t, p) => Knows(t, p)'
    BY <1>1, <2>1, KnowsKept
  <2>3. \A t \in Tabs : (Resets(t) => Resets(t)') /\ FirstRegistered(t)'
    BY <1>1 DEF ToldInv, FirstRegistered, Resets, Has
  <2> QED
    BY <1>1, <2>2, <2>3, ToldKept
<1>2. CASE \E t \in Tabs : \/ \E p \in People : SignIn(t, p)
                           \/ SignOut(t) \/ HearLogout(t) \/ Refreshed(t)
  <2>1. UNCHANGED <<stored, registry, overtaken, loaded, plan, held, signedIn, siblings,
                    channel>>
    BY <1>2 DEF SignIn, SignOut, HearLogout, Refreshed, browser, history
  <2> QED
    BY <1>1, <2>1
<1>3. CASE \E t \in Tabs : \/ RefreshInBackground(t) \/ RefreshFailed(t)
                           \/ RegistryRead(t) \/ EventDropped(t) \/ EventSent(t)
  <2>1. UNCHANGED <<stored, registry, overtaken, loaded, plan, held, signedIn, siblings,
                    channel>>
    BY <1>3 DEF RefreshInBackground, RefreshFailed, RegistryRead, EventDropped, EventSent,
       browser, facade, history
  <2> QED
    BY <1>1, <2>1
<1>4. ASSUME NEW t \in Tabs, Restore(t) PROVE ToldInv'
  <2>1. /\ UNCHANGED <<stored, registry, overtaken, loaded, plan, held, signedIn, siblings>>
        /\ channel' = channel \/ channel' = Posted(t, <<"who", Nobody>>)
    BY <1>4 DEF Restore, browser, history
  <2>2. \A o \in Tabs : channel[o] \subseteq channel'[o]
    BY <2>1 DEF Posted
  <2> QED
    BY <1>1, <2>1, <2>2
<1>5. ASSUME NEW t \in Tabs, HearNews(t) PROVE ToldInv'
  <2>1. UNCHANGED <<stored, registry, overtaken, loaded, plan, held, signedIn>>
    BY <1>5 DEF HearNews, browser, history
  <2>2. PICK m \in channel[t] :
           IF m[1] = "who"
           THEN /\ UNCHANGED siblings
                /\ channel' = [IF signedIn[t] = Nobody \/ superseded[t] THEN channel
                               ELSE Posted(t, <<"identified", signedIn[t]>>)
                                 EXCEPT ![t] = @ \ {m}]
           ELSE /\ siblings' = [siblings EXCEPT ![t] = @ \union {m[2]}]
                /\ channel' = [channel EXCEPT ![t] = @ \ {m}]
    BY <1>5 DEF HearNews
  <2>3. channel \in [Tabs -> SUBSET News] /\ siblings \in [Tabs -> SUBSET People]
    BY <1>0 DEF FollowInv, TypeOK
  <2>4. \A p \in People : <<"identified", p>>[1] = "identified" /\ <<"identified", p>>[2] = p
    OBVIOUS
  <2>5. CASE m[1] # "who"
    <3>1. /\ siblings'[t] = siblings[t] \union {m[2]} /\ channel'[t] = channel[t] \ {m}
          /\ \A o \in Tabs \ {t} : siblings'[o] = siblings[o] /\ channel'[o] = channel[o]
      BY <2>2, <2>3, <2>5
    <3>2. ASSUME NEW o \in Tabs, NEW p \in People
          PROVE  \/ p \in siblings'[o]
                 \/ siblings[o] \subseteq siblings'[o] /\
                    (<<"identified", p>> \in channel[o] => <<"identified", p>> \in channel'[o])
      BY <2>4, <3>1
    <3> QED
      BY <1>1, <2>1, <3>2
  <2>6. CASE m[1] = "who"
    <3>1. siblings' = siblings /\ \A o \in Tabs : channel[o] \ {m} \subseteq channel'[o]
      <4>1. CASE channel' = [channel EXCEPT ![t] = @ \ {m}]
        BY <2>2, <2>3, <2>6, <4>1
      <4>2. CASE channel' = [Posted(t, <<"identified", signedIn[t]>>) EXCEPT ![t] = @ \ {m}]
        BY <2>2, <2>3, <2>6, <4>2 DEF Posted, Others
      <4> QED
        BY <2>2, <2>6, <4>1, <4>2
    <3>2. \A p \in People : <<"identified", p>> # m
      BY <2>4, <2>6
    <3> QED
      BY <1>1, <2>1, <3>1, <3>2
  <2> QED
    BY <2>5, <2>6
<1>6. ASSUME NEW p \in People, RegistryExpires(p) PROVE ToldInv'
  <2>1. /\ UNCHANGED <<stored, overtaken, loaded, plan, held, signedIn, siblings, channel>>
        /\ \A t \in Tabs : channel[t] = {} /\ plan[t] = <<>>
    BY <1>6 DEF RegistryExpires, facade, history
  <2>2. \A t \in Tabs, x \in People : Knows(t, x) => Knows(t, x)'
    BY <2>1 DEF Knows
  <2>3. \A t \in Tabs : (Resets(t) => Resets(t)') /\ FirstRegistered(t)'
    BY <2>1 DEF FirstRegistered, Resets, Has
  <2> QED
    BY <2>1, <2>2, <2>3, ToldKept
<1>7. CASE WebsiteWrites \/ SessionEnds \/ UNCHANGED vars
  <2>1. /\ stored' = stored \/ stored' \notin People
        /\ UNCHANGED <<registry, overtaken, loaded, plan, held, signedIn, siblings, channel>>
    BY <1>7, IdentityAssumption DEF WebsiteWrites, SessionEnds, vars, browser, facade, history
  <2> QED
    BY <1>1, <2>1
<1> QED
  BY <1>2, <1>3, <1>4, <1>5, <1>6, <1>7

\* A plan comes down to its identify() by the register before it.
LEMMA IdentifyLast ==
    ASSUME NEW u \in Users, NEW p \in Plans(u), p # <<>>, Tail(p) = <<<<"identify", u>>>>
    PROVE  Head(p) = <<"register", u>>
<1>0. \A a, b : <<<<a, b>>>> = <<<<"identify", u>>>> => a = "identify"
  OBVIOUS
<1>1. CASE u = Nobody
  <2>1. \A x : p = <<<<"unregister", x>>>> \/ p = <<<<"reset", x>>>> => Tail(p) = <<>>
    BY Tails
  <2>2. \A x : p = <<<<"unregister", x>>, <<"reset", Nobody>>>> =>
               Tail(p) = <<<<"reset", Nobody>>>>
    BY Tails
  <2> QED
    BY <1>0, <1>1, <2>1, <2>2 DEF Plans
<1>2. CASE u # Nobody
  <2>1. p # <<<<"identify", u>>>>
    BY Tails
  <2>2. Head(<<<<"register", u>>, <<"identify", u>>>>) = <<"register", u>>
    OBVIOUS
  <2>3. p # <<<<"reset", Nobody>>, <<"register", u>>, <<"identify", u>>>>
    BY Tails
  <2>4. ASSUME NEW x, p = <<<<"unregister", x>>, <<"reset", Nobody>>, <<"register", u>>,
                            <<"identify", u>>>>
        PROVE  FALSE
    <3>1. Tail(p) = <<<<"reset", Nobody>>, <<"register", u>>, <<"identify", u>>>>
      BY <2>4, Tails
    <3>2. \A a, b, c : <<a, b, c>> # <<<<"identify", u>>>>
      OBVIOUS
    <3> QED
      BY <3>1, <3>2
  <2> QED
    BY <1>2, <2>1, <2>2, <2>3, <2>4 DEF Plans
<1> QED
  BY <1>1, <1>2

\* A new plan begins with no identify().
LEMMA PlansBegin ==
    ASSUME NEW t \in Tabs, signedIn[t] \in Users, NEW u \in People, NEW x
    PROVE  IdentityPlan(t, u) # <<<<"identify", x>>>>
<1>1. \A a, b, c : /\ <<a, b>> # <<<<"identify", x>>>>
                   /\ <<a, b, c>> # <<<<"identify", x>>>>
  OBVIOUS
<1>2. \A a, b, c, d : <<a, b, c, d>> # <<<<"identify", x>>>>
  OBVIOUS
<1> QED
  BY <1>1, <1>2, IdentityPlans

\* A step of one tab that leaves the storage alone.
LEMMA ToldOneTab ==
    ASSUME ToldInv, FollowInv', NEW t \in Tabs, UNCHANGED <<stored, registry, overtaken>>,
           \A o \in Tabs \ {t} :
              /\ loaded'[o] = loaded[o] /\ held'[o] = held[o] /\ signedIn'[o] = signedIn[o]
              /\ plan'[o] = plan[o] /\ siblings'[o] = siblings[o] /\ channel'[o] = channel[o],
           \A p \in People : Registered(p) => Registered(p)',
           StoredTold(t)', HeldTold(t)', FirstRegistered(t)'
    PROVE  ToldInv'
<1>1. ASSUME NEW o \in Tabs, o # t PROVE StoredTold(o)' /\ HeldTold(o)' /\ FirstRegistered(o)'
  <2>1. \A p \in People : Knows(o, p) => Knows(o, p)'
    BY <1>1, KnowsKept
  <2>2. Resets(o) => Resets(o)'
    BY <1>1 DEF Resets, Has
  <2>3. StoredTold(o)' /\ HeldTold(o)'
    BY <1>1, <2>1, <2>2 DEF ToldInv, StoredTold, HeldTold
  <2>4. FirstRegistered(o)'
    BY <1>1 DEF ToldInv, FirstRegistered
  <2> QED
    BY <2>3, <2>4
<1> QED
  BY <1>1 DEF ToldInv

\* A page whose SDK loads, or that goes, and a tab that adopts what is stored.
LEMMA PageTold ==
    ASSUME ToldInv, FollowInv', NEW t \in Tabs,
           SDKLoaded(t) \/ Unload(t) \/ CloseTab(t) \/ Adopt(t)
    PROVE  ToldInv'
<1>0. FollowInv
  BY DEF ToldInv
<1>1. CASE SDKLoaded(t)
  <2>1. /\ UNCHANGED <<stored, registry, overtaken, plan, signedIn, siblings, channel>>
        /\ ~loaded[t] /\ held'[t] = stored
        /\ \A o \in Tabs \ {t} : loaded'[o] = loaded[o] /\ held'[o] = held[o]
    BY <1>0, <1>1 DEF SDKLoaded, FollowInv, TypeOK, browser, history
  <2>2. signedIn[t] = Nobody
    BY <1>0, <2>1 DEF FollowInv, Shape
  <2>3. \A p \in People : Registered(p) => Registered(p)'
    BY <2>1 DEF Registered
  <2>4. StoredTold(t)' /\ HeldTold(t)' /\ FirstRegistered(t)'
    BY <2>1, <2>2 DEF ToldInv, StoredTold, HeldTold, FirstRegistered
  <2> QED
    BY <2>1, <2>3, <2>4, ToldOneTab
<1>2. CASE Unload(t) \/ CloseTab(t)
  <2>1. Discard(t) /\ plan[t] = <<>>
    BY <1>2 DEF Unload, CloseTab, Idle
  <2>2. /\ UNCHANGED <<stored, registry, overtaken, plan>>
        /\ ~loaded'[t] /\ signedIn'[t] = Nobody
        /\ \A o \in Tabs \ {t} :
              /\ loaded'[o] = loaded[o] /\ held'[o] = held[o] /\ signedIn'[o] = signedIn[o]
              /\ siblings'[o] = siblings[o] /\ channel'[o] = channel[o]
    BY <1>0, <2>1 DEF Discard, FollowInv, TypeOK, browser
  <2>3. \A p \in People : Registered(p) => Registered(p)'
    BY <2>2, IdentityAssumption DEF Registered
  <2>4. StoredTold(t)' /\ HeldTold(t)' /\ FirstRegistered(t)'
    BY <2>1, <2>2 DEF StoredTold, HeldTold, FirstRegistered
  <2> QED
    BY <2>2, <2>3, <2>4, ToldOneTab
<1>3. CASE Adopt(t)
  <2>1. /\ UNCHANGED <<stored, registry, overtaken, loaded, plan, signedIn, siblings, channel>>
        /\ held[t] # stored /\ held'[t] = stored
        /\ \A o \in Tabs \ {t} : held'[o] = held[o]
    BY <1>0, <1>3 DEF Adopt, FollowInv, TypeOK, browser, history
  <2>2. \A p \in People : Registered(p) => Registered(p)'
    BY <2>1 DEF Registered
  <2>3. \A p \in People : Knows(t, p) => Knows(t, p)'
    BY <2>1, <2>2, KnowsKept
  <2>4. StoredTold(t)' /\ HeldTold(t)' /\ FirstRegistered(t)'
    BY <2>1, <2>3 DEF ToldInv, StoredTold, HeldTold, FirstRegistered
  <2> QED
    BY <2>1, <2>2, <2>4, ToldOneTab
<1> QED
  BY <1>1, <1>2, <1>3

\* A command that takes over what is stored, or resets what is held.
LEMMA CommandTold ==
    ASSUME ToldInv, FollowInv', NEW t \in Tabs, RunCommand(t) PROVE ToldInv'
<1>0. FollowInv
  BY DEF ToldInv
<1>1. /\ Commanded(t) /\ loaded[t] /\ plan[t] = <<>>
      /\ \A o \in Tabs \ {t} : /\ signedIn'[o] = signedIn[o] /\ plan'[o] = plan[o]
                               /\ held'[o] = held[o]
      /\ UNCHANGED <<stored, registry, overtaken, loaded, siblings, channel>>
  BY <1>0, CommandDoes DEF browser, history
<1>2. signedIn[t] \in Users /\ held[t] \in Identities /\ ~Resets(t)
  BY <1>0, <1>1, HasNone DEF FollowInv, TypeOK, Resets
<1>3. \/ signedIn'[t] = signedIn[t] \/ signedIn'[t] = Nobody \/ plan'[t] # <<>>
  BY <1>1, <1>2, PlansReset DEF Commanded
<1>4. \A p \in People : Registered(p) => Registered(p)'
  BY <1>1, <1>3, RegisteredKept, IdentityAssumption
<1>5. \A p \in People : Knows(t, p) => Knows(t, p)'
  BY <1>1, <1>4, KnowsKept
<1>6. StoredTold(t)'
  BY <1>1, <1>5 DEF ToldInv, StoredTold, Commanded
<1>7. HeldTold(t)'
  <2>1. ASSUME NEW u \in People, signedIn'[t] = u, plan'[t] = IdentityPlan(t, u),
               held'[t] = held[t]
        PROVE  HeldTold(t)'
    <3>1. held[t] \notin {Nobody, u} => Resets(t)'
      BY <1>2, <2>1, PlansReset DEF Resets, Has
    <3> QED
      BY <2>1, <3>1, IdentityAssumption DEF HeldTold
  <2>2. CASE signedIn'[t] = Nobody
    BY <2>2 DEF HeldTold
  <2>3. CASE signedIn'[t] = signedIn[t] /\ held'[t] = held[t]
    BY <1>1, <1>2, <1>5, <2>3 DEF ToldInv, HeldTold
  <2>4. CASE signedIn'[t] = signedIn[t] /\ held'[t] = stored
    BY <1>1, <1>2, <1>5, <2>4 DEF ToldInv, HeldTold, StoredTold
  <2> QED
    BY <1>1, <2>1, <2>2, <2>3, <2>4 DEF Commanded
<1>8. FirstRegistered(t)'
  <2>1. signedIn'[t] # Nobody => plan'[t] # <<<<"identify", signedIn'[t]>>>>
    <3>1. \A x : <<>> # <<<<"identify", x>>>>
      OBVIOUS
    <3>2. \A u \in People : \A x : IdentityPlan(t, u) # <<<<"identify", x>>>>
      BY <1>2, PlansBegin
    <3> QED
      BY <1>1, <3>1, <3>2 DEF Commanded
  <2>2. plan'[t] = <<<<"identify", signedIn'[t]>>>> => signedIn'[t] # Nobody
    <3>1. signedIn'[t] \in Users /\ plan'[t] \in Plans(signedIn'[t])
      BY DEF FollowInv, TypeOK, Follows
    <3>2. plan'[t] = <<<<"identify", signedIn'[t]>>>> =>
             plan'[t] # <<>> /\ Head(plan'[t])[1] = "identify"
      OBVIOUS
    <3> QED
      BY <3>1, <3>2, PlanHeads
  <2> QED
    BY <2>1, <2>2 DEF FirstRegistered
<1> QED
  BY <1>1, <1>4, <1>6, <1>7, <1>8, ToldOneTab

\* A repair stores nothing yet: it plans to.
LEMMA RepairTold ==
    ASSUME ToldInv, FollowInv', NEW t \in Tabs, RepairFires(t) PROVE ToldInv'
<1>0. FollowInv
  BY DEF ToldInv
<1>1. /\ UNCHANGED <<stored, registry, overtaken, loaded, held, signedIn, siblings, channel>>
      /\ plan[t] = <<>> /\ \A o \in Tabs \ {t} : plan'[o] = plan[o]
      /\ \/ plan'[t] = <<>>
         \/ signedIn[t] \in People /\ plan'[t] = IdentityPlan(t, signedIn[t])
  BY <1>0 DEF RepairFires, Idle, browser, history, FollowInv, TypeOK, Users
<1>2. signedIn[t] \in Users /\ ~Resets(t)
  BY <1>0, <1>1, HasNone DEF FollowInv, TypeOK, Resets
<1>3. \A p \in People : Registered(p) => Registered(p)'
  BY <1>1 DEF Registered
<1>4. \A o \in Tabs, p \in People : Knows(o, p) => Knows(o, p)'
  BY <1>1, <1>3, KnowsKept
<1>5. \A o \in Tabs : Resets(o) => Resets(o)'
  BY <1>1, <1>2 DEF Resets, Has
<1>6. FirstRegistered(t)'
  <2>1. <<>> # <<<<"identify", signedIn[t]>>>>
    OBVIOUS
  <2>2. signedIn[t] \in People =>
           IdentityPlan(t, signedIn[t]) # <<<<"identify", signedIn[t]>>>>
    BY <1>2, PlansBegin
  <2> QED
    BY <1>1, <2>1, <2>2 DEF FirstRegistered
<1>7. \A o \in Tabs \ {t} : FirstRegistered(o)'
  BY <1>1 DEF ToldInv, FirstRegistered
<1> QED
  BY <1>1, <1>4, <1>5, <1>6, <1>7, ToldKept

\* A registry write of somebody who is signed in goes on to more, and one that
\* undoes another tab's overtakes it.
LEMMA RegistryTold ==
    ASSUME ToldInv, FollowInv', NEW t \in Tabs, RegistryWritten(t) PROVE ToldInv'
<1> DEFINE id == Head(plan[t])[2]
<1>0. FollowInv
  BY DEF ToldInv
<1>1. /\ UNCHANGED <<stored, loaded, held, signedIn, siblings, channel>>
      /\ plan[t] # <<>> /\ Head(plan[t])[1] \in {"register", "unregister"}
      /\ plan'[t] = Tail(plan[t]) /\ \A o \in Tabs \ {t} : plan'[o] = plan[o]
      /\ overtaken' = (overtaken \/ registry # text[t][1]
                       \/ \E o \in Tabs \ {t} : signedIn[o] \in registry \ registry')
      /\ Head(plan[t])[1] = "register" => id \in registry'
  BY <1>0 DEF RegistryWritten, PlanGoesOn, FollowInv, Shape, TypeOK
<1>2. /\ plan[t] \in Seq(Operations) /\ plan[t] \in Plans(signedIn[t])
      /\ signedIn[t] \in Users /\ overtaken' \in BOOLEAN
  BY <1>0 DEF FollowInv, TypeOK, Follows
<1>3. Resets(t) => Resets(t)'
  <2>1. Has(plan[t], "reset") => Has(plan'[t], "reset")
    BY <1>1, <1>2, HasNext
  <2> QED
    BY <2>1 DEF Resets, Has
<1>4. signedIn[t] # Nobody => plan'[t] # <<>>
  <2>1. signedIn[t] # Nobody => Has(plan[t], "identify")
    BY <1>1, <1>2, PlanHeads
  <2>2. signedIn[t] # Nobody => Has(plan'[t], "identify")
    BY <1>1, <1>2, <2>1, HasNext
  <2> QED
    BY <2>2, HasNone
<1>5. ~overtaken' => ~overtaken /\ \A o \in Tabs \ {t} : signedIn[o] \notin registry \ registry'
  BY <1>1
<1>6. ASSUME NEW p \in People, Registered(p) PROVE Registered(p)'
  <2>1. CASE p \in registry /\ p \notin registry'
    <3>1. ~overtaken' => \A o \in Tabs \ {t} : signedIn[o] # p
      BY <1>5, <2>1
    <3>2. p # Nobody
      BY IdentityAssumption
    <3> QED
      BY <1>1, <1>4, <3>1, <3>2 DEF Registered
  <2>2. CASE p \in registry'
    BY <2>2 DEF Registered
  <2>3. CASE p \notin registry
    <3>1. ~overtaken' => \A o \in Tabs : signedIn[o] = p => plan[o] # <<>>
      BY <1>5, <1>6, <2>3 DEF Registered
    <3>2. p # Nobody
      BY IdentityAssumption
    <3> QED
      BY <1>1, <1>4, <3>1, <3>2 DEF Registered
  <2> QED
    BY <2>1, <2>2, <2>3
<1>7. \A o \in Tabs, p \in People : Knows(o, p) => Knows(o, p)'
  BY <1>1, <1>6, KnowsKept
<1>8. ASSUME NEW o \in Tabs, o # t PROVE FirstRegistered(o)'
  BY <1>1, <1>5, <1>8 DEF ToldInv, FirstRegistered
<1>9. FirstRegistered(t)'
  <2>1. Tail(plan[t]) = <<<<"identify", signedIn[t]>>>> =>
           Head(plan[t]) = <<"register", signedIn[t]>>
    BY <1>1, <1>2, IdentifyLast
  <2>2. \A a, b : <<a, b>>[1] = a /\ <<a, b>>[2] = b
    OBVIOUS
  <2>3. Tail(plan[t]) = <<<<"identify", signedIn[t]>>>> => signedIn[t] \in registry'
    BY <1>1, <2>1, <2>2
  <2> QED
    BY <1>1, <2>3 DEF FirstRegistered
<1>10. \A o \in Tabs : Resets(o) => Resets(o)'
  BY <1>1, <1>3 DEF Resets, Has
<1> QED
  BY <1>1, <1>7, <1>8, <1>9, <1>10, ToldKept

\* Who is identified is announced to every open tab, and is registered.
LEMMA IdentityTold ==
    ASSUME ToldInv, FollowInv', NEW t \in Tabs, IdentityWritten(t) PROVE ToldInv'
<1>0. FollowInv
  BY DEF ToldInv
<1>1. /\ plan[t] # <<>> /\ plan'[t] = Tail(plan[t]) /\ Open(t)
      /\ \A o \in Tabs \ {t} : plan'[o] = plan[o] /\ held'[o] = held[o]
      /\ UNCHANGED <<registry, overtaken, loaded, signedIn, siblings>>
  BY <1>0, IdentityDoes DEF history
<1>2. ASSUME NEW o \in Tabs, o # t PROVE FirstRegistered(o)' /\ (Resets(o) => Resets(o)')
  BY <1>1, <1>2 DEF ToldInv, FirstRegistered, Resets, Has
<1>3. \A o \in Tabs : loaded[o] => Open(o)
  BY <1>0 DEF FollowInv, Shape, Blank
<1>4. ASSUME signedIn[t] \in People, plan[t] = <<<<"identify", signedIn[t]>>>>,
             held'[t] = signedIn[t], plan'[t] = <<>>,
             stored' = signedIn[t] \/ (stored' = stored /\ held[t] = signedIn[t]),
             channel' = Posted(t, <<"identified", signedIn[t]>>)
      PROVE  ToldInv'
  <2>1. Registered(signedIn[t])'
    BY <1>1, <1>4 DEF ToldInv, FirstRegistered, Registered
  <2>2. ASSUME NEW p \in People, Registered(p) PROVE Registered(p)'
    BY <1>1, <2>1, <2>2 DEF Registered
  <2>3. \A o \in Tabs : channel[o] \subseteq channel'[o]
    BY <1>4 DEF Posted
  <2>4. \A o \in Tabs, p \in People : Knows(o, p) => Knows(o, p)'
    BY <1>1, <2>2, <2>3, KnowsKept
  <2>5. ASSUME NEW o \in Tabs, o # t PROVE StoredTold(o)' /\ HeldTold(o)'
    <3>1. loaded[o] => Knows(o, signedIn[t])'
      <4>1. loaded[o] => <<"identified", signedIn[t]>> \in channel'[o]
        BY <1>3, <1>4, <2>5 DEF Posted, Others
      <4>2. Knows(o, signedIn[t])' <=>
               \/ signedIn[t] \in siblings'[o]
               \/ <<"identified", signedIn[t]>> \in channel'[o] /\ Registered(signedIn[t])'
        BY <1>1 DEF Knows
      <4> QED
        BY <2>1, <4>1, <4>2
    <3>2. StoredTold(o)'
      BY <1>1, <1>4, <2>4, <2>5, <3>1 DEF ToldInv, StoredTold
    <3>3. HeldTold(o)'
      BY <1>1, <1>2, <2>4, <2>5 DEF ToldInv, HeldTold
    <3> QED
      BY <3>2, <3>3
  <2>6. StoredTold(t)' /\ HeldTold(t)'
    BY <1>1, <1>4, <2>4 DEF ToldInv, StoredTold, HeldTold
  <2>7. FirstRegistered(t)'
    BY <1>4 DEF FirstRegistered
  <2> QED
    BY <1>2, <2>5, <2>6, <2>7 DEF ToldInv
<1>5. ASSUME Head(plan[t])[1] = "reset", held'[t] = Nobody,
             stored' = Nobody \/ (stored' = stored /\ held[t] = Nobody),
             channel' = channel, signedIn[t] # Nobody => plan'[t] # <<>>
      PROVE  ToldInv'
  <2>1. ASSUME NEW p \in People, Registered(p) PROVE Registered(p)'
    BY <1>1, <1>5, <2>1, IdentityAssumption DEF Registered
  <2>2. \A o \in Tabs, p \in People : Knows(o, p) => Knows(o, p)'
    BY <1>1, <1>5, <2>1, KnowsKept
  <2>3. ASSUME NEW o \in Tabs, o # t PROVE StoredTold(o)' /\ HeldTold(o)'
    BY <1>1, <1>2, <1>5, <2>2, <2>3, IdentityAssumption DEF ToldInv, StoredTold, HeldTold
  <2>4. StoredTold(t)' /\ HeldTold(t)'
    BY <1>1, <1>5, <2>2, IdentityAssumption DEF ToldInv, StoredTold, HeldTold
  <2>5. FirstRegistered(t)'
    <3>1. plan[t] \in Plans(signedIn[t]) /\ signedIn[t] \in Users
      BY <1>0 DEF FollowInv, TypeOK, Follows
    <3>2. <<"register", signedIn[t]>>[1] # "reset"
      OBVIOUS
    <3>3. plan'[t] # <<<<"identify", signedIn[t]>>>>
      BY <1>1, <1>5, <3>1, <3>2, IdentifyLast
    <3> QED
      BY <1>1, <3>3 DEF FirstRegistered
  <2> QED
    BY <1>2, <2>3, <2>4, <2>5 DEF ToldInv
<1> QED
  BY <1>0, <1>4, <1>5, IdentityDoes

\* Nobody has loaded yet.
LEMMA ToldInit == Init => ToldInv
<1> SUFFICES ASSUME Init PROVE ToldInv
  OBVIOUS
<1>1. ASSUME NEW t \in Tabs PROVE StoredTold(t) /\ HeldTold(t) /\ FirstRegistered(t)
  BY DEF Init, StoredTold, HeldTold, FirstRegistered
<1> QED
  BY <1>1, FollowInit DEF ToldInv

\* Every step keeps what is held told of.
LEMMA ToldStep == ASSUME ToldInv, [Next]_vars PROVE ToldInv'
<1>1. FollowInv'
  BY FollowStep DEF ToldInv
<1>2. CASE Next
  BY <1>1, <1>2, QuietTold, PageTold, CommandTold, RepairTold, RegistryTold, IdentityTold
     DEF Next
<1> QED
  BY <1>1, <1>2, QuietTold

\* An identity that is not a tab's own is one that it was told of, or that it is
\* about to reset (telemetry.ts:467-500).
THEOREM StrangersTold == Spec => []ToldInv
BY ToldInit, ToldStep, PTL DEF Spec

\* The step that takes an identity is a repair of a tab that knows of no holder.
LEMMA TakesRepairs ==
    ASSUME FollowInv, Next, NEW t \in Tabs, Takes(t)
    PROVE  /\ plan[t] = <<>> /\ signedIn[t] \notin {Nobody, held[t]}
           /\ ~IsSibling(t, held[t])
<1>1. /\ plan \in [Tabs -> Seq(Operations)] /\ queue \in [Tabs -> Seq(Commands)]
      /\ \A o \in Tabs : text[o] # <<>> => plan[o] # <<>>
  BY DEF FollowInv, TypeOK, Shape
<1>2. plan[t] = <<>> /\ plan'[t] # plan[t] /\ queue'[t] = queue[t]
  BY DEF Takes
<1>3. ~RunCommand(t)
  <2>1. queue[t] # <<>> => Tail(queue[t]) # queue[t]
    BY <1>1
  <2> QED
    BY <1>1, <1>2, <2>1 DEF RunCommand
<1>4. ASSUME NEW o \in Tabs,
             \/ Restore(o) \/ SDKLoaded(o) \/ Unload(o) \/ CloseTab(o)
             \/ SignOut(o) \/ HearLogout(o) \/ RefreshInBackground(o)
             \/ Refreshed(o) \/ RefreshFailed(o) \/ RegistryRead(o) \/ HearNews(o) \/ Adopt(o)
             \/ EventDropped(o) \/ EventSent(o) \/ \E p \in People : SignIn(o, p)
      PROVE  plan' = plan
  BY <1>4 DEF Restore, SDKLoaded, Unload, CloseTab, Discard, SignOut, HearLogout,
     RefreshInBackground, Refreshed, RefreshFailed, RegistryRead, HearNews, Adopt,
     EventDropped, EventSent, SignIn, facade
<1>5. (\E p \in People : RegistryExpires(p)) \/ WebsiteWrites \/ SessionEnds => plan' = plan
  BY DEF RegistryExpires, WebsiteWrites, SessionEnds, facade
<1>6. ASSUME NEW o \in Tabs, RegistryWritten(o) \/ IdentityWritten(o) PROVE plan'[t] = plan[t]
  BY <1>1, <1>2, <1>6 DEF RegistryWritten, IdentityWritten, PlanGoesOn
<1>7. ASSUME NEW o \in Tabs, o # t, RunCommand(o) PROVE plan'[t] = plan[t]
  BY <1>7, CommandDoes
<1>8. ASSUME NEW o \in Tabs, o # t, RepairFires(o) PROVE plan'[t] = plan[t]
  BY <1>1, <1>8 DEF RepairFires
<1>9. RepairFires(t)
  BY <1>2, <1>3, <1>4, <1>5, <1>6, <1>7, <1>8 DEF Next
<1> QED
  BY <1>2, <1>9 DEF RepairFires

\* The step that sets the timer is an event of a tab that knows of no holder.
LEMMA ArmsDrops ==
    ASSUME FollowInv, Next, NEW t \in Tabs, Arms(t)
    PROVE  /\ plan[t] = <<>> /\ signedIn[t] \notin {Nobody, held[t]}
           /\ ~IsSibling(t, held[t])
<1>1. repair \in [Tabs -> BOOLEAN] /\ ~repair[t] /\ repair'[t]
  BY DEF FollowInv, TypeOK, Arms
<1>2. ASSUME NEW o \in Tabs,
             \/ Restore(o) \/ SDKLoaded(o) \/ SignOut(o) \/ HearLogout(o)
             \/ RefreshInBackground(o) \/ Refreshed(o) \/ RefreshFailed(o)
             \/ RegistryRead(o) \/ RegistryWritten(o) \/ IdentityWritten(o)
             \/ HearNews(o) \/ Adopt(o) \/ EventSent(o) \/ \E p \in People : SignIn(o, p)
      PROVE  repair' = repair
  BY <1>2 DEF Restore, SDKLoaded, SignOut, HearLogout, RefreshInBackground, Refreshed,
     RefreshFailed, RegistryRead, RegistryWritten, IdentityWritten, HearNews, Adopt,
     EventSent, SignIn, facade
<1>3. (\E p \in People : RegistryExpires(p)) \/ WebsiteWrites \/ SessionEnds
        => repair' = repair
  BY DEF RegistryExpires, WebsiteWrites, SessionEnds, facade
<1>4. ASSUME NEW o \in Tabs, Unload(o) \/ CloseTab(o) \/ RunCommand(o) \/ RepairFires(o)
      PROVE  repair' = repair \/ repair' = [repair EXCEPT ![o] = FALSE]
  BY <1>4 DEF Unload, CloseTab, Discard, RunCommand, Identify, Confirm, Forget, Yield, Reset,
     RepairFires
<1>5. PICK o \in Tabs : EventDropped(o)
  BY <1>1, <1>2, <1>3, <1>4 DEF Next
<1>6. /\ repair' = repair \/ repair' = [repair EXCEPT ![o] = TRUE]
      /\ repair' # repair => ~IsSibling(o, held[o])
  BY <1>5 DEF EventDropped
<1>7. o = t
  BY <1>1, <1>6
<1> QED
  BY <1>1, <1>5, <1>6, <1>7 DEF EventDropped, Idle

\* Tabs do not fight: a repair is neither set against a tab of the app that holds the
\* identity that is seen, nor takes it from it, unless a registry write undid another
\* tab's (telemetry.ts:467-500, 550-588).
THEOREM RepairsSpare == Spec => RepairSpares
<1>1. ASSUME ToldInv, Next, NEW t \in Tabs, Arms(t) \/ Takes(t), NEW o \in Tabs \ {t}, Holds(o),
             signedIn[o] = held[t]
      PROVE  overtaken
  <2>0. FollowInv
    BY <1>1 DEF ToldInv
  <2>1. /\ plan[t] = <<>> /\ signedIn[t] \notin {Nobody, held[t]}
        /\ held[t] \notin siblings[t] \union registry
    BY <1>1, <2>0, ArmsDrops, TakesRepairs DEF IsSibling
  <2>2. held[t] \in People /\ held[t] # Nobody /\ ~Identifies(o)
    BY <1>1, IdentityAssumption DEF Holds
  <2>3. loaded[t] /\ ~Resets(t)
    BY <2>0, <2>1, HasNone DEF FollowInv, Shape, Resets
  <2>4. Registered(held[t])
    BY <1>1, <2>1, <2>2, <2>3 DEF ToldInv, HeldTold, Knows
  <2>5. signedIn[o] = held[t] /\ plan[o] = <<>>
    BY <1>1, <2>0, <2>2, Identifying
  <2> QED
    BY <2>1, <2>4, <2>5 DEF Registered
<1>2. ASSUME ToldInv, [Next]_vars
      PROVE  [\A t \in Tabs : Arms(t) \/ Takes(t) =>
                overtaken \/ \A o \in Tabs \ {t} : Holds(o) => signedIn[o] # held[t]]_vars
  BY <1>1, <1>2
<1> QED
  BY <1>2, StrangersTold, PTL DEF Spec, RepairSpares
=============================================================================
