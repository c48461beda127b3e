----------------------------- MODULE MCSession -----------------------------
(* Small instances of Session: two tabs of one browser and two people. *)
EXTENDS Session, TLC

CONSTANTS t1, t2, s1, s2, ann, bob

MCOwner == [s \in Sessions |-> IF s = s1 THEN ann ELSE bob]

\* Two tabs sign people in.  One works, recovers from maintenance and may sign in
\* while it refreshes; the other signs out, and its fresh tokens may be refused.
People == {<<t1, "request">>, <<t1, "sign in">>, <<t1, "recover">>, <<t1, "overtake">>,
           <<t2, "sign in">>, <<t2, "sign out">>, <<t2, "skew">>}

\* One tab works, loses answers and closes beside one that refreshes, loses answers
\* and signs out, on a session the API may end by itself.
Leaving == {<<t1, "request">>, <<t1, "lose">>, <<t1, "close">>,
            <<t2, "background">>, <<t2, "lose">>, <<t2, "sign out">>, <<t2, "expire">>}
=============================================================================
