---------------------------- MODULE RefreshTurns ----------------------------
(***************************************************************************)
(* What ensureSession() promises across tabs (http/session.ts): refreshes  *)
(* of the shared cookie take turns, a turn that was asked for comes unless *)
(* its tab goes away, and every turn ends.                                 *)
(***************************************************************************)
CONSTANT Workers

VARIABLES
    waiting,   \* tabs that asked for a turn
    working    \* tabs in their turn: one at most

vars == <<waiting, working>>

Init == waiting = {} /\ working = {}

Ask(w) ==
    /\ w \notin waiting \union working
    /\ waiting' = waiting \union {w}
    /\ UNCHANGED working

Take(w) ==
    /\ w \in waiting
    /\ working = {}
    /\ waiting' = waiting \ {w}
    /\ working' = {w}

Finish(w) ==
    /\ w \in working
    /\ working' = working \ {w}
    /\ UNCHANGED waiting

\* A tab that closes gives up its place.
GiveUp(w) ==
    /\ w \in waiting
    /\ waiting' = waiting \ {w}
    /\ UNCHANGED working

Next == \E w \in Workers : Ask(w) \/ Take(w) \/ Finish(w) \/ GiveUp(w)

Spec == Init /\ [][Next]_vars

\* A turn comes to whoever keeps waiting, and every turn ends.
FairSpec ==
    /\ Spec
    /\ \A w \in Workers : SF_vars(Take(w)) /\ WF_vars(Finish(w))
=============================================================================
