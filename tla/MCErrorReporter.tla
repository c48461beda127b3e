-------------------------- MODULE MCErrorReporter --------------------------
(* A small instance of ErrorReporter, given by its .cfg file.  In batches   *)
(* of three bytes, under a quota of four: an error of two bytes, and with   *)
(* it, of another fingerprint, one that fits its batch, one that goes       *)
(* beside it and is over the quota, or one too big for any batch.           *)
EXTENDS ErrorReporter, TLC

CONSTANTS e1, e2, e3, e4

Sizes  == (e1 :> 2) @@ (e2 :> 1) @@ (e3 :> 3) @@ (e4 :> 4)
Kinds  == [e \in Errors |-> IF e = e1 THEN "other" ELSE "one"]
=============================================================================
