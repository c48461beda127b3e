----------------------------- MODULE MCCheckout -----------------------------
(* Small instances of Checkout, given by its .cfg files. *)
EXTENDS Checkout
=============================================================================
