------------------------------ MODULE MCSignIn ------------------------------
(* Small instances of SignIn, given by its .cfg files. *)
EXTENDS SignIn
=============================================================================
