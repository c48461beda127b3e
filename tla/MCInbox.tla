------------------------------ MODULE MCInbox ------------------------------
(* Small instances of Inbox, given by its .cfg files. *)
EXTENDS Inbox
=============================================================================
