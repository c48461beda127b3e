------------------------ MODULE MCNotificationStream ------------------------
(* A small instance of NotificationStream: two tokens, room for two          *)
(* connections (so that a second one would show), three backoffs.            *)
EXTENDS NotificationStream
=============================================================================
