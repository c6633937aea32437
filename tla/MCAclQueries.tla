----------------------------- MODULE MCAclQueries -----------------------------
(* AclQueries with one authentication server. *)
EXTENDS AclQueries

CONSTANT s1
OneServer == <<s1>>
=============================================================================
