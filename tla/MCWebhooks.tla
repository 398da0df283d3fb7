----------------------------- MODULE MCWebhooks -----------------------------
(* Small instances of Webhooks for TLC; the .cfg files give the constants. *)
EXTENDS Webhooks
=============================================================================
