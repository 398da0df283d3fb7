---------------------------- MODULE MCAuthority -----------------------------
(* Small instances of Authority for TLC; the .cfg files give the constants. *)
EXTENDS Authority
=============================================================================
