---------------------------- MODULE MCSchedules -----------------------------
(* Small instances of Schedules for TLC; the .cfg files give the constants. *)
EXTENDS Schedules
=============================================================================
