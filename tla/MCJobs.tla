------------------------------- MODULE MCJobs -------------------------------
(* Small instances of Jobs for TLC; the .cfg files give the constants. *)
EXTENDS Jobs
=============================================================================
