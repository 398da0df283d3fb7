--------------------------- MODULE MCNotifications --------------------------
(* Small instances of Notifications for TLC; the .cfg files give the constants. *)
EXTENDS Notifications, TLC

\* The processes are interchangeable, and no liveness is checked.
Symmetry == Permutations(Procs)
=============================================================================
