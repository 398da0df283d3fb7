--------------------------- MODULE MCIntelligence ----------------------------
(* A small instance of Intelligence for TLC; the .cfg file gives the constants. *)
EXTENDS Intelligence
=============================================================================
