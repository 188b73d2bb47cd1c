--------------------------- MODULE MC_ElmSession ---------------------------
(* Two threads and a handful of commands: every pair of calls overlaps. *)
EXTENDS ElmSession

CONSTANTS t1, t2
=============================================================================
