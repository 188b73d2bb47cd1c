---------------------------- MODULE MC_TraceRing ----------------------------
(* Two callers on a ring of three slots that wraps twice and more. *)
EXTENDS TraceRing, TLC

CONSTANTS t1, t2, f1, f2
Symmetry == Permutations({t1, t2}) \cup Permutations({f1, f2})
=============================================================================
