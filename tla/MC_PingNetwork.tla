--------------------------- MODULE MC_PingNetwork ---------------------------
(* Pings between a studio and a viewer that number theirs from one. *)
EXTENDS PingNetwork, TLC
CONSTANTS studio, viewer
Studio == {studio}
Viewer == {viewer}
=============================================================================
