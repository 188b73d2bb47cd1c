------------------------ MODULE MC_StudioConnection ------------------------
(* Two links, each of any kind, whoever opens them: enough for a second     *)
(* opening to race the first and for a reconnection after a disconnect.     *)
EXTENDS StudioConnection
=============================================================================
