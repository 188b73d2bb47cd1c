------------------------ MODULE MC_StudioDiagnostics ------------------------
(* The studio and an agent over two links, one after the other and of either *)
(* kind, so that what began on one may end on the other.                     *)
EXTENDS StudioDiagnostics

CONSTANT a1
=============================================================================
