------------------------ MODULE MCActiveDiagnostics ------------------------
(***************************************************************************)
(* Two calls against a coordinator that admits one per window: the second  *)
(* meets every refusal, and the clock leaves room for a window to pass.    *)
(***************************************************************************)
EXTENDS ActiveDiagnostics
=============================================================================
