--------------------------- MODULE MCNodeSession ---------------------------
(* The instance of NodeSession that TLC checks. No symmetry: a liveness     *)
(* property is checked.                                                      *)
EXTENDS NodeSession
=============================================================================
