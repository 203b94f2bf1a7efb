--------------------------- MODULE MCTraceOutput ----------------------------
(***************************************************************************)
(* TraceOutput for TLC: runs of one output path are interchangeable.       *)
(***************************************************************************)
EXTENDS TraceOutput, TLC

RunSymmetry == Permutations(Runs)
=============================================================================
