----------------------------- MODULE Questions -----------------------------
(***************************************************************************)
(* The parts of grackle that answer a question from the data at hand. A     *)
(* behaviour asks one question, a record with a kind; its answer is Nothing *)
(* until the part has given it, and is kept.                                 *)
(***************************************************************************)
CONSTANT Nothing
VARIABLES asked, answer
questionVars == <<asked, answer>>

Answer(kind, value) ==
  asked.kind = kind /\ answer = Nothing /\ answer' = value /\ UNCHANGED asked

Answered(kind) == answer # Nothing /\ asked.kind = kind
=============================================================================
