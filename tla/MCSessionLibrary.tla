-------------------------- MODULE MCSessionLibrary ---------------------------
(***************************************************************************)
(* SessionLibrary for TLC: connections, viewers and session ids are        *)
(* interchangeable.                                                        *)
(***************************************************************************)
EXTENDS SessionLibrary, TLC

LibrarySymmetry == Permutations(Conns) \cup Permutations(Viewers) \cup Permutations(Sids)
=============================================================================
