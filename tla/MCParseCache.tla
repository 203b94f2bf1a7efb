---------------------------- MODULE MCParseCache -----------------------------
(***************************************************************************)
(* ParseCache for TLC: workers, files and contents are interchangeable.    *)
(***************************************************************************)
EXTENDS ParseCache, TLC

CacheSymmetry == Permutations(Workers) \cup Permutations(Files) \cup Permutations(Contents)
=============================================================================
