---- MODULE MCWatchMode ----
(* The instance of WatchMode that TLC checks.  No symmetry: a liveness property is checked. *)
EXTENDS WatchMode
====
