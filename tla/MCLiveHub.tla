------------------------------ MODULE MCLiveHub ------------------------------
(***************************************************************************)
(* LiveHub for TLC.  Two producers and a viewer, not symmetric: BroadcastEnds*)
(* is a liveness property.                                                  *)
(***************************************************************************)
EXTENDS LiveHub
=============================================================================
