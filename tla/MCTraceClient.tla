---------------------------- MODULE MCTraceClient ----------------------------
(* A small instance of TraceClient: two stored sessions of different        *)
(* lengths and live ones.                                                   *)
EXTENDS TraceClient, TLC

CONSTANTS a, b
MCTraceLen == a :> 2 @@ b :> 1
=============================================================================
