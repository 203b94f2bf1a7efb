--------------------------- MODULE MCStreamSender ---------------------------
(***************************************************************************)
(* Instances of StreamSender for TLC.  Two traced threads, so that the two *)
(* halves of sink() interleave with each other and with finish(); a cap of *)
(* 2 with up to 3 calls each, so that it is reached, leaked and released.  *)
(***************************************************************************)
EXTENDS StreamSender
=============================================================================
