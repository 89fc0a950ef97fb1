--------------------------- MODULE MCCommandQueue ---------------------------
(* Three calls whose limits differ, zero (which reads as one) among them.  *)
EXTENDS CommandQueue, TLC

MCLimits == 1 :> 2 @@ 2 :> 0 @@ 3 :> 1
MCOne == 1 :> 1 @@ 2 :> 1
=============================================================================
