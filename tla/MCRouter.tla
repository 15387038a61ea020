------------------------------ MODULE MCRouter ------------------------------
(* Small instances of the router.  Two channels: one serves both models,   *)
(* the other only one, so that one model has a fallback and the other has  *)
(* not.                                                                    *)
EXTENDS Router, TLC

CONSTANTS chA, chB, both, one

MCServes == chA :> {both, one} @@ chB :> {both}
Ranked == chA :> 1 @@ chB :> 2
Distinct == chA :> 1 @@ chB :> 2
Equal == chA :> 1 @@ chB :> 1
=============================================================================
