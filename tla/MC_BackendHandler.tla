------------------------- MODULE MC_BackendHandler -------------------------
EXTENDS BackendHandler, TLC

CONSTANTS p1, p2, p3, d1, b1

MCPoints == {p1, p2, p3}

MCBucket == p1 :> 1 @@ p2 :> 2 @@ p3 :> 1
=============================================================================
