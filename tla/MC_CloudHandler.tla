--------------------------- MODULE MC_CloudHandler ---------------------------
(* Instances of CloudHandler for TLC.                                       *)
EXTENDS CloudHandler, TLC

CONSTANTS i1, i2, m1, m2, e1

\* A series and an event of one address, and a series of another.
TwoHosts == m1 :> i1 @@ m2 :> i2 @@ e1 :> i1
\* A series and an event of one address.
OneOfEach == m1 :> i1 @@ e1 :> i1
=============================================================================
