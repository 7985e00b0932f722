-------------------------- MODULE MC_HttpForwarder --------------------------
(* Instances of HttpForwarder for TLC.                                      *)
EXTENDS HttpForwarder, TLC

CONSTANTS b1, b2, b3

\* Two series share the value of the dynamic header.
TwoKeys == b1 :> "x" @@ b2 :> "x" @@ b3 :> "y"
=============================================================================
