----------------------------- MODULE MC_Sender -----------------------------
(* Instances of Sender for TLC.                                             *)
EXTENDS Sender
=============================================================================
