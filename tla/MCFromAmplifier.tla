-------------------------- MODULE MCFromAmplifier ---------------------------
(* Instances of FromAmplifier for TLC.                                     *)
EXTENDS FromAmplifier
=============================================================================
