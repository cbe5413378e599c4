------------------------------- MODULE MCRetry -------------------------------
(* Instances of Retry for TLC.                                             *)
EXTENDS Retry
=============================================================================
