-------------------------- MODULE MCServiceProcess --------------------------
(* Instances of ServiceStart, and with it ServiceProcess, for TLC.         *)
EXTENDS ServiceStart
=============================================================================
