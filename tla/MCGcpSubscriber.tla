-------------------------- MODULE MCGcpSubscriber ---------------------------
(* Instances of GcpSubscriber for TLC.                                     *)
EXTENDS GcpSubscriber

\* Tasks of one second: the sort may leave a page in any order.
EqualTimestamps == <<1, 1, 1>>
=============================================================================
