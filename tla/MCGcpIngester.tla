--------------------------- MODULE MCGcpIngester ----------------------------
(* Instances of GcpIngester for TLC.                                       *)
EXTENDS GcpIngester, TLC

CONSTANTS m1, m2, bad, e1, e2

\* One event published twice, and one in a message that does not decode.
EventsOfMessages == (m1 :> e1) @@ (m2 :> e1) @@ (bad :> e2)
=============================================================================
