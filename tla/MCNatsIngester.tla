--------------------------- MODULE MCNatsIngester ---------------------------
(* Instances of NatsIngester for TLC.                                      *)
EXTENDS NatsIngester
=============================================================================
