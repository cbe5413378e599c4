-------------------------- MODULE MCNatsSubscriber --------------------------
(* Instances of NatsSubscriber for TLC.                                    *)
EXTENDS NatsSubscriber

OrderedTimestamps == <<1, 2, 3, 4, 5>>
=============================================================================
