----------------------------- MODULE EventRelay -----------------------------
(***************************************************************************)
(* What the amplifier ingester promises for the events queue: a message    *)
(* leaves the queue only after its event was posted to the Amplifier API,  *)
(* or because the queue gave up delivering it.  Two messages can carry the *)
(* same event, published twice.                                            *)
(***************************************************************************)
EXTENDS Naturals

CONSTANTS
  Messages,             \* the messages of the queue
  EventOf               \* the event each one carries

VARIABLES
  backlog,              \* messages the queue still has to deliver
  dead,                 \* messages the queue gave up on
  posted                \* events a request to the API was answered for

relayVars == <<backlog, dead, posted>>

RelayInit == backlog = Messages /\ dead = {} /\ posted = {}

Post(m) ==
  /\ posted' = posted \union {EventOf[m]}
  /\ UNCHANGED <<backlog, dead>>

Settle(m) ==
  /\ EventOf[m] \in posted
  /\ backlog' = backlog \ {m}
  /\ UNCHANGED <<dead, posted>>

GiveUp(m) ==
  /\ backlog' = backlog \ {m}
  /\ dead' = dead \union {m}
  /\ UNCHANGED posted

RelayNext == \E m \in Messages : Post(m) \/ Settle(m) \/ GiveUp(m)

RelaySafe == RelayInit /\ [][RelayNext]_relayVars

(* Every message is settled or given up in the end.                        *)
EveryMessageLeaves == \A m \in Messages : <>(m \notin backlog)
=============================================================================
