----------------------------- MODULE TaskRelay ------------------------------
(***************************************************************************)
(* What the amplifier subscriber promises, whatever queue it is built on:  *)
(* the tasks the Amplifier API creates for a chain reach the task queue,   *)
(* and the position from which the next request resumes never runs ahead   *)
(* of what the queue holds.  GcpSubscriber and NatsSubscriber are shown to *)
(* implement this specification, and so is FromAmplifier, whose relayer    *)
(* takes the place of the queue.                                           *)
(*                                                                         *)
(* A task is its position in the order in which the API lists the tasks    *)
(* (`GetChains { after, limit }` of amplifier-api).                        *)
(***************************************************************************)
EXTENDS Naturals

CONSTANT MaxTasks       \* bound: tasks the API ever creates

VARIABLES
  created,              \* the API has the tasks 1 .. created
  queued,               \* tasks that reached the task queue
  position              \* the task the next request resumes after, 0 if none

relayVars == <<created, queued, position>>

RelayInit == created = 0 /\ queued = {} /\ position = 0

Create ==
  /\ created < MaxTasks
  /\ created' = created + 1
  /\ UNCHANGED <<queued, position>>

\* A task reaches the queue; redelivery of one already there is a stutter.
\* Where the queue itself is the record of the position, both move at once.
Enqueue(t) ==
  /\ queued' = queued \union {t}
  /\ position' \in {position, t}
  /\ 1..position' \subseteq queued'
  /\ UNCHANGED created

Resume(t) ==
  /\ 1..t \subseteq queued
  /\ position' = t
  /\ UNCHANGED <<created, queued>>

RelayNext ==
  \/ Create
  \/ \E t \in 1..created : Enqueue(t) \/ Resume(t)

RelaySafe == RelayInit /\ [][RelayNext]_relayVars

(* Every task the API creates is eventually behind the resume position and *)
(* so, by Enqueue and Resume, in the queue.                                *)
EveryTaskRelayed == \A t \in 1..MaxTasks : (created >= t) ~> (position >= t)

RelaySpec == RelaySafe /\ EveryTaskRelayed
=============================================================================
