------------------------- MODULE AmplifierComponent -------------------------
(***************************************************************************)
(* The Amplifier component in the relayer engine, without its task         *)
(* listener (see FromAmplifier): the event sender                          *)
(* (relayer-amplifier-api-integration/src/to_amplifier.rs), the health     *)
(* check (healthcheck.rs), the race of the three parts (component.rs), and *)
(* the join set of relayer-engine/src/lib.rs with a second component and   *)
(* the Ctrl-C task.  Everything here lives in memory: one life of the      *)
(* process is modelled.                                                    *)
(***************************************************************************)
EXTENDS Naturals, Sequences

CONSTANTS
  MaxEvents,            \* bound: commands ever sent
  MaxInvalid,           \* `invalid_healthchecks_before_shutdown`
  MaxChanges            \* bound: changes of the API's condition

Events == 1..MaxEvents

ASSUME ComponentAssumption ==
  /\ MaxEvents \in Nat
  /\ MaxInvalid \in Nat
  /\ MaxChanges \in Nat

VARIABLES
  api,                  \* "ok", "erroring" (HTTP errors), "unreachable"
  client,               \* the AmplifierCommandClients: "held" or "dropped"
  commands,             \* the unbounded command channel
  stage,                \* where each event is
  check,                \* the health check: "waiting", "asking" or "hung"
  current_failures,     \* healthcheck_current_failures
  amplifier,            \* the component: "running", "failed", "aborted"
  other,                \* a component beside it: also "finished"
  ctrlc,                \* the signal was received
  engine,               \* "up" or "down"
  changes               \* changes of `api` so far

componentVars == <<api, client, commands, stage, check, current_failures, amplifier, other, ctrlc,
                   engine, changes>>

EventStages == {"none", "queued", "posting", "answered", "failed", "aborted"}

ComponentInit ==
  /\ api = "ok" /\ client = "held" /\ commands = <<>>
  /\ stage = [e \in Events |-> "none"]
  /\ check = "waiting" /\ current_failures = 0
  /\ amplifier = "running" /\ other = "running"
  /\ ctrlc = FALSE /\ engine = "up" /\ changes = 0

-----------------------------------------------------------------------------
(* Helpers                                                                 *)

Posting == {e \in Events : stage[e] = "posting"}

\* Dropping or aborting the join set ends the requests at their await.
MutAbortPosts == stage' = stage

AbortPosts == stage' = [e \in Events |-> IF e \in Posting THEN "aborted" ELSE stage[e]]

\* The race is over: the futures of the component are dropped.
AmplifierEnds == amplifier' = "failed" /\ AbortPosts

\* The counter of consecutive invalid checks reaches its limit.
TooMany(n) == n >= MaxInvalid

-----------------------------------------------------------------------------
(* The relayer's side of the command channel, and the API                  *)

SendCommand(e) ==
  /\ engine = "up" /\ amplifier = "running" /\ client = "held"
  /\ stage[e] = "none"
  /\ stage' = [stage EXCEPT ![e] = "queued"]
  /\ commands' = Append(commands, e)
  /\ UNCHANGED <<api, client, check, current_failures, amplifier, other, ctrlc, engine, changes>>

DropClients ==
  /\ engine = "up" /\ client = "held"
  /\ client' = "dropped"
  /\ UNCHANGED <<api, commands, stage, check, current_failures, amplifier, other, ctrlc, engine,
                 changes>>

ApiChanges ==
  /\ changes < MaxChanges
  /\ changes' = changes + 1
  /\ api' \in {"ok", "erroring", "unreachable"} \ {api}
  /\ UNCHANGED <<client, commands, stage, check, current_failures, amplifier, other, ctrlc, engine>>

-----------------------------------------------------------------------------
(* to_amplifier                                                            *)

\* A command is taken from the channel and its request spawned.
SpawnPost ==
  /\ amplifier = "running"
  /\ commands # <<>>
  /\ stage' = [stage EXCEPT ![Head(commands)] = "posting"]
  /\ commands' = Tail(commands)
  /\ UNCHANGED <<api, client, check, current_failures, amplifier, other, ctrlc, engine, changes>>

\* The API answers.  What it says of the event is logged, either way.
PostAnswered(e) ==
  /\ e \in Posting /\ api = "ok"
  /\ stage' = [stage EXCEPT ![e] = "answered"]
  /\ UNCHANGED <<api, client, commands, check, current_failures, amplifier, other, ctrlc, engine,
                 changes>>

\* An error of the request, logged; the event is not sent again.
PostFails(e) ==
  /\ e \in Posting /\ api # "ok"
  /\ stage' = [stage EXCEPT ![e] = "failed"]
  /\ UNCHANGED <<api, client, commands, check, current_failures, amplifier, other, ctrlc, engine,
                 changes>>

\* The channel is closed and empty: the requests under way are aborted ...
ChannelCloses ==
  /\ amplifier = "running"
  /\ client = "dropped" /\ commands = <<>> /\ Posting # {}
  /\ AbortPosts
  /\ UNCHANGED <<api, client, commands, check, current_failures, amplifier, other, ctrlc, engine,
                 changes>>

\* ... and the sender ends once its join set is empty.
SenderEnds ==
  /\ amplifier = "running"
  /\ client = "dropped" /\ commands = <<>> /\ Posting = {}
  /\ AmplifierEnds
  /\ UNCHANGED <<api, client, commands, check, current_failures, other, ctrlc, engine, changes>>

-----------------------------------------------------------------------------
(* healthcheck                                                             *)

SpawnCheck ==
  /\ amplifier = "running"
  /\ check = "waiting"
  /\ check' = "asking"
  /\ UNCHANGED <<api, client, commands, stage, current_failures, amplifier, other, ctrlc, engine,
                 changes>>

\* The request has no timeout: a server that keeps the connection may leave
\* it without an answer, for a while or for ever.
CheckHangs ==
  /\ amplifier = "running"
  /\ check = "asking" /\ api # "unreachable"
  /\ check' = "hung"
  /\ UNCHANGED <<api, client, commands, stage, current_failures, amplifier, other, ctrlc, engine,
                 changes>>

CheckOk ==
  /\ amplifier = "running"
  /\ check # "waiting" /\ api = "ok"
  /\ check' = "waiting" /\ current_failures' = 0
  /\ UNCHANGED <<api, client, commands, stage, amplifier, other, ctrlc, engine, changes>>

\* An answer with an error status counts ...
MutCheckInvalid ==
  /\ amplifier = "running"
  /\ check # "waiting" /\ api = "erroring"
  /\ check' = "waiting"
  /\ UNCHANGED <<api, client, commands, stage, current_failures, amplifier, other, ctrlc, engine,
                 changes>>

CheckInvalid ==
  /\ amplifier = "running"
  /\ check # "waiting" /\ api = "erroring"
  /\ check' = "waiting" /\ current_failures' = current_failures + 1
  /\ IF TooMany(current_failures + 1) THEN AmplifierEnds ELSE UNCHANGED <<amplifier, stage>>
  /\ UNCHANGED <<api, client, commands, other, ctrlc, engine, changes>>

\* ... while a request without an answer ends the check at once (`execute()?`).
CheckUnreachable ==
  /\ amplifier = "running"
  /\ check # "waiting" /\ api = "unreachable"
  /\ AmplifierEnds
  /\ UNCHANGED <<api, client, commands, check, current_failures, other, ctrlc, engine, changes>>

-----------------------------------------------------------------------------
(* relayer-engine                                                          *)

\* The other component returns Ok, which the engine logs, or fails or panics.
OtherEnds ==
  /\ other = "running"
  /\ other' \in {"finished", "failed"}
  /\ UNCHANGED <<api, client, commands, stage, check, current_failures, amplifier, ctrlc, engine,
                 changes>>

ReceiveCtrlC ==
  /\ engine = "up" /\ ~ctrlc
  /\ ctrlc' = TRUE
  /\ UNCHANGED <<api, client, commands, stage, check, current_failures, amplifier, other, engine,
                 changes>>

\* The first task that ends with an error shuts the join set down.
ErrorEnded == other = "failed" \/ amplifier = "failed" \/ ctrlc

Shutdown ==
  /\ engine = "up" /\ ErrorEnded
  /\ engine' = "down"
  /\ amplifier' = IF amplifier = "running" THEN "aborted" ELSE amplifier
  /\ other' = IF other = "running" THEN "aborted" ELSE other
  /\ AbortPosts
  /\ UNCHANGED <<api, client, commands, check, current_failures, ctrlc, changes>>

-----------------------------------------------------------------------------
Sender == SpawnPost \/ ChannelCloses \/ SenderEnds
Health == SpawnCheck \/ CheckOk \/ CheckInvalid \/ CheckUnreachable

ComponentNext ==
  \/ \E e \in Events : SendCommand(e) \/ PostAnswered(e) \/ PostFails(e)
  \/ DropClients \/ ApiChanges
  \/ SpawnPost \/ ChannelCloses \/ SenderEnds
  \/ SpawnCheck \/ CheckHangs \/ CheckOk \/ CheckInvalid \/ CheckUnreachable
  \/ OtherEnds \/ ReceiveCtrlC \/ Shutdown

ComponentSpec == ComponentInit /\ [][ComponentNext]_componentVars

\* The parts of the component are polled.  A request may hang, one that posts
\* an event as well as one of the health check: no fairness on its answer.
ComponentFairSpec ==
  /\ ComponentSpec
  /\ WF_componentVars(Sender)
  /\ WF_componentVars(check # "hung" /\ Health)
  /\ WF_componentVars(Shutdown)

-----------------------------------------------------------------------------
(* Properties                                                              *)

ComponentTypeOK ==
  /\ api \in {"ok", "erroring", "unreachable"}
  /\ client \in {"held", "dropped"}
  /\ commands \in Seq(Events)
  /\ stage \in [Events -> EventStages]
  /\ check \in {"waiting", "asking", "hung"}
  /\ current_failures \in 0..MaxInvalid + 1
  /\ amplifier = "running" /\ MaxInvalid > 0 => current_failures < MaxInvalid
  /\ amplifier \in {"running", "failed", "aborted"}
  /\ other \in {"running", "finished", "failed", "aborted"}
  /\ ctrlc \in BOOLEAN
  /\ engine \in {"up", "down"}
  /\ changes \in 0..MaxChanges

(* An event is requested at most once: whatever became of its request,     *)
(* answered, failed or aborted, it is not sent again (to_amplifier.rs      *)
(* takes each command from the channel once and logs what its task         *)
(* returned).                                                              *)
PostedOnce ==
  [][\A e \in Events : stage'[e] = "posting" => stage[e] \in {"queued", "posting"}]_componentVars

(* No request outlives the component, whichever part of it ends the race   *)
(* (component.rs), nor the engine that shuts it down (relayer-engine).     *)
NoRequestOutlives == amplifier # "running" \/ engine = "down" => Posting = {}

(* An API that never recovers ends the engine, by the counter or at once,  *)
(* unless a health check is never answered.                                *)
DeadApiEndsUnlessHung ==
  <>[](api # "ok") => <>(engine = "down") \/ <>[](check = "hung")

(* Dropping the clients ends the engine even if a request hangs: the       *)
(* sender aborts what is under way instead of waiting for it.              *)
DroppedClientsEnd == (client = "dropped") ~> (engine = "down")
=============================================================================
