----------------------------- MODULE ServiceStart -----------------------------
(***************************************************************************)
(* The start of a service up to its health check server: main,             *)
(* run_subscriber and run_ingester, new_amplifier_subscriber and           *)
(* new_amplifier_ingester for both backends, try_deserialize and the       *)
(* sections of the configuration, the connectors.  The steps run one after *)
(* the other and the first that fails ends the process (expect).  From the *)
(* worker's spawn on ServiceProcess runs beside them.                      *)
(***************************************************************************)
EXTENDS ServiceProcess, Sequences

VARIABLES
  feature,              \* the queue it was built for: "gcp" or "nats"
  config,               \* how each field of the configuration was given
  down,                 \* the one external service that fails, or "none"
  step                  \* steps of the start done

startVars == <<feature, config, down, step>>

-----------------------------------------------------------------------------
(* The configuration                                                       *)

Fields == {"chain", "tickrate_secs", "max_errors", "credentials", "redis_connection", "queue",
           "nats_urls", "telemetry", "health_check_port"}

\* Given in the file or the environment, not at all, or with a value that
\* validate, or the use of the field, refuses.
Given == {"file", "env", "none", "bad"}

\* `queue` stands for tasks_topic, events_subscription and the KMS section,
\* `credentials` for identity, on Google Cloud tls_public_certificate.
\* RELAYER_TICKRATE_SECS is split at every "_": tickrate.secs.  No field
\* with a "_" in its name can be given by the environment, nor a list.
NotByEnv == Fields \ ({"chain"} \cup IF feature = "nats" THEN {"credentials"} ELSE {})

Optional == {"max_errors", "telemetry"}

UsedFields ==
  {"chain", "tickrate_secs", "max_errors", "credentials", "telemetry", "health_check_port"}
  \cup (IF feature = "gcp" THEN {"redis_connection", "queue"} ELSE {"nats_urls"})

Missing(f) == config[f] = "none" /\ f \notin Optional

\* A duration of zero and any number of errors pass validation.
Invalid(f) == config[f] = "bad" /\ f \notin {"tickrate_secs", "max_errors"}

Wrong(f) == Invalid(f) \/ Missing(f)

\* Given by a variable whose name is split into another one.  max_errors has
\* its default, a telemetry section lacks its fields.
Unseen(f) == config[f] = "env" /\ f \in NotByEnv \ {"max_errors"}

Refused(f) == Wrong(f) \/ Unseen(f)

\* interval(0) panics.
NoTick == config["tickrate_secs"] = "bad"

-----------------------------------------------------------------------------
(* The steps                                                               *)

\* Each step with the fields it reads and the services it calls.
Step(name, fields, services) == <<[name |-> name, fields |-> fields, services |-> services]>>

\* A telemetry section with a field missing fails with the rest of Config.
ReadConfig == Step("config", {"chain", "tickrate_secs", "max_errors"}, {})
InitTelemetry == Step("telemetry", {"telemetry"}, {})
RegisterCancel == Step("register_cancel", {}, {})

MainSteps == ReadConfig \o InitTelemetry \o RegisterCancel

ReadSection(fields) == Step("section", fields, {})

\* Google Cloud: Redis, the client of Pub/Sub and a topic or a subscription
\* that exists, the read task of a consumer, the client of the API with a
\* key in KMS.
ConnectRedis == Step("redis", {}, {"redis"})
GetTopic == Step("topic", {}, {"queue"})
GetSubscription == Step("subscription", {}, {"queue"})
StartReadTask == Step("read_task", {}, {})
KmsClient == Step("api_client", {"credentials"}, {"kms"})

GcpSubscriberSteps ==
  ReadSection({"redis_connection", "queue"}) \o ConnectRedis \o GetTopic \o KmsClient

\* The read task starts with the consumer, before the API client is there.
GcpIngesterSteps ==
  ReadSection({"redis_connection", "queue"})
  \o GetSubscription \o ConnectRedis \o StartReadTask \o KmsClient

\* NATS: the client of the API with an identity, the stream, a consumer.
\* The connection itself retries in the background, the first call on it
\* fails.
IdentityClient == Step("api_client", {"credentials"}, {})
CreateStream == Step("stream", {}, {"queue"})
CreateConsumer == Step("consumer", {}, {"queue"})

NatsSubscriberSteps == ReadSection({"nats_urls"}) \o IdentityClient \o CreateStream

NatsIngesterSteps ==
  ReadSection({"nats_urls"}) \o IdentityClient \o CreateStream \o CreateConsumer

ServiceSteps ==
  CASE feature = "nats" /\ service = "subscriber" -> NatsSubscriberSteps
    [] feature = "nats" /\ service = "ingester" -> NatsIngesterSteps
    [] feature = "gcp" /\ service = "subscriber" -> GcpSubscriberSteps
    [] feature = "gcp" /\ service = "ingester" -> GcpIngesterSteps

\* The worker is spawned before the health check's section is read.
StartWorker == Step("worker", {}, {})
ReadHealthConfig == Step("health_config", {"health_check_port"}, {})
BindPort == Step("bind", {}, {"port"})

RunSteps == StartWorker \o ReadHealthConfig \o BindPort

MutStart == MainSteps \o RunSteps \o ServiceSteps
Start == MainSteps \o ServiceSteps \o RunSteps

Done(name) == \E i \in 1..step : Start[i].name = name

Running == step = Len(Start)

\* A missing field gets a default.
MutStepFails(s) == (\E f \in s.fields : Invalid(f) \/ Unseen(f)) \/ down \in s.services
StepFails(s) == (\E f \in s.fields : Refused(f)) \/ down \in s.services

\* At most one field is not simply given in the file and at most one
\* service is down.
StartInit ==
  /\ Init
  /\ feature \in {"gcp", "nats"}
  /\ config \in {[f \in Fields |-> IF f = odd THEN given ELSE "file"] : odd \in UsedFields, given \in Given}
  /\ down \in {"none"} \cup UNION {Start[i].services : i \in DOMAIN Start}
  /\ step = 0

StartStep ==
  /\ process = "up"
  /\ ~Running
  /\ ~StepFails(Start[step + 1])
  /\ step' = step + 1
  /\ UNCHANGED <<feature, config, down, vars>>

StartFails ==
  /\ process = "up"
  /\ ~Running
  /\ StepFails(Start[step + 1])
  /\ process' = "ended"
  /\ UNCHANGED <<startVars, service, cancelled, loop, errors, lock, reader, probe, server, faults>>

\* Without a handler a Ctrl-C ends the process.
EarlyCtrlC ==
  /\ process = "up"
  /\ ~Done("register_cancel")
  /\ process' = "killed"
  /\ UNCHANGED <<startVars, service, cancelled, loop, errors, lock, reader, probe, server, faults>>

\* The panic of the worker reaches the process at the join.
WorkerPanics ==
  /\ process = "up"
  /\ Running /\ NoTick /\ loop = "ticking"
  /\ process' = "ended"
  /\ UNCHANGED <<startVars, service, cancelled, loop, errors, lock, reader, probe, server, faults>>

-----------------------------------------------------------------------------
(* The process once its parts are there                                    *)

\* The ingester on NATS has no read task, its messages() makes a call.
MessagesFails ==
  /\ process = "up"
  /\ HasReader /\ feature = "nats"
  /\ loop = "ticking"
  /\ RoundErr /\ Fault
  /\ UNCHANGED <<service, cancelled, lock, reader, probe, server, process>>

Worker ==
  Done("worker") /\ ~NoTick /\ (Subscribe \/ Ingest \/ StreamEnds \/ MessagesFails \/ DropLoop)

Process ==
  /\ \/ Worker
     \/ Done("read_task") /\ (ReaderCloses \/ ReaderFinishes)
     \/ Done("register_cancel") /\ CtrlC
     \/ Running /\ ~NoTick /\ LoopPanics
     \/ Running /\ (EndProcess \/ AskHealth \/ Serve)
  /\ UNCHANGED startVars

StartNext == StartStep \/ StartFails \/ EarlyCtrlC \/ WorkerPanics \/ Process

allVars == <<vars, startVars>>

StartSpec == StartInit /\ [][StartNext]_allVars

Fairly(A) == A /\ UNCHANGED startVars

\* As in ServiceProcess; the calls of the start return.
StartFairSpec ==
  /\ StartSpec
  /\ WF_allVars(StartStep) /\ WF_allVars(StartFails) /\ WF_allVars(WorkerPanics)
  /\ SF_allVars(Running /\ Fairly(CheckHealth))
  /\ WF_allVars(Running /\ Fairly(StopServer)) /\ WF_allVars(Running /\ Fairly(EndProcess))
  /\ WF_allVars(Done("worker") /\ ~NoTick /\ Fairly(DropLoop))
  /\ WF_allVars(Done("worker") /\ ~NoTick /\ Fairly(Ingest \/ StreamEnds))
  /\ WF_allVars(Done("read_task") /\ Fairly(ReaderFinishes))

-----------------------------------------------------------------------------
(* Properties                                                              *)

(* Nothing is relayed and no health check is answered by a service that    *)
(* was given a wrong configuration or could not reach what it needs.  The  *)
(* worker may have been at work when only the health check's section, or   *)
(* its port, turns out to be wrong.                                        *)
NoServiceOnBadConfig ==
  /\ loop \notin {"ticking", "exited"} =>
       down \in {"none", "port"} /\ \A f \in UsedFields \ {"health_check_port"} : ~Wrong(f)
  /\ probe # "none" => down = "none" /\ \A f \in UsedFields : ~Wrong(f)

(* A service with a field that is missing or invalid never stays up: it    *)
(* ends when the field is read, used, or, for a tick rate of zero, when    *)
(* its worker panics.                                                      *)
BadConfigEnds == ((\E f \in UsedFields : Wrong(f)) \/ NoTick) ~> process # "up"

(* README of amplifier-subscriber: "All settings can be configured using   *)
(* environment variables with the `RELAYER_` prefix".  Then no start fails *)
(* that is given every field in one way or the other.                      *)
EnvironmentConfigures ==
  process = "ended" /\ ~Running => down # "none" \/ \E f \in UsedFields : Wrong(f)
=============================================================================
