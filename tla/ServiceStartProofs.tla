------------------------- MODULE ServiceStartProofs -------------------------
(***************************************************************************)
(* For every limit on errors, both services, both queues and every way the *)
(* configuration was given: no service relays or answers a health check    *)
(* that was given a wrong configuration or could not reach what it needs.  *)
(***************************************************************************)
EXTENDS ServiceStart, SequenceTheorems, TLAPS

-----------------------------------------------------------------------------
(* The steps of the start                                                  *)

Names ==
  {"config", "telemetry", "register_cancel", "section", "redis", "topic", "subscription",
   "read_task", "api_client", "stream", "consumer", "worker", "health_config", "bind"}

External == {"redis", "queue", "kms", "port"}

StartSteps == [name : Names, fields : SUBSET Fields, services : SUBSET External]

\* A sequence of steps before the worker is spawned that between them read
\* the fields.
Reads(steps, fields) ==
  /\ steps \in Seq(StartSteps)
  /\ \A i \in 1..Len(steps) : steps[i].name # "worker"
  /\ \A f \in fields : \E i \in 1..Len(steps) : f \in steps[i].fields

IsStep(name, fields, services) ==
  name \in Names /\ fields \subseteq Fields /\ services \subseteq External

\* A step of the start is a sequence of one element.
LEMMA StepIsOne ==
  ASSUME NEW name, NEW fields, NEW services, IsStep(name, fields, services)
  PROVE  /\ Step(name, fields, services) \in Seq(StartSteps)
         /\ Len(Step(name, fields, services)) = 1
         /\ Step(name, fields, services)[1].name = name
         /\ Step(name, fields, services)[1].fields = fields
         /\ Step(name, fields, services)[1].services = services
BY DEF Step, StartSteps, IsStep

\* One step reads the fields it names.
LEMMA StepReads ==
  ASSUME NEW name, NEW fields, NEW services, IsStep(name, fields, services), name # "worker"
  PROVE  Reads(Step(name, fields, services), fields)
<1> DEFINE s == Step(name, fields, services)
<1>1. s \in Seq(StartSteps) /\ Len(s) = 1 /\ s[1].name = name /\ s[1].fields = fields
  BY StepIsOne
<1> HIDE DEF s
<1>2. Reads(s, fields)
  BY <1>1 DEF Reads
<1>. QED BY <1>2 DEF s

\* The elements of two sequences of steps put one after the other.
LEMMA Joined ==
  ASSUME NEW s1 \in Seq(StartSteps), NEW s2 \in Seq(StartSteps)
  PROVE  /\ s1 \o s2 \in Seq(StartSteps)
         /\ Len(s1 \o s2) = Len(s1) + Len(s2)
         /\ \A i \in 1..(Len(s1) + Len(s2)) :
              (s1 \o s2)[i] = IF i <= Len(s1) THEN s1[i] ELSE s2[i - Len(s1)]
BY ConcatProperties

\* Two parts of the start read the fields of both.
LEMMA BothRead ==
  ASSUME NEW s1, NEW s2, NEW fields1, NEW fields2, Reads(s1, fields1), Reads(s2, fields2)
  PROVE  Reads(s1 \o s2, fields1 \cup fields2)
<1>1. /\ s1 \o s2 \in Seq(StartSteps)
      /\ Len(s1 \o s2) = Len(s1) + Len(s2)
      /\ \A i \in 1..(Len(s1) + Len(s2)) :
           (s1 \o s2)[i] = IF i <= Len(s1) THEN s1[i] ELSE s2[i - Len(s1)]
  BY Joined DEF Reads
<1>2. Len(s1) \in Nat /\ Len(s2) \in Nat
  BY DEF Reads
<1>3. ASSUME NEW i \in 1..Len(s1 \o s2) PROVE (s1 \o s2)[i].name # "worker"
  <2>1. CASE i <= Len(s1)
    BY <1>1, <1>2, <2>1 DEF Reads
  <2>2. CASE ~(i <= Len(s1))
    <3>1. i - Len(s1) \in 1..Len(s2)
      BY <1>1, <1>2, <2>2
    <3>. QED BY <1>1, <2>2, <3>1 DEF Reads
  <2>. QED BY <2>1, <2>2
<1>4. ASSUME NEW f \in fields1 PROVE \E i \in 1..Len(s1 \o s2) : f \in (s1 \o s2)[i].fields
  <2>1. PICK i \in 1..Len(s1) : f \in s1[i].fields
    BY DEF Reads
  <2>2. i \in 1..(Len(s1) + Len(s2)) /\ i <= Len(s1)
    BY <1>2
  <2>. QED BY <1>1, <2>1, <2>2
<1>5. ASSUME NEW f \in fields2 PROVE \E i \in 1..Len(s1 \o s2) : f \in (s1 \o s2)[i].fields
  <2>1. PICK i \in 1..Len(s2) : f \in s2[i].fields
    BY DEF Reads
  <2>2. /\ Len(s1) + i \in 1..(Len(s1) + Len(s2)) /\ ~(Len(s1) + i <= Len(s1))
        /\ (Len(s1) + i) - Len(s1) = i
    BY <1>2
  <2>. QED BY <1>1, <2>1, <2>2
<1>. QED BY <1>1, <1>3, <1>4, <1>5 DEF Reads

Services == {"subscriber", "ingester"}
Backends == {"gcp", "nats"}

\* What main reads before it builds the service.
LEMMA MainReads == Reads(MainSteps, {"chain", "tickrate_secs", "max_errors", "telemetry"})
<1>1. Reads(ReadConfig, {"chain", "tickrate_secs", "max_errors"})
  <2>1. IsStep("config", {"chain", "tickrate_secs", "max_errors"}, {})
    BY DEF IsStep, Fields, Names, External
  <2>. QED BY <2>1, StepReads DEF ReadConfig
<1>2. Reads(InitTelemetry, {"telemetry"}) /\ Reads(RegisterCancel, {})
  <2>1. IsStep("telemetry", {"telemetry"}, {}) /\ IsStep("register_cancel", {}, {})
    BY DEF IsStep, Fields, Names, External
  <2>. QED BY <2>1, StepReads DEF InitTelemetry, RegisterCancel
<1>3. Reads(ReadConfig \o InitTelemetry, {"chain", "tickrate_secs", "max_errors"} \cup {"telemetry"})
  BY <1>1, <1>2, BothRead
<1>4. Reads(MainSteps, ({"chain", "tickrate_secs", "max_errors"} \cup {"telemetry"}) \cup {})
  BY <1>2, <1>3, BothRead DEF MainSteps
<1>. QED BY <1>4 DEF Reads

\* What each service reads for its queue.
LEMMA ServiceReads ==
  ASSUME service \in Services, feature \in Backends
  PROVE  Reads(ServiceSteps, {"credentials"} \cup
               IF feature = "gcp" THEN {"redis_connection", "queue"} ELSE {"nats_urls"})
<1>1. /\ Reads(ReadSection({"redis_connection", "queue"}), {"redis_connection", "queue"})
      /\ Reads(ReadSection({"nats_urls"}), {"nats_urls"})
  <2>1. IsStep("section", {"redis_connection", "queue"}, {}) /\ IsStep("section", {"nats_urls"}, {})
    BY DEF IsStep, Fields, Names, External
  <2>. QED BY <2>1, StepReads DEF ReadSection
<1>2. /\ Reads(ConnectRedis, {}) /\ Reads(GetTopic, {}) /\ Reads(GetSubscription, {})
      /\ Reads(StartReadTask, {}) /\ Reads(CreateStream, {}) /\ Reads(CreateConsumer, {})
  <2>1. /\ IsStep("redis", {}, {"redis"}) /\ IsStep("topic", {}, {"queue"})
        /\ IsStep("subscription", {}, {"queue"}) /\ IsStep("read_task", {}, {})
        /\ IsStep("stream", {}, {"queue"}) /\ IsStep("consumer", {}, {"queue"})
    BY DEF IsStep, Fields, Names, External
  <2>. QED
    BY <2>1, StepReads
    DEF ConnectRedis, GetTopic, GetSubscription, StartReadTask, CreateStream, CreateConsumer
<1>3. Reads(KmsClient, {"credentials"}) /\ Reads(IdentityClient, {"credentials"})
  <2>1. IsStep("api_client", {"credentials"}, {"kms"}) /\ IsStep("api_client", {"credentials"}, {})
    BY DEF IsStep, Fields, Names, External
  <2>. QED BY <2>1, StepReads DEF KmsClient, IdentityClient
<1>4. ASSUME NEW s1, NEW s2, NEW fields, Reads(s1, fields), Reads(s2, {})
      PROVE  Reads(s1 \o s2, fields)
  <2>1. Reads(s1 \o s2, fields \cup {})
    BY <1>4, BothRead
  <2>. QED BY <2>1 DEF Reads
<1>5. CASE feature = "gcp"
  <2> DEFINE section == ReadSection({"redis_connection", "queue"})
  <2>1. /\ Reads((section \o ConnectRedis) \o GetTopic, {"redis_connection", "queue"})
        /\ Reads(((section \o GetSubscription) \o ConnectRedis) \o StartReadTask,
                 {"redis_connection", "queue"})
    BY <1>1, <1>2, <1>4
  <2>2. /\ Reads(GcpSubscriberSteps, {"redis_connection", "queue"} \cup {"credentials"})
        /\ Reads(GcpIngesterSteps, {"redis_connection", "queue"} \cup {"credentials"})
    BY <1>3, <2>1, BothRead DEF GcpSubscriberSteps, GcpIngesterSteps
  <2>3. ServiceSteps \in {GcpSubscriberSteps, GcpIngesterSteps}
    BY <1>5 DEF ServiceSteps, Services
  <2>. QED BY <1>5, <2>2, <2>3 DEF Reads
<1>6. CASE feature = "nats"
  <2>1. Reads(ReadSection({"nats_urls"}) \o IdentityClient, {"nats_urls"} \cup {"credentials"})
    BY <1>1, <1>3, BothRead
  <2>2. /\ Reads(NatsSubscriberSteps, {"nats_urls"} \cup {"credentials"})
        /\ Reads(NatsIngesterSteps, {"nats_urls"} \cup {"credentials"})
    BY <1>2, <1>4, <2>1 DEF NatsSubscriberSteps, NatsIngesterSteps
  <2>3. ServiceSteps \in {NatsSubscriberSteps, NatsIngesterSteps}
    BY <1>6 DEF ServiceSteps, Services
  <2>. QED BY <1>6, <2>2, <2>3 DEF Reads
<1>. QED BY <1>5, <1>6 DEF Backends

\* The steps before the worker's, the worker's, and the two after it.
Before == MainSteps \o ServiceSteps

\* Every used field but the health check's is read before the worker runs.
LEMMA BeforeReads ==
  ASSUME service \in Services, feature \in Backends
  PROVE  Reads(Before, UsedFields \ {"health_check_port"})
<1>1. Reads(Before, {"chain", "tickrate_secs", "max_errors", "telemetry"} \cup
             ({"credentials"} \cup
               IF feature = "gcp" THEN {"redis_connection", "queue"} ELSE {"nats_urls"}))
  BY MainReads, ServiceReads, BothRead DEF Before
<1>2. UsedFields \ {"health_check_port"} \subseteq
        {"chain", "tickrate_secs", "max_errors", "telemetry"} \cup
             ({"credentials"} \cup
               IF feature = "gcp" THEN {"redis_connection", "queue"} ELSE {"nats_urls"})
  BY DEF UsedFields
<1>. QED BY <1>1, <1>2 DEF Reads

\* The worker is spawned, the health check's section read, the port bound.
LEMMA RunStepsAre ==
  /\ RunSteps \in Seq(StartSteps) /\ Len(RunSteps) = 3
  /\ RunSteps[1].name = "worker" /\ RunSteps[1].services = {}
  /\ RunSteps[2].fields = {"health_check_port"} /\ RunSteps[2].services = {}
  /\ RunSteps[3].services = {"port"}
<1>1. /\ IsStep("worker", {}, {}) /\ IsStep("health_config", {"health_check_port"}, {})
      /\ IsStep("bind", {}, {"port"})
  BY DEF IsStep, Fields, Names, External
<1>2. /\ StartWorker \in Seq(StartSteps) /\ Len(StartWorker) = 1
      /\ StartWorker[1].name = "worker" /\ StartWorker[1].services = {}
  BY <1>1, StepIsOne DEF StartWorker
<1>3. /\ ReadHealthConfig \in Seq(StartSteps) /\ Len(ReadHealthConfig) = 1
      /\ ReadHealthConfig[1].fields = {"health_check_port"} /\ ReadHealthConfig[1].services = {}
  BY <1>1, StepIsOne DEF ReadHealthConfig
<1>4. BindPort \in Seq(StartSteps) /\ Len(BindPort) = 1 /\ BindPort[1].services = {"port"}
  BY <1>1, StepIsOne DEF BindPort
<1> DEFINE two == StartWorker \o ReadHealthConfig
<1>5. /\ two \in Seq(StartSteps) /\ Len(two) = 2
      /\ two[1] = StartWorker[1] /\ two[2] = ReadHealthConfig[1]
  <2>1. /\ two \in Seq(StartSteps) /\ Len(two) = Len(StartWorker) + Len(ReadHealthConfig)
        /\ \A i \in 1..(Len(StartWorker) + Len(ReadHealthConfig)) :
             two[i] = IF i <= Len(StartWorker)
                      THEN StartWorker[i] ELSE ReadHealthConfig[i - Len(StartWorker)]
    <3>1. StartWorker \in Seq(StartSteps) /\ ReadHealthConfig \in Seq(StartSteps)
      BY <1>2, <1>3
    <3>. QED BY <3>1, Joined
  <2> HIDE DEF two
  <2>. QED BY <1>2, <1>3, <2>1
<1>6. RunSteps = two \o BindPort
  BY DEF RunSteps
<1> HIDE DEF two
<1>7. /\ RunSteps \in Seq(StartSteps) /\ Len(RunSteps) = 3
      /\ RunSteps[1] = two[1] /\ RunSteps[2] = two[2] /\ RunSteps[3] = BindPort[1]
  <2>1. /\ two \o BindPort \in Seq(StartSteps) /\ Len(two \o BindPort) = Len(two) + Len(BindPort)
        /\ \A i \in 1..(Len(two) + Len(BindPort)) :
             (two \o BindPort)[i] = IF i <= Len(two) THEN two[i] ELSE BindPort[i - Len(two)]
    <3>1. two \in Seq(StartSteps) /\ BindPort \in Seq(StartSteps)
      BY <1>4, <1>5
    <3>. QED BY <3>1, Joined
  <2>. QED BY <1>4, <1>5, <1>6, <2>1
<1>. QED BY <1>2, <1>3, <1>4, <1>5, <1>7

\* The whole start is what precedes the worker, and those three.
LEMMA StartIs ==
  ASSUME service \in Services, feature \in Backends
  PROVE  /\ Start \in Seq(StartSteps) /\ Len(Start) = Len(Before) + 3 /\ Len(Before) \in Nat
         /\ \A i \in 1..Len(Before) : Start[i] = Before[i]
         /\ Start[Len(Before) + 1] = RunSteps[1]
         /\ Start[Len(Before) + 2] = RunSteps[2]
         /\ Start[Len(Before) + 3] = RunSteps[3]
<1>1. Before \in Seq(StartSteps) /\ Len(Before) \in Nat
  BY BeforeReads DEF Reads
<1>2. RunSteps \in Seq(StartSteps) /\ Len(RunSteps) = 3
  BY RunStepsAre
<1>3. Start = Before \o RunSteps
  BY DEF Start, Before
<1>4. /\ Start \in Seq(StartSteps) /\ Len(Start) = Len(Before) + 3
      /\ \A i \in 1..(Len(Before) + 3) :
           Start[i] = IF i <= Len(Before) THEN Before[i] ELSE RunSteps[i - Len(Before)]
  <2>1. /\ Before \o RunSteps \in Seq(StartSteps)
        /\ Len(Before \o RunSteps) = Len(Before) + Len(RunSteps)
        /\ \A i \in 1..(Len(Before) + Len(RunSteps)) :
             (Before \o RunSteps)[i] =
                IF i <= Len(Before) THEN Before[i] ELSE RunSteps[i - Len(Before)]
    <3>1. Before \in Seq(StartSteps) /\ RunSteps \in Seq(StartSteps)
      BY <1>1, <1>2
    <3>. QED BY <3>1, Joined
  <2>. QED BY <1>2, <1>3, <2>1
<1>. QED BY <1>1, <1>4

\* Where a step is once it is done.
LEMMA WorkerIsAfter ==
  ASSUME service \in Services, feature \in Backends, step \in 0..Len(Start), Done("worker")
  PROVE  Len(Before) + 1 <= step
<1>1. PICK i \in 1..step : Start[i].name = "worker"
  BY DEF Done
<1>2. step \in Nat /\ Len(Before) \in Nat
  BY StartIs
<1>3. ~(i <= Len(Before))
  BY <1>1, <1>2, BeforeReads, StartIs DEF Reads
<1>. QED BY <1>2, <1>3

-----------------------------------------------------------------------------
(* The invariant                                                           *)

StartType ==
  /\ feature \in Backends
  /\ config \in [Fields -> Given]
  /\ down \in {"none"} \cup External
  /\ step \in 0..Len(Start)

DownInv == down # "none" => \E i \in 1..Len(Start) : down \in Start[i].services

\* A step is done only if nothing of what it needs is wrong.
PassedInv == \A i \in 1..step : ~StepFails(Start[i])

\* Nobody works before the worker is spawned, or asks before the port is bound.
WorkInv == loop \notin {"ticking", "exited"} => Done("worker")

ProbeInv == probe # "none" => Running

\* The error counter stays within the limit while the loop runs.
ErrorsInv == loop # "exited" => errors <= MaxErrors

\* The mutex belongs to whoever is at a call of the publisher.
LockInv ==
  /\ lock = "loop" <=> loop \in {"peeking", "publishing"}
  /\ lock = "probe" <=> probe = "checking" /\ ~HasReader
  /\ loop \in {"peeking", "requesting", "publishing"} => ~HasReader

ProcessInv == TypeOK /\ ErrorsInv /\ LockInv

StartInv == ProcessInv /\ StartType /\ DownInv /\ PassedInv /\ WorkInv /\ ProbeInv

-----------------------------------------------------------------------------
(* The process                                                             *)

\* What an action of ServiceProcess keeps, whoever else is there.
LEMMA RoundErrKept ==
  ASSUME TypeOK, ErrorsInv, loop # "exited", RoundErr
  PROVE  /\ errors' \in 0..(MaxErrors + 1) /\ loop' \in {"ticking", "exited"}
         /\ loop' # "exited" => errors' <= MaxErrors
BY ServiceAssumption DEF TypeOK, ErrorsInv, RoundErr

\* Faults stay within their bound.
LEMMA FaultKept == ASSUME TypeOK, Fault PROVE faults' \in 0..MaxFaults
BY ServiceAssumption DEF TypeOK, Fault

\* A round of the subscriber's loop keeps the mutex with one owner.
LEMMA SubscribeKept == ASSUME ProcessInv, Subscribe PROVE ProcessInv'
<1> USE DEF ProcessInv
<1>0. MaxErrors \in Nat
  BY ServiceAssumption
<1>1. CASE Peek
  BY <1>1 DEF Peek, TypeOK, Stages, ErrorsInv, LockInv, HasReader
<1>2. CASE Request
  BY <1>2 DEF Request, Release, TypeOK, Stages, ErrorsInv, LockInv, HasReader
<1>3. CASE PublishTasks
  BY <1>3 DEF PublishTasks, TypeOK, Stages, ErrorsInv, LockInv, HasReader
<1>4. CASE NoTasks
  BY <1>0, <1>4 DEF NoTasks, RoundOk, TypeOK, Stages, ErrorsInv, LockInv, HasReader
<1>5. CASE Published
  BY <1>0, <1>5 DEF Published, RoundOk, Release, TypeOK, Stages, ErrorsInv, LockInv, HasReader
<1>6. CASE SubscribeFails
  <2>1. /\ errors' \in 0..(MaxErrors + 1) /\ loop' \in {"ticking", "exited"}
        /\ loop' # "exited" => errors' <= MaxErrors
    BY <1>6, RoundErrKept DEF SubscribeFails
  <2>2. faults' \in 0..MaxFaults
    BY <1>6, FaultKept DEF SubscribeFails
  <2>. QED
    BY <1>6, <2>1, <2>2 DEF SubscribeFails, Release, TypeOK, Stages, ErrorsInv, LockInv, HasReader
<1>. QED BY <1>1, <1>2, <1>3, <1>4, <1>5, <1>6 DEF Subscribe

\* The ingester's rounds and its read task leave the mutex alone.
LEMMA ReadKept ==
  ASSUME ProcessInv, Ingest \/ StreamEnds \/ ReaderFinishes \/ ReaderCloses \/ MessagesFails
  PROVE  ProcessInv'
<1> USE DEF ProcessInv
<1>0. MaxErrors \in Nat
  BY ServiceAssumption
<1>1. CASE Ingest
  <2>1. CASE reader = "finished"
    <3>1. /\ errors' \in 0..(MaxErrors + 1) /\ loop' \in {"ticking", "exited"}
          /\ loop' # "exited" => errors' <= MaxErrors
      BY <1>1, <2>1, RoundErrKept DEF Ingest
    <3>. QED BY <1>1, <3>1 DEF Ingest, TypeOK, Stages, ErrorsInv, LockInv, HasReader
  <2>2. CASE reader # "finished"
    BY <1>1, <2>2 DEF Ingest, TypeOK, Stages, ErrorsInv, LockInv, HasReader
  <2>. QED BY <2>1, <2>2
<1>2. CASE StreamEnds
  BY <1>0, <1>2 DEF StreamEnds, RoundOk, TypeOK, Stages, ErrorsInv, LockInv, HasReader
<1>3. CASE ReaderFinishes
  BY <1>3 DEF ReaderFinishes, TypeOK, ErrorsInv, LockInv, HasReader
<1>4. CASE ReaderCloses
  BY <1>4 DEF ReaderCloses, TypeOK, ErrorsInv, LockInv, HasReader
<1>5. CASE MessagesFails
  <2>1. /\ errors' \in 0..(MaxErrors + 1) /\ loop' \in {"ticking", "exited"}
        /\ loop' # "exited" => errors' <= MaxErrors
    BY <1>5, RoundErrKept DEF MessagesFails
  <2>2. faults' \in 0..MaxFaults
    BY <1>5, FaultKept DEF MessagesFails
  <2>. QED
    BY <1>5, <2>1, <2>2 DEF MessagesFails, TypeOK, Stages, ErrorsInv, LockInv, HasReader
<1>. QED BY <1>1, <1>2, <1>3, <1>4, <1>5

\* Cancellation, a dropped or panicked loop and the end of the process keep it.
LEMMA EndKept ==
  ASSUME ProcessInv, CtrlC \/ DropLoop \/ LoopPanics \/ EndProcess PROVE ProcessInv'
<1> USE DEF ProcessInv
<1>1. CASE CtrlC
  BY <1>1 DEF CtrlC, TypeOK, ErrorsInv, LockInv, HasReader
<1>2. CASE DropLoop
  BY <1>2 DEF DropLoop, Release, TypeOK, Stages, ErrorsInv, LockInv, HasReader
<1>3. CASE LoopPanics
  <2>1. faults' \in 0..MaxFaults
    BY <1>3, FaultKept DEF LoopPanics
  <2>. QED BY <1>3, <2>1 DEF LoopPanics, Release, TypeOK, Stages, ErrorsInv, LockInv, HasReader
<1>4. CASE EndProcess
  BY <1>4 DEF EndProcess, TypeOK, ErrorsInv, LockInv, HasReader
<1>. QED BY <1>1, <1>2, <1>3, <1>4

\* A request to the health server and its answer keep it.
LEMMA HealthKept == ASSUME ProcessInv, AskHealth \/ Serve PROVE ProcessInv'
<1> USE DEF ProcessInv
<1>1. CASE AskHealth
  BY <1>1 DEF AskHealth, TypeOK, ErrorsInv, LockInv, HasReader
<1>2. CASE CheckHealth
  BY <1>2 DEF CheckHealth, TypeOK, ErrorsInv, LockInv, HasReader
<1>3. CASE RequestHealth
  BY <1>3 DEF RequestHealth, ReleaseProbe, TypeOK, ErrorsInv, LockInv, HasReader
<1>4. CASE AnswerProbe
  BY <1>4 DEF AnswerProbe, ReleaseProbe, TypeOK, ErrorsInv, LockInv, HasReader
<1>5. CASE CloseProbe
  BY <1>5 DEF CloseProbe, ReleaseProbe, TypeOK, ErrorsInv, LockInv, HasReader
<1>6. CASE StopServer
  BY <1>6 DEF StopServer, TypeOK, ErrorsInv, LockInv, HasReader
<1>. QED BY <1>1, <1>2, <1>3, <1>4, <1>5, <1>6 DEF Serve

-----------------------------------------------------------------------------
(* The start                                                               *)

\* The steps and what they need are fixed when the process starts.
LEMMA StartIsFixed ==
  ASSUME UNCHANGED <<service, feature, config, down>>
  PROVE  /\ Start' = Start
         /\ \A i : StepFails(Start[i])' <=> StepFails(Start[i])
<1>1. Start' = Start
  BY DEF Start, MainSteps, ReadConfig, InitTelemetry, RegisterCancel, Step,
         ServiceSteps, NatsSubscriberSteps, NatsIngesterSteps, GcpSubscriberSteps, GcpIngesterSteps,
         ReadSection, ConnectRedis, GetTopic, GetSubscription, StartReadTask, KmsClient,
         IdentityClient, CreateStream, CreateConsumer, RunSteps, StartWorker, ReadHealthConfig, BindPort
<1>2. ASSUME NEW i PROVE StepFails(Start[i])' <=> StepFails(Start[i])
  BY <1>1 DEF StepFails, Refused, Wrong, Invalid, Missing, Unseen, NotByEnv
<1>. QED BY <1>1, <1>2

\* What the start has done stays done.
LEMMA DoneStays ==
  ASSUME StartType, UNCHANGED <<service, feature, config, down>>, step' \in {step, step + 1},
         NEW name, Done(name)
  PROVE  Done(name)'
<1>1. PICK i \in 1..step : Start[i].name = name
  BY DEF Done
<1>2. step \in Int
  BY DEF StartType
<1>3. i \in 1..step' /\ Start'[i].name = name
  BY <1>1, <1>2, StartIsFixed
<1>. QED BY <1>3 DEF Done

\* A step that leaves the start where it is and keeps the process.
LEMMA FrameKept ==
  ASSUME StartInv, UNCHANGED <<service, startVars>>, ProcessInv',
         loop' \notin {"ticking", "exited"} => Done("worker"),
         probe' # "none" => Running
  PROVE  StartInv'
<1>1. UNCHANGED <<service, feature, config, down, step>>
  BY DEF startVars
<1>2. Start' = Start /\ \A i : StepFails(Start[i])' <=> StepFails(Start[i])
  BY <1>1, StartIsFixed
<1>3. StartType' /\ DownInv' /\ PassedInv'
  BY <1>1, <1>2 DEF StartInv, StartType, DownInv, PassedInv
<1>4. WorkInv'
  BY <1>1, DoneStays DEF StartInv, WorkInv
<1>5. ProbeInv'
  BY <1>1, <1>2 DEF ProbeInv, Running
<1>. QED BY <1>3, <1>4, <1>5 DEF StartInv

\* A process that was just started satisfies the invariant.
LEMMA StartInitInv == StartInit => StartInv
<1> SUFFICES ASSUME StartInit PROVE StartInv
  OBVIOUS
<1>1. service \in Services /\ feature \in Backends
  BY DEF StartInit, Init, Services, Backends
<1>2. Start \in Seq(StartSteps) /\ Len(Start) \in Nat /\ DOMAIN Start = 1..Len(Start)
  <2>1. Start \in Seq(StartSteps)
    BY <1>1, StartIs
  <2>. QED BY <2>1
<1>3. ProcessInv
  <2>1. Init /\ MaxErrors \in Nat /\ MaxFaults \in Nat
    BY ServiceAssumption DEF StartInit
  <2>2. TypeOK
    <3>1. 0 \in 0..(MaxErrors + 1) /\ 0 \in 0..MaxFaults
      BY <2>1
    <3>2. errors = 0 /\ faults = 0 /\ cancelled \in BOOLEAN
      BY <2>1 DEF Init
    <3>3. errors \in 0..(MaxErrors + 1) /\ faults \in 0..MaxFaults
      BY <3>1, <3>2
    <3>. QED BY <2>1, <3>2, <3>3 DEF Init, TypeOK, Stages
  <2>3. ErrorsInv /\ LockInv
    BY <2>1 DEF Init, ErrorsInv, LockInv
  <2>. QED BY <2>2, <2>3 DEF ProcessInv
<1>4. DownInv
  BY <1>2 DEF StartInit, DownInv
<1>5. StartType
  <2>1. config \in [Fields -> Given]
    BY DEF StartInit, Given
  <2>2. down \in {"none"} \cup External
    <3>1. CASE down # "none"
      <4>1. PICK i \in 1..Len(Start) : down \in Start[i].services
        BY <1>4, <3>1 DEF DownInv
      <4>2. Start[i] \in StartSteps
        BY <1>2
      <4>. QED BY <4>1, <4>2 DEF StartSteps
    <3>. QED BY <3>1
  <2>. QED BY <1>1, <1>2, <2>1, <2>2 DEF StartInit, StartType
<1>6. PassedInv /\ WorkInv /\ ProbeInv
  BY DEF StartInit, Init, PassedInv, WorkInv, ProbeInv
<1>. QED BY <1>3, <1>4, <1>5, <1>6 DEF StartInv

\* The steps of the start and those of the running parts keep it.
LEMMA StartNextInv == StartInv /\ [StartNext]_allVars => StartInv'
<1> SUFFICES ASSUME StartInv, [StartNext]_allVars PROVE StartInv'
  OBVIOUS
<1>0. ProcessInv /\ service \in Services /\ feature \in Backends /\ step \in 0..Len(Start)
  BY DEF StartInv, ProcessInv, TypeOK, StartType, Services
<1>1. CASE StartStep
  <2>1. /\ UNCHANGED <<service, feature, config, down, vars>> /\ step' = step + 1
        /\ step # Len(Start) /\ ~StepFails(Start[step + 1])
    BY <1>1 DEF StartStep, Running, vars
  <2>2. Start' = Start /\ \A i : StepFails(Start[i])' <=> StepFails(Start[i])
    BY <2>1, StartIsFixed
  <2>3. Len(Start) \in Nat
    BY <1>0, StartIs
  <2>4. ProcessInv'
    BY <2>1 DEF StartInv, ProcessInv, TypeOK, ErrorsInv, LockInv, HasReader, vars
  <2>5. step' \in 0..Len(Start) /\ \A i \in 1..step' : i \in 1..step \/ i = step + 1
    BY <1>0, <2>1, <2>3
  <2>6. StartType' /\ DownInv'
    BY <2>1, <2>2, <2>5 DEF StartInv, StartType, DownInv
  <2>7. PassedInv'
    BY <2>1, <2>2, <2>5 DEF StartInv, PassedInv
  <2>8. WorkInv'
    BY <2>1, DoneStays DEF StartInv, WorkInv, vars
  <2>9. ProbeInv'
    BY <2>1 DEF StartInv, ProbeInv, Running, vars
  <2>. QED BY <2>4, <2>6, <2>7, <2>8, <2>9 DEF StartInv
<1>2. CASE StartFails \/ EarlyCtrlC \/ WorkerPanics
  <2>1. /\ process' \in {"ended", "killed"}
        /\ UNCHANGED <<startVars, service, cancelled, loop, errors, lock, reader, probe, server, faults>>
    BY <1>2 DEF StartFails, EarlyCtrlC, WorkerPanics
  <2>2. ProcessInv'
    BY <2>1 DEF StartInv, ProcessInv, TypeOK, ErrorsInv, LockInv, HasReader
  <2>. QED BY <2>1, <2>2, FrameKept DEF StartInv, WorkInv, ProbeInv
<1>3. CASE Process
  <2>1. UNCHANGED startVars
    BY <1>3 DEF Process
  <2>2. CASE Worker
    <3>1. ProcessInv'
      BY <1>0, <2>2, SubscribeKept, ReadKept, EndKept DEF Worker
    <3>2. UNCHANGED <<service, probe>> /\ Done("worker")
      BY <2>2
      DEF Worker, Subscribe, Peek, Request, PublishTasks, NoTasks, Published, SubscribeFails,
          Ingest, StreamEnds, MessagesFails, DropLoop
    <3>. QED BY <2>1, <3>1, <3>2, FrameKept DEF StartInv, ProbeInv
  <2>3. CASE ReaderCloses \/ ReaderFinishes
    <3>1. UNCHANGED <<service, loop, probe>>
      BY <2>3 DEF ReaderCloses, ReaderFinishes
    <3>2. ProcessInv'
      BY <1>0, <2>3, ReadKept
    <3>. QED BY <2>1, <3>1, <3>2, FrameKept DEF StartInv, WorkInv, ProbeInv
  <2>4. CASE CtrlC
    <3>1. UNCHANGED <<service, loop, probe>>
      BY <2>4 DEF CtrlC
    <3>2. ProcessInv'
      BY <1>0, <2>4, EndKept
    <3>. QED BY <2>1, <3>1, <3>2, FrameKept DEF StartInv, WorkInv, ProbeInv
  <2>5. CASE LoopPanics \/ EndProcess
    <3>1. UNCHANGED <<service, probe>> /\ loop' = "exited"
      BY <2>5 DEF LoopPanics, EndProcess
    <3>2. ProcessInv'
      BY <1>0, <2>5, EndKept
    <3>. QED BY <2>1, <3>1, <3>2, FrameKept DEF StartInv, ProbeInv
  <2>6. CASE Running /\ (AskHealth \/ Serve)
    <3>1. UNCHANGED <<service, loop>>
      BY <2>6 DEF AskHealth, Serve, CheckHealth, RequestHealth, AnswerProbe, CloseProbe, StopServer
    <3>2. ProcessInv'
      BY <1>0, <2>6, HealthKept
    <3>. QED BY <2>1, <2>6, <3>1, <3>2, FrameKept DEF StartInv, WorkInv
  <2>. QED BY <1>3, <2>2, <2>3, <2>4, <2>5, <2>6 DEF Process
<1>4. CASE UNCHANGED allVars
  <2>1. UNCHANGED <<service, startVars, loop, probe>>
    BY <1>4 DEF allVars, vars
  <2>2. ProcessInv'
    BY <1>4 DEF allVars, vars, StartInv, ProcessInv, TypeOK, ErrorsInv, LockInv, HasReader
  <2>. QED BY <2>1, <2>2, FrameKept DEF StartInv, WorkInv, ProbeInv
<1>. QED BY <1>1, <1>2, <1>3, <1>4 DEF StartNext

\* So it holds from main to the end of the process.
LEMMA StartAlways == StartSpec => []StartInv
BY StartInitInv, StartNextInv, PTL DEF StartSpec

-----------------------------------------------------------------------------
(* Theorems                                                                *)

(* Every variable keeps its type; the error counter of the work loop stays *)
(* within its limit plus the one that ends it (run_subscriber and          *)
(* run_ingester), and the start takes no more steps than it has.           *)
THEOREM TypeCorrect == StartSpec => [](TypeOK /\ StartType)
<1>1. StartInv => TypeOK /\ StartType
  BY DEF StartInv, ProcessInv
<1>. QED BY <1>1, StartAlways, PTL

(* The mutex of the publisher is held exactly by the one that is at a call *)
(* of it: the work loop between lock and unlock, or the health check; a    *)
(* loop that is dropped, panics or fails leaves it free                    *)
(* (amplifier-subscriber/src/main.rs).                                     *)
THEOREM MutexFits == StartSpec => []LockInv
<1>1. StartInv => LockInv
  BY DEF StartInv, ProcessInv
<1>. QED BY <1>1, StartAlways, PTL

(* Nothing is relayed and no health check answered by a service with a     *)
(* wrong configuration or without what it needs: every step of the start   *)
(* before the worker's spawn, or before the port, has then passed.         *)
THEOREM NoBadService == StartSpec => []NoServiceOnBadConfig
<1>1. StartInv => NoServiceOnBadConfig
  <2> SUFFICES ASSUME StartInv PROVE NoServiceOnBadConfig
    OBVIOUS
  <2> DEFINE w == Len(Before)
  <2>0. service \in Services /\ feature \in Backends /\ step \in 0..Len(Start)
    BY DEF StartInv, ProcessInv, TypeOK, StartType, Services
  <2>1. /\ Start \in Seq(StartSteps) /\ Len(Start) = w + 3 /\ w \in Nat
        /\ \A i \in 1..w : Start[i] = Before[i]
        /\ Start[w + 1].services = {}
        /\ Start[w + 2].fields = {"health_check_port"} /\ Start[w + 2].services = {}
        /\ Start[w + 3].services = {"port"}
    BY <2>0, StartIs, RunStepsAre
  <2>2. \A f \in UsedFields \ {"health_check_port"} : \E i \in 1..w : f \in Start[i].fields
    BY <2>0, <2>1, BeforeReads DEF Reads
  <2> HIDE DEF w
  <2>3. ASSUME w + 1 <= step
        PROVE  down \in {"none", "port"} /\ \A f \in UsedFields \ {"health_check_port"} : ~Wrong(f)
    <3>1. \A i \in 1..w : ~StepFails(Start[i])
      BY <2>0, <2>1, <2>3 DEF StartInv, PassedInv
    <3>2. \A f \in UsedFields \ {"health_check_port"} : ~Wrong(f)
      BY <2>2, <3>1 DEF StepFails, Refused
    <3>3. CASE down # "none"
      <4>1. PICK i \in 1..Len(Start) : down \in Start[i].services
        BY <3>3 DEF StartInv, DownInv
      <4>2. i \notin 1..w
        BY <3>1, <4>1 DEF StepFails
      <4>3. i = w + 1 \/ i = w + 2 \/ i = w + 3
        BY <2>1, <4>2
      <4>. QED BY <2>1, <3>2, <4>1, <4>3
    <3>. QED BY <3>2, <3>3
  <2>4. loop \notin {"ticking", "exited"} => w + 1 <= step
    BY <2>0, WorkerIsAfter DEF w, StartInv, WorkInv
  <2>5. ASSUME probe # "none" PROVE down = "none" /\ \A f \in UsedFields : ~Wrong(f)
    <3>1. step = w + 3
      BY <2>1, <2>5 DEF StartInv, ProbeInv, Running
    <3>2. ~StepFails(Start[w + 2]) /\ ~StepFails(Start[w + 3])
      BY <2>1, <3>1 DEF StartInv, PassedInv
    <3>3. ~Wrong("health_check_port") /\ down # "port"
      BY <2>1, <3>2 DEF StepFails, Refused
    <3>4. w + 1 <= step
      BY <2>1, <3>1
    <3>. QED BY <2>3, <3>3, <3>4
  <2>. QED BY <2>3, <2>4, <2>5 DEF NoServiceOnBadConfig
<1>. QED BY <1>1, StartAlways, PTL
=============================================================================
