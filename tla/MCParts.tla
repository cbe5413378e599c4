------------------------------- MODULE MCParts -------------------------------
(* The parts beside the relays for TLC, in one run: `part` picks the one   *)
(* that takes steps, so that their states add up instead of multiplying.   *)
EXTENDS Retry, Stores, ThroughputTracker, Messages, ApiCalls,
        AmplifierComponent, Supervisor, ServiceStart

VARIABLE part

partsVars == <<retryVars, storesVars, trackerVars, messagesVars, callVars, componentVars,
               supervisorVars, allVars, part>>

\* The parts at rest start in one of their states only.
MCInit ==
  /\ RetryInit /\ StoresInit /\ TrackerInit /\ MessagesInit /\ CallsInit
  /\ ComponentInit /\ SupervisorInit /\ StartInit
  /\ part \in {"retry", "stores", "tracker", "messages", "calls", "component", "supervisor", "service"}
  /\ part = "retry" \/ kind = "pair"
  /\ part = "stores" \/ backend = "nats"
  /\ part = "service" \/ /\ service = "subscriber" /\ feature = "nats" /\ down = "none"
                         /\ config = [f \in Fields |-> "file"]

Idle(name, variables) == part # name /\ UNCHANGED variables

MCNext ==
  /\ UNCHANGED part
  /\ (part = "retry" /\ RetryNext) \/ Idle("retry", retryVars)
  /\ (part = "stores" /\ StoresNext) \/ Idle("stores", storesVars)
  /\ (part = "tracker" /\ TrackerNext) \/ Idle("tracker", trackerVars)
  /\ (part = "messages" /\ MessagesNext) \/ Idle("messages", messagesVars)
  /\ (part = "calls" /\ CallsNext) \/ Idle("calls", callVars)
  /\ (part = "component" /\ ComponentNext) \/ Idle("component", componentVars)
  /\ (part = "supervisor" /\ SupervisorNext) \/ Idle("supervisor", supervisorVars)
  /\ (part = "service" /\ StartNext) \/ Idle("service", allVars)

MCSpec == MCInit /\ [][MCNext]_partsVars

Only(name, A) == part = name /\ A
InService(A) == Only("service", Fairly(A))

\* The fairness of ComponentFairSpec, SupervisorFairSpec and StartFairSpec,
\* for the part that takes steps.
MCFairSpec ==
  /\ MCSpec
  /\ WF_componentVars(Only("component", Sender))
  /\ WF_componentVars(Only("component", check # "hung" /\ Health))
  /\ WF_componentVars(Only("component", Shutdown))
  /\ WF_supervisorVars(Only("supervisor", Supervise))
  /\ \A w \in Workers, g \in Threads :
       /\ WF_supervisorVars(Only("supervisor", Run(w, g)))
       /\ WF_supervisorVars(Only("supervisor", CancelLoop(w, g)))
  /\ WF_allVars(Only("service", StartStep))
  /\ WF_allVars(Only("service", StartFails))
  /\ WF_allVars(Only("service", WorkerPanics))
  /\ SF_allVars(Running /\ InService(CheckHealth))
  /\ WF_allVars(Running /\ InService(StopServer))
  /\ WF_allVars(Running /\ InService(EndProcess))
  /\ WF_allVars(Done("worker") /\ ~NoTick /\ InService(DropLoop))
  /\ WF_allVars(Done("worker") /\ ~NoTick /\ InService(Ingest \/ StreamEnds))
  /\ WF_allVars(Done("read_task") /\ InService(ReaderFinishes))
=============================================================================
