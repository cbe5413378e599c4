--------------------------- MODULE ServiceProcess ---------------------------
(***************************************************************************)
(* The process around a service: run_subscriber and run_ingester           *)
(* (amplifier-subscriber/src/main.rs, amplifier-ingester/src/main.rs), the *)
(* health check server (bin-util/src/health_check.rs) and the Ctrl-C       *)
(* handler (bin-util/src/lib.rs).                                          *)
(*                                                                         *)
(* The subscriber guards its publisher by a mutex that the work loop and   *)
(* the health check both hold across their calls to the queue.  No call of *)
(* either has a timeout.  The ingester on Google Pub/Sub has no mutex, but *)
(* a read task that can exit (gcp/consumer.rs).                            *)
(***************************************************************************)
EXTENDS Naturals

CONSTANTS
  MaxErrors,            \* `max_errors`
  MaxFaults             \* bound: calls of the subscriber that fail

ASSUME ServiceAssumption ==
  /\ MaxErrors \in Nat
  /\ MaxFaults \in Nat

VARIABLES
  service,              \* which of the two runs in this process
  cancelled,            \* the cancellation token
  loop,                 \* where the work loop is
  errors,               \* `error_count`
  lock,                 \* who holds `task_queue_publisher`
  reader,               \* the read task of the consumer
  probe,                \* a request to the health check server
  server,               \* the health check server
  process,              \* the process
  faults                \* calls that failed so far

vars == <<service, cancelled, loop, errors, lock, reader, probe, server, process, faults>>

Stages == {"ticking", "peeking", "requesting", "publishing", "ingesting", "exited"}

\* Only the ingester on Google Pub/Sub has a read task.
HasReader == service = "ingester"

TypeOK ==
  /\ service \in {"subscriber", "ingester"}
  /\ cancelled \in BOOLEAN
  /\ loop \in Stages
  /\ errors \in 0..(MaxErrors + 1)
  /\ lock \in {"free", "loop", "probe"}
  /\ reader \in {"reading", "closed", "finished"}
  /\ probe \in {"none", "asked", "checking", "requesting"}
  /\ server \in {"serving", "stopped"}
  /\ process \in {"up", "ended", "killed"}
  /\ faults \in 0..MaxFaults

Init ==
  /\ service \in {"subscriber", "ingester"}
  /\ cancelled = FALSE /\ loop = "ticking" /\ errors = 0 /\ lock = "free"
  /\ reader = "reading" /\ probe = "none" /\ server = "serving"
  /\ process = "up" /\ faults = 0

-----------------------------------------------------------------------------
(* Helpers                                                                 *)

Fault == faults < MaxFaults /\ faults' = faults + 1

Release == lock' = IF lock = "loop" THEN "free" ELSE lock
ReleaseProbe == lock' = IF lock = "probe" THEN "free" ELSE lock

\* A round of the loop returns Ok, or Err: the loop gives up at the limit.
RoundOk == loop' = "ticking" /\ errors' = 0

RoundErr ==
  /\ errors' = errors + 1
  /\ loop' = IF errors' >= MaxErrors THEN "exited" ELSE "ticking"

-----------------------------------------------------------------------------
(* The work loop of the subscriber                                         *)

Peek ==
  /\ process = "up"
  /\ ~HasReader
  /\ loop = "ticking" /\ lock = "free"
  /\ loop' = "peeking" /\ lock' = "loop"
  /\ UNCHANGED <<service, cancelled, errors, reader, probe, server, process, faults>>

Request ==
  /\ process = "up"
  /\ loop = "peeking"
  /\ loop' = "requesting" /\ Release
  /\ UNCHANGED <<service, cancelled, errors, reader, probe, server, process, faults>>

\* The response holds tasks to publish, or none.
PublishTasks ==
  /\ process = "up"
  /\ loop = "requesting" /\ lock = "free"
  /\ loop' = "publishing" /\ lock' = "loop"
  /\ UNCHANGED <<service, cancelled, errors, reader, probe, server, process, faults>>

NoTasks ==
  /\ process = "up"
  /\ loop = "requesting"
  /\ RoundOk
  /\ UNCHANGED <<service, cancelled, lock, reader, probe, server, process, faults>>

Published ==
  /\ process = "up"
  /\ loop = "publishing"
  /\ RoundOk /\ Release
  /\ UNCHANGED <<service, cancelled, reader, probe, server, process, faults>>

SubscribeFails ==
  /\ process = "up"
  /\ loop \in {"peeking", "requesting", "publishing"}
  /\ RoundErr /\ Release /\ Fault
  /\ UNCHANGED <<service, cancelled, reader, probe, server, process>>

-----------------------------------------------------------------------------
(* The work loop of the ingester                                           *)

\* messages() fails once the read task has finished.
MutIngestAnyway ==
  /\ process = "up"
  /\ HasReader
  /\ loop = "ticking"
  /\ loop' = "ingesting"
  /\ UNCHANGED <<service, cancelled, errors, lock, reader, probe, server, process, faults>>

Ingest ==
  /\ process = "up"
  /\ HasReader
  /\ loop = "ticking"
  /\ IF reader = "finished" THEN RoundErr ELSE loop' = "ingesting" /\ UNCHANGED errors
  /\ UNCHANGED <<service, cancelled, lock, reader, probe, server, process, faults>>

\* The stream ends when the read task drops its sender; ingest returns Ok.
StreamEnds ==
  /\ process = "up"
  /\ loop = "ingesting"
  /\ reader # "reading"
  /\ RoundOk
  /\ UNCHANGED <<service, cancelled, lock, reader, probe, server, process, faults>>

\* The read task fails, or its child token is cancelled.
ReaderCloses ==
  /\ process = "up"
  /\ HasReader
  /\ reader = "reading"
  /\ reader' = "closed"
  /\ UNCHANGED <<service, cancelled, loop, errors, lock, probe, server, process, faults>>

ReaderFinishes ==
  /\ process = "up"
  /\ reader = "closed"
  /\ reader' = "finished"
  /\ UNCHANGED <<service, cancelled, loop, errors, lock, probe, server, process, faults>>

-----------------------------------------------------------------------------
(* Cancellation                                                            *)

\* The first Ctrl-C cancels the token, the second one ends the process.
CtrlC ==
  /\ process = "up"
  /\ cancelled' = TRUE
  /\ process' = IF cancelled THEN "killed" ELSE process
  /\ UNCHANGED <<service, loop, errors, lock, reader, probe, server, faults>>

\* run_until_cancelled drops the loop, and with it the guard of the mutex.
MutDropBetween ==
  /\ process = "up"
  /\ cancelled
  /\ loop = "ticking"
  /\ loop' = "exited" /\ Release
  /\ UNCHANGED <<service, cancelled, errors, reader, probe, server, process, faults>>

DropLoop ==
  /\ process = "up"
  /\ cancelled
  /\ loop # "exited"
  /\ loop' = "exited" /\ Release
  /\ UNCHANGED <<service, cancelled, errors, reader, probe, server, process, faults>>

\* A panic of the loop ends the process: try_join! fails at once.
LoopPanics ==
  /\ process = "up"
  /\ loop \notin {"ticking", "exited"}
  /\ loop' = "exited" /\ Release /\ Fault
  /\ process' = "ended"
  /\ UNCHANGED <<service, cancelled, errors, reader, probe, server>>

\* try_join! waits for the loop and for the server.
EndProcess ==
  /\ process = "up"
  /\ loop = "exited" /\ server = "stopped"
  /\ process' = "ended"
  /\ UNCHANGED <<service, cancelled, loop, errors, lock, reader, probe, server, faults>>

-----------------------------------------------------------------------------
(* The health check server                                                 *)

AskHealth ==
  /\ process = "up"
  /\ server = "serving" /\ ~cancelled
  /\ probe = "none"
  /\ probe' = "asked"
  /\ UNCHANGED <<service, cancelled, loop, errors, lock, reader, server, process, faults>>

CheckHealth ==
  /\ process = "up"
  /\ probe = "asked"
  /\ ~HasReader => lock = "free"
  /\ probe' = "checking"
  /\ lock' = IF HasReader THEN lock ELSE "probe"
  /\ UNCHANGED <<service, cancelled, loop, errors, reader, server, process, faults>>

\* The queue is healthy: the mutex is free again, the API is asked next.
RequestHealth ==
  /\ process = "up"
  /\ probe = "checking"
  /\ probe' = "requesting"
  /\ ReleaseProbe
  /\ UNCHANGED <<service, cancelled, loop, errors, reader, server, process, faults>>

\* An error of the queue is answered at once, anything else by the API.
AnswerProbe ==
  /\ process = "up"
  /\ probe \in {"checking", "requesting"}
  /\ probe' = "none"
  /\ ReleaseProbe
  /\ UNCHANGED <<service, cancelled, loop, errors, reader, server, process, faults>>

\* Whoever asked closes the connection, and the check is dropped.
CloseProbe ==
  /\ process = "up"
  /\ probe # "none"
  /\ probe' = "none"
  /\ ReleaseProbe
  /\ UNCHANGED <<service, cancelled, loop, errors, reader, server, process, faults>>

\* The server shuts down gracefully: an open request is answered first.
StopServer ==
  /\ process = "up"
  /\ server = "serving" /\ cancelled
  /\ probe = "none"
  /\ server' = "stopped"
  /\ UNCHANGED <<service, cancelled, loop, errors, lock, reader, probe, process, faults>>

-----------------------------------------------------------------------------

Serve == CheckHealth \/ RequestHealth \/ AnswerProbe \/ CloseProbe \/ StopServer

Subscribe ==
  Peek \/ Request \/ PublishTasks \/ NoTasks \/ Published \/ SubscribeFails

Read == Ingest \/ StreamEnds \/ ReaderFinishes

Next ==
  \/ Subscribe \/ Read \/ ReaderCloses
  \/ CtrlC \/ DropLoop \/ LoopPanics \/ EndProcess
  \/ AskHealth \/ Serve

Spec == Init /\ [][Next]_vars

\* The runtime polls every task and the mutex is fair.  A call to the queue
\* or the API may hang, one of a health check as well as one of the loop.
FairSpec ==
  /\ Spec
  /\ SF_vars(CheckHealth)
  /\ WF_vars(StopServer)
  /\ WF_vars(DropLoop) /\ WF_vars(EndProcess)
  /\ WF_vars(Ingest \/ StreamEnds) /\ WF_vars(ReaderFinishes)

-----------------------------------------------------------------------------
(* Properties                                                              *)

(* After a Ctrl-C only a call of a health check that never returns keeps   *)
(* the process up: not a call of the loop that hangs, be it with the mutex *)
(* that a health check waits for, which holds up the graceful shutdown of  *)
(* the server.                                                             *)
OnlyHungProbeDelaysShutdown ==
  <>[](cancelled /\ process = "up") => <>[](probe \in {"checking", "requesting"})

(* When the read task of the consumer exits, the work loop ends too: after *)
(* the stream has ended with Ok, every further ingest fails.               *)
DeadReaderStopsLoop == (reader # "reading") ~> (loop = "exited" \/ process # "up")
=============================================================================
