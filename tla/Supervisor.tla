----------------------------- MODULE Supervisor -----------------------------
(***************************************************************************)
(* The supervisor crate (supervisor/src/lib.rs): one thread builds every   *)
(* worker, spawns a thread for each and watches a channel on which names   *)
(* of workers to build again arrive; a cancellation token ends everything. *)
(*                                                                         *)
(* A worker is its position in the order of the BTreeMap of builders.  A   *)
(* restart spawns a new thread before the old one is joined, so each       *)
(* worker has a row of threads.  Each supervisor action runs from one      *)
(* await (or blocking join) to the next; a worker thread takes the steps   *)
(* of its loop.  A test-only branch of the code, which signals readiness   *)
(* over a pipe, is left out.                                               *)
(***************************************************************************)
EXTENDS Naturals, Sequences, FiniteSets

CONSTANTS
  NumWorkers,           \* builders given to `run`
  MaxFailed             \* bound: builds, runtimes and pieces of work that fail

ASSUME SupervisorAssumption ==
  /\ NumWorkers \in Nat \ {0}
  /\ MaxFailed \in Nat

Workers == 1..NumWorkers

VARIABLES
  cancel_token,         \* the cancellation token
  pc,                   \* where the supervisor thread is
  target,               \* the worker it builds
  channel,              \* `worker_crashed_tx` / `worker_crashed_rx`
  active,               \* the thread in `active_workers`, 0 if none
  thread,               \* the threads spawned for each worker
  failed                \* failed so far

supervisorVars == <<cancel_token, pc, target, channel, active, thread, failed>>

Threads == 1..(MaxFailed + 1)

\* starting: the first builds; watching: in the select loop; grace: the two
\* seconds after cancellation; ended: `run` joined it; dead: it panicked or
\* could not build its runtime.
SupervisorStages ==
  {"starting", "watching", "building", "joining", "grace", "ended", "dead"}

\* spawned: before the runtime runs; ticking: awaiting the interval; working:
\* in do_work; exiting: out of the loop; reporting: asleep before the report;
\* reported: has nothing left to do but end.
ThreadStages ==
  {"absent", "spawned", "ticking", "working", "exiting", "reporting", "reported", "gone"}

\* A thread that may still do work.
Live == {"spawned", "ticking", "working"}

SupervisorTypeOK ==
  /\ cancel_token \in BOOLEAN
  /\ pc \in SupervisorStages
  /\ target \in Workers
  /\ channel \in Seq(Workers)
  /\ active \in [Workers -> 0..(MaxFailed + 1)]
  /\ thread \in [Workers -> [Threads -> ThreadStages]]
  /\ failed \in 0..MaxFailed

SupervisorInit ==
  /\ cancel_token = FALSE /\ pc = "starting" /\ target = 1
  /\ channel = <<>> /\ failed = 0
  /\ active = [w \in Workers |-> 0]
  /\ thread = [w \in Workers |-> [g \in Threads |-> "absent"]]

-----------------------------------------------------------------------------
(* Helpers                                                                 *)

Failing == failed < MaxFailed /\ failed' = failed + 1

\* The receiver is dropped with the supervisor's future.
Send(w) ==
  channel' = IF pc \in {"ended", "dead"} THEN channel ELSE Append(channel, w)

MutPeek(q) == q

AfterRecv(q) == Tail(q)

Spawned(w) == {g \in Threads : thread[w][g] # "absent"}

Newest(w) == Cardinality(Spawned(w))

SpawnWorker(w) == thread' = [thread EXCEPT ![w][Newest(w) + 1] = "spawned"]

Move(w, g, from, to) ==
  /\ thread[w][g] \in from
  /\ thread' = [thread EXCEPT ![w][g] = to]

-----------------------------------------------------------------------------
(* The supervisor thread                                                   *)

\* The first loop goes on to the next builder, or into the select loop.
NextBuilder ==
  IF target < NumWorkers
  THEN target' = target + 1 /\ UNCHANGED pc
  ELSE pc' = "watching" /\ UNCHANGED target

FirstBuild ==
  /\ pc = "starting"
  /\ SpawnWorker(target)
  /\ active' = [active EXCEPT ![target] = Newest(target) + 1]
  /\ NextBuilder
  /\ UNCHANGED <<cancel_token, channel, failed>>

FirstBuildFails ==
  /\ pc = "starting"
  /\ Send(target)
  /\ NextBuilder
  /\ Failing
  /\ UNCHANGED <<cancel_token, active, thread>>

NoticeCancel ==
  /\ pc = "watching"
  /\ cancel_token
  /\ pc' = "grace"
  /\ UNCHANGED <<cancel_token, target, channel, active, thread, failed>>

\* A name arrives: its worker is built again, or the name is dropped.
ReceiveName ==
  /\ pc = "watching"
  /\ channel # <<>>
  /\ channel' = AfterRecv(channel)
  /\ IF cancel_token
     THEN UNCHANGED <<pc, target>>
     ELSE pc' = "building" /\ target' = Head(channel)
  /\ UNCHANGED <<cancel_token, active, thread, failed>>

Rebuild ==
  /\ pc = "building"
  /\ SpawnWorker(target)
  /\ pc' = "joining"
  /\ UNCHANGED <<cancel_token, target, channel, active, failed>>

MutForget ==
  /\ pc = "building"
  /\ pc' = "watching"
  /\ Failing
  /\ UNCHANGED <<cancel_token, target, channel, active, thread>>

RebuildFails ==
  /\ pc = "building"
  /\ Send(target)
  /\ pc' = "watching"
  /\ Failing
  /\ UNCHANGED <<cancel_token, target, active, thread>>

\* The thread that is replaced is joined, which blocks the supervisor.
Join ==
  /\ pc = "joining"
  /\ active[target] # 0 => thread[target][active[target]] = "gone"
  /\ active' = [active EXCEPT ![target] = Newest(target)]
  /\ pc' = "watching"
  /\ UNCHANGED <<cancel_token, target, channel, thread, failed>>

EndGrace ==
  /\ pc = "grace"
  /\ pc' = "ended"
  /\ UNCHANGED <<cancel_token, target, channel, active, thread, failed>>

\* A builder panics, or the runtime of the supervisor cannot be built.
SupervisorDies ==
  /\ pc \in {"starting", "building"}
  /\ pc' = "dead"
  /\ Failing
  /\ UNCHANGED <<cancel_token, target, channel, active, thread>>

-----------------------------------------------------------------------------
(* A worker thread                                                         *)

\* run_until_cancelled does not poll the loop if the token is cancelled.
EnterLoop(w, g) ==
  /\ Move(w, g, {"spawned"}, IF cancel_token THEN "exiting" ELSE "ticking")
  /\ UNCHANGED <<cancel_token, pc, target, channel, active, failed>>

RuntimeFails(w, g) ==
  /\ Move(w, g, {"spawned"}, "reported")
  /\ Send(w)
  /\ Failing
  /\ UNCHANGED <<cancel_token, pc, target, active>>

StartWork(w, g) ==
  /\ Move(w, g, {"ticking"}, "working")
  /\ UNCHANGED <<cancel_token, pc, target, channel, active, failed>>

WorkDone(w, g) ==
  /\ Move(w, g, {"working"}, "ticking")
  /\ UNCHANGED <<cancel_token, pc, target, channel, active, failed>>

\* do_work returns an error or panics.
WorkFails(w, g) ==
  /\ Move(w, g, {"working"}, "exiting")
  /\ Failing
  /\ UNCHANGED <<cancel_token, pc, target, channel, active>>

\* run_until_cancelled drops the loop at an await, also inside do_work.
MutCancelBetween(w, g) ==
  /\ cancel_token
  /\ Move(w, g, {"ticking"}, "exiting")
  /\ UNCHANGED <<cancel_token, pc, target, channel, active, failed>>

CancelLoop(w, g) ==
  /\ cancel_token
  /\ Move(w, g, {"ticking", "working"}, "exiting")
  /\ UNCHANGED <<cancel_token, pc, target, channel, active, failed>>

\* The report is sent only once the token is cancelled.
LeaveLoop(w, g) ==
  /\ Move(w, g, {"exiting"}, IF cancel_token THEN "reporting" ELSE "gone")
  /\ UNCHANGED <<cancel_token, pc, target, channel, active, failed>>

Report(w, g) ==
  /\ Move(w, g, {"reporting"}, "reported")
  /\ Send(w)
  /\ UNCHANGED <<cancel_token, pc, target, active, failed>>

EndThread(w, g) ==
  /\ Move(w, g, {"reported"}, "gone")
  /\ UNCHANGED <<cancel_token, pc, target, channel, active, failed>>

-----------------------------------------------------------------------------

Cancel ==
  /\ ~cancel_token
  /\ cancel_token' = TRUE
  /\ UNCHANGED <<pc, target, channel, active, thread, failed>>

Supervise ==
  \/ FirstBuild \/ NoticeCancel \/ ReceiveName \/ Rebuild \/ Join \/ EndGrace

SuperviseFails == FirstBuildFails \/ RebuildFails \/ SupervisorDies

\* What a thread does by itself; what do_work does is the worker's affair.
Run(w, g) ==
  \/ EnterLoop(w, g) \/ StartWork(w, g) \/ CancelLoop(w, g)
  \/ LeaveLoop(w, g) \/ Report(w, g) \/ EndThread(w, g)

SupervisorNext ==
  \/ Cancel
  \/ Supervise \/ SuperviseFails
  \/ \E w \in Workers, g \in Threads :
       Run(w, g) \/ WorkDone(w, g) \/ WorkFails(w, g) \/ RuntimeFails(w, g)

SupervisorSpec == SupervisorInit /\ [][SupervisorNext]_supervisorVars

\* Builders return, the operating system runs every thread, and a loop that
\* is cancelled reaches an await at which it is dropped.
SupervisorFairSpec ==
  /\ SupervisorSpec
  /\ WF_supervisorVars(Supervise)
  /\ \A w \in Workers, g \in Threads :
       WF_supervisorVars(Run(w, g)) /\ WF_supervisorVars(CancelLoop(w, g))

-----------------------------------------------------------------------------
(* Properties                                                              *)

(* A worker never runs twice: a restart is asked for only by a thread that *)
(* is out of its loop, or by a build that made none.                       *)
OneLiveThread ==
  \A w \in Workers : \A g, h \in Threads :
    thread[w][g] \in Live /\ thread[w][h] \in Live => g = h

(* The blocking join of a replaced thread never waits for work: that       *)
(* thread has reported and is about to end, so neither other restarts nor  *)
(* the reaction to a cancellation are held up by it.                       *)
JoinNeverWaits ==
  pc = "joining" /\ active[target] # 0
    => thread[target][active[target]] \in {"reported", "gone"}

(* A worker whose first build was tried, and may have failed, is not       *)
(* forgotten: until the supervisor ends or is cancelled, its name is sent  *)
(* again and it is built in the end, however many builds fail before.      *)
EveryWorkerStarts ==
  \A w \in Workers :
    (pc = "starting" => w < target) ~> (cancel_token \/ pc = "dead" \/ active[w] # 0)

\* `run` returns when the supervisor's thread and then every worker's ended.
RunReturns ==
  /\ pc \in {"ended", "dead"}
  /\ \A w \in Workers, g \in Threads : thread[w][g] \in {"absent", "gone"}

(* Once the token is cancelled `run` returns, with a worker in the middle  *)
(* of a do_work that never ends by itself too, or with names to restart in *)
(* the channel, or after the supervisor's own thread has died.             *)
ShutdownEnds == cancel_token ~> RunReturns

(* README: the supervisor "Detects crashes and automatically restarts      *)
(* failed components".  The report of a crash is guarded by is_cancelled() *)
(* where it means not cancelled, so a crashed worker is never restarted.   *)
CrashedWorkerRestarts ==
  \A w \in Workers, g \in Threads :
    (thread[w][g] = "exiting" /\ ~cancel_token)
      ~> (cancel_token \/ pc = "dead" \/ \E h \in Threads : h > g /\ thread[w][h] \in Live)
=============================================================================
