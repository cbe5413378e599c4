--------------------------- MODULE FromAmplifier ----------------------------
(***************************************************************************)
(* The task listener of the Amplifier component                            *)
(* (relayer-amplifier-api-integration/src/from_amplifier.rs) between the   *)
(* Amplifier API and the relayer it is embedded in, which reads the task   *)
(* channel and implements `State` (relayer-amplifier-state/src/lib.rs).    *)
(*                                                                         *)
(* The listener polls at an interval.  A poll spawns a request on a join   *)
(* set, so requests and the relayer run beside the next ticks and beside   *)
(* each other.  `latest_processed_task_id` is written by the relayer,      *)
(* `latest_queried_task_id` by the requests; both outlive the process, the *)
(* channel does not.                                                       *)
(***************************************************************************)
EXTENDS Naturals, Sequences

CONSTANTS
  MaxTasks,             \* bound: tasks the API ever creates
  Limit,                \* `get_chains_limit`
  MaxRequests,          \* bound: requests in the join set
  MaxFaults,            \* bound: failed requests and writes to the state
  MaxStops              \* bound: times the component or the process ends

Tasks == 1..MaxTasks
Requests == 1..MaxRequests

ASSUME ListenerAssumption ==
  /\ MaxTasks \in Nat
  /\ Limit \in Nat \ {0}
  /\ MaxRequests \in Nat \ {0}
  /\ MaxFaults \in Nat
  /\ MaxStops \in Nat

VARIABLES
  created,              \* the API has the tasks 1 .. created
  processed,            \* latest_processed_task_id, 0 for None
  queried,              \* latest_queried_task_id, 0 for None
  component,            \* "down", "running", "stopped"
  tick,                 \* the processed id a poll has read, NoTick otherwise
  request,              \* the requests of the join set
  channel,              \* the unbounded task channel
  working,              \* the task the relayer is processing, 0 if none
  done,                 \* tasks the relayer ever recorded as processed
  overlapped,           \* a request of this process was spawned beside another
  stale,                \* `queried` missed a write since the start
  faults, stops         \* faults and stops so far

vars == <<created, processed, queried, component, tick, request, channel, working,
          done, overlapped, stale, faults, stops>>

NoTick == MaxTasks + 1

\* A request: what it waits for, and the tasks of its page still to be sent.
Idle == [stage |-> "idle", next |-> 0, last |-> 0]

Stages == {"idle", "requesting", "sending", "saving"}

Init ==
  /\ created = 0 /\ processed = 0 /\ queried = 0
  /\ component = "down" /\ tick = NoTick
  /\ request = [r \in Requests |-> Idle]
  /\ channel = <<>> /\ working = 0 /\ done = {}
  /\ overlapped = FALSE /\ stale = FALSE /\ faults = 0 /\ stops = 0

-----------------------------------------------------------------------------
(* Helpers                                                                 *)

Fault == faults < MaxFaults /\ faults' = faults + 1
Stop == stops < MaxStops /\ stops' = stops + 1

InFlight == {r \in Requests : request[r].stage # "idle"}

\* What the request asks for: the tasks after the latest processed one.
MutLatestTask == queried

LatestTask == processed

\* The id a start leaves in latest_queried_task_id.
MutQueriedAtStart == queried

QueriedAtStart == IF processed # 0 THEN processed ELSE queried

\* The last task of the page after task `a`; `a` itself if there is none.
PageEnd(a) == IF a + Limit < created THEN a + Limit ELSE created

\* Whether the last page is processed, judged by the id read before.
MutCaughtUp(a) == TRUE

CaughtUp(a) == a = queried

-----------------------------------------------------------------------------
(* The API and the relayer                                                 *)

CreateTask ==
  /\ created < MaxTasks
  /\ created' = created + 1
  /\ UNCHANGED <<processed, queried, component, tick, request, channel, working, done,
                 overlapped, stale, faults, stops>>

\* The relayer takes a task from the channel ...
TakeTask ==
  /\ component # "down"
  /\ working = 0 /\ channel # <<>>
  /\ working' = Head(channel)
  /\ channel' = Tail(channel)
  /\ UNCHANGED <<created, processed, queried, component, tick, request, done, overlapped,
                 stale, faults, stops>>

\* ... and stores it as the latest processed one.
RecordTask ==
  /\ component # "down"
  /\ working # 0
  /\ processed' = working
  /\ done' = done \union {working}
  /\ working' = 0
  /\ UNCHANGED <<created, queried, component, tick, request, channel, overlapped, stale,
                 faults, stops>>

-----------------------------------------------------------------------------
(* The listener                                                            *)

\* The start of `process`.  If nothing was processed yet, latest_queried_task_id
\* keeps the value an earlier process gave it.  A start that cannot write the id
\* ends at once and leaves everything as it was.
Start ==
  /\ component = "down"
  /\ component' = "running"
  /\ queried' = QueriedAtStart
  /\ overlapped' = FALSE
  /\ stale' = (processed = 0 /\ queried # 0)
  /\ UNCHANGED <<created, processed, tick, request, channel, working, done, faults, stops>>

\* A tick while the channel is empty reads the processed id ...
Tick ==
  /\ component = "running"
  /\ tick = NoTick
  /\ channel = <<>>
  /\ tick' = LatestTask
  /\ UNCHANGED <<created, processed, queried, component, request, channel, working, done,
                 overlapped, stale, faults, stops>>

\* ... compares it with the queried one, and spawns the request if they agree.
Poll(r) ==
  /\ tick # NoTick /\ CaughtUp(tick)
  /\ request[r] = Idle
  /\ request' = [request EXCEPT ![r] = [stage |-> "requesting", next |-> tick + 1,
                                        last |-> tick]]
  /\ overlapped' = (overlapped \/ InFlight # {})
  /\ tick' = NoTick
  /\ UNCHANGED <<created, processed, queried, component, channel, working, done, stale,
                 faults, stops>>

SkipPoll ==
  /\ tick # NoTick /\ ~CaughtUp(tick)
  /\ tick' = NoTick
  /\ UNCHANGED <<created, processed, queried, component, request, channel, working, done,
                 overlapped, stale, faults, stops>>

-----------------------------------------------------------------------------
(* A request of the join set                                               *)

\* The response: a page to send, or an empty one.
Respond(r) ==
  LET a == request[r].last IN
  /\ request[r].stage = "requesting"
  /\ request' = [request EXCEPT ![r] =
                   IF PageEnd(a) > a
                   THEN [stage |-> "sending", next |-> a + 1, last |-> PageEnd(a)]
                   ELSE Idle]
  /\ UNCHANGED <<created, processed, queried, component, tick, channel, working, done,
                 overlapped, stale, faults, stops>>

RequestFails(r) ==
  /\ Fault
  /\ request[r].stage = "requesting"
  /\ request' = [request EXCEPT ![r] = Idle]
  /\ UNCHANGED <<created, processed, queried, component, tick, channel, working, done,
                 overlapped, stale, stops>>

\* One task of `send_all`: the channel is unbounded, so it never waits.
SendTask(r) ==
  LET q == request[r] IN
  /\ q.stage = "sending"
  /\ channel' = Append(channel, q.next)
  /\ request' = [request EXCEPT ![r] =
                   [stage |-> IF q.next = q.last THEN "saving" ELSE "sending",
                    next |-> q.next + 1, last |-> q.last]]
  /\ UNCHANGED <<created, processed, queried, component, tick, working, done, overlapped,
                 stale, faults, stops>>

MutSaveQueried(r) ==
  /\ request[r].stage = "saving"
  /\ request' = [request EXCEPT ![r] = Idle]
  /\ UNCHANGED <<created, processed, queried, component, tick, channel, working, done,
                 overlapped, stale, faults, stops>>

SaveQueried(r) ==
  /\ request[r].stage = "saving"
  /\ queried' = request[r].last
  /\ request' = [request EXCEPT ![r] = Idle]
  /\ UNCHANGED <<created, processed, component, tick, channel, working, done, overlapped,
                 stale, faults, stops>>

\* The state refuses the id: an error that is logged, after the page was sent.
SaveFails(r) ==
  /\ Fault
  /\ request[r].stage = "saving"
  /\ request' = [request EXCEPT ![r] = Idle]
  /\ stale' = TRUE
  /\ UNCHANGED <<created, processed, queried, component, tick, channel, working, done,
                 overlapped, stops>>

-----------------------------------------------------------------------------
(* The end of the component and of the process                             *)

\* Another part of the component ends, and the race drops the listener.
\* The join set is dropped: a request is aborted at its await, the response;
\* one that is past it runs on to its end.
ComponentStops ==
  /\ Stop
  /\ component = "running"
  /\ component' = "stopped"
  /\ tick' = NoTick
  /\ request' = [r \in Requests |->
                   IF request[r].stage = "requesting" THEN Idle ELSE request[r]]
  /\ UNCHANGED <<created, processed, queried, channel, working, done, overlapped, stale,
                 faults>>

\* What is in memory goes with the process.
LoseMemory ==
  /\ component' = "down"
  /\ tick' = NoTick
  /\ request' = [r \in Requests |-> Idle]
  /\ channel' = <<>> /\ working' = 0
  /\ UNCHANGED <<created, processed, queried, done, overlapped, stale, faults>>

\* The engine ends once the component has.
ProcessEnds ==
  /\ component = "stopped"
  /\ LoseMemory
  /\ UNCHANGED stops

Crash ==
  /\ Stop
  /\ component = "running"
  /\ LoseMemory

-----------------------------------------------------------------------------
Listen == Start \/ Tick \/ SkipPoll \/ \E r \in Requests : Poll(r)

Serve(r) == Respond(r) \/ SendTask(r) \/ SaveQueried(r)

Next ==
  \/ CreateTask \/ TakeTask \/ RecordTask
  \/ Start \/ Tick \/ SkipPoll
  \/ \E r \in Requests : Poll(r) \/ Respond(r) \/ RequestFails(r) \/ SendTask(r)
                         \/ SaveQueried(r) \/ SaveFails(r)
  \/ ComponentStops \/ ProcessEnds \/ Crash

Spec == Init /\ [][Next]_vars

\* The interval ticks, requests end, the relayer works through its channel,
\* the engine ends and its process is started again.
Fairness ==
  /\ WF_vars(Listen)
  /\ \A r \in Requests : WF_vars(Serve(r))
  /\ WF_vars(TakeTask \/ RecordTask)
  /\ WF_vars(ProcessEnds)

FairSpec == Spec /\ Fairness

-----------------------------------------------------------------------------
(* Properties                                                              *)

TypeOK ==
  /\ created \in 0..MaxTasks
  /\ processed \in 0..created
  /\ queried \in 0..created
  /\ component \in {"down", "running", "stopped"}
  /\ tick \in 0..created \union {NoTick}
  /\ request \in [Requests -> [stage : Stages, next : 0..created + 1, last : 0..created]]
  /\ channel \in Seq(1..created)
  /\ working \in 0..created
  /\ done \subseteq 1..created
  /\ overlapped \in BOOLEAN /\ stale \in BOOLEAN
  /\ faults \in 0..MaxFaults /\ stops \in 0..MaxStops

(* The id a restart continues from never runs ahead of what the relayer    *)
(* processed, however requests overlap and whenever the process ends       *)
(* (from_amplifier.rs: the next request is made after the processed id).   *)
NoTaskSkipped == 1..processed \subseteq done

(* As long as requests do not overlap and no id is missed, the relayer is  *)
(* handed each task once and in order: the one after the task it recorded  *)
(* last.  Comparing the ids holds a poll back while a page is processed.   *)
NextInLine ==
  [][working' \notin {0, working} /\ ~overlapped /\ ~stale
       => working' = processed + 1]_vars

(* The listener polls no more once the two ids differ and nothing is left  *)
(* that could change either.  That takes overlapping requests, or an id    *)
(* that was not written: it does not happen to a lone listener by itself.  *)
Stalled ==
  /\ component = "running"
  /\ InFlight = {} /\ channel = <<>> /\ working = 0
  /\ processed # queried

StallNeedsCause == Stalled => overlapped \/ stale

Relay == INSTANCE TaskRelay WITH queued <- done, position <- processed

(* The listener and its relayer implement the abstract relay.              *)
ImplementsRelaySafe == Relay!RelaySafe

(* Every task is processed, through failed requests, crashes and restarts, *)
(* unless the listener has stalled its own progress by one of the causes.  *)
TaskProcessed ==
  \A t \in Tasks : (created >= t) ~> (t \in done \/ overlapped \/ stale)

(* from_amplifier.rs: "Upon startup we want to continue from the latest    *)
(* processed item".  A listener whose requests do not overlap processes    *)
(* every task, even if it is restarted.                                    *)
ContinuesAfterRestart == \A t \in Tasks : (created >= t) ~> (t \in done)
=============================================================================
