--------------------------- MODULE NatsSubscriber ---------------------------
(***************************************************************************)
(* The amplifier subscriber on NATS JetStream: `Subscriber::subscribe`     *)
(* (amplifier-subscriber/src/lib.rs) over `NatsPublisher`                  *)
(* (infrastructure/src/nats/publisher.rs).                                 *)
(*                                                                         *)
(* There is no cursor of its own: peek_last reads the last message of the  *)
(* stream.  A batch is published one message at a time, each awaited, so a *)
(* call that fails leaves a prefix of the batch in the stream.  The server *)
(* drops a message whose Nats-Msg-Id it has seen in the duplicate window   *)
(* (nats.rs: five minutes) and still acknowledges it.  A publish that was  *)
(* given up on may reach the server later, but within that window, which   *)
(* also outlasts one call of subscribe.                                    *)
(***************************************************************************)
EXTENDS Naturals, Sequences

CONSTANTS
  MaxTasks,             \* bound: tasks the API ever creates
  Limit,                \* `limit_items`
  Timestamp,            \* the timestamp of each task
  MaxFaults             \* bound: failed calls and crashes

Tasks == 1..MaxTasks

ASSUME SubscriberAssumption ==
  /\ MaxTasks \in Nat
  /\ Limit \in Nat \ {0}
  /\ Timestamp \in [Tasks -> Nat]
  /\ MaxFaults \in Nat

VARIABLES
  created,              \* the API has the tasks 1 .. created
  stream,               \* the messages of the stream, oldest first
  recent,               \* ids in the duplicate window
  late,                 \* publishes given up on that may still arrive
  pc,                   \* the await the subscriber is at
  after,                \* `last_task_id`
  batch,                \* the tasks not yet published, in order
  faults                \* faults so far

vars == <<created, stream, recent, late, pc, after, batch, faults>>

Stages == {"idle", "peeked", "publishing"}

Init ==
  /\ created = 0 /\ stream = <<>> /\ recent = {} /\ late = {}
  /\ pc = "idle" /\ after = 0 /\ batch = <<>> /\ faults = 0

-----------------------------------------------------------------------------
(* Helpers                                                                 *)

Fault == faults < MaxFaults /\ faults' = faults + 1

Contents(q) == {q[i] : i \in 1..Len(q)}

\* peek_last: the id of the stream's last message, 0 for None.
MutPeekFirst(q) == IF q = <<>> THEN 0 ELSE q[1]

LastMessage(q) == IF q = <<>> THEN 0 ELSE q[Len(q)]

\* How many tasks a request after task `a` returns, and the orders in which
\* sort_unstable_by_key(timestamp) can leave them.
PageSize(a) == IF created - a < Limit THEN created - a ELSE Limit

PageAfter(a, n) == (a + 1)..(a + n)

Sorted(page, n) ==
  {q \in [1..n -> page] :
     /\ page = {q[i] : i \in 1..n}
     /\ \A i, j \in 1..n : i < j => Timestamp[q[i]] <= Timestamp[q[j]]}

\* The server takes a message in, unless its id is in the window.
MutNoDedup(t) == stream' = Append(stream, t) /\ recent' = recent \union {t}

Store(t) ==
  IF t \in recent
  THEN UNCHANGED <<stream, recent>>
  ELSE stream' = Append(stream, t) /\ recent' = recent \union {t}

\* What is left of the batch once its first message is acknowledged.
MutSkipOne(q) == IF Len(q) > 1 THEN Tail(Tail(q)) ELSE <<>>

Unpublished(q) == Tail(q)

Return == pc' = "idle" /\ batch' = <<>> /\ UNCHANGED after

-----------------------------------------------------------------------------
(* The Amplifier API and the server                                        *)

CreateTask ==
  /\ created < MaxTasks
  /\ created' = created + 1
  /\ UNCHANGED <<stream, recent, late, pc, after, batch, faults>>

WindowPasses(t) ==
  /\ pc = "idle"
  /\ t \in recent \ late
  /\ recent' = recent \ {t}
  /\ UNCHANGED <<created, stream, late, pc, after, batch, faults>>

LateArrives(t) ==
  /\ t \in late
  /\ late' = late \ {t}
  /\ Store(t)
  /\ UNCHANGED <<created, pc, after, batch, faults>>

LateIsLost(t) ==
  /\ t \in late
  /\ late' = late \ {t}
  /\ UNCHANGED <<created, stream, recent, pc, after, batch, faults>>

-----------------------------------------------------------------------------
(* One call of subscribe                                                   *)

PeekLast ==
  /\ pc = "idle"
  /\ after' = LastMessage(stream)
  /\ pc' = "peeked"
  /\ UNCHANGED <<created, stream, recent, late, batch, faults>>

FetchTasks ==
  LET n == PageSize(after) IN
  /\ pc = "peeked"
  /\ n > 0
  /\ batch' \in Sorted(PageAfter(after, n), n)
  /\ pc' = "publishing"
  /\ UNCHANGED <<created, stream, recent, late, after, faults>>

FetchNothing ==
  /\ pc = "peeked"
  /\ PageSize(after) = 0
  /\ Return
  /\ UNCHANGED <<created, stream, recent, late, faults>>

\* One message is published and acknowledged; the last one ends the call.
Publish ==
  /\ pc = "publishing"
  /\ Store(Head(batch))
  /\ batch' = Unpublished(batch)
  /\ pc' = IF batch' = <<>> THEN "idle" ELSE "publishing"
  /\ UNCHANGED <<created, late, after, faults>>

\* A publish or its acknowledgement fails, or the process dies during it.
PublishFails ==
  /\ pc = "publishing"
  /\ late' = late \union {Head(batch)}
  /\ Return
  /\ Fault
  /\ UNCHANGED <<created, stream, recent>>

\* peek_last or the request to the API fails, or the process dies.
CallFailsOrCrash ==
  /\ pc # "idle"
  /\ Return
  /\ Fault
  /\ UNCHANGED <<created, stream, recent, late>>

-----------------------------------------------------------------------------

Progress == PeekLast \/ FetchTasks \/ FetchNothing \/ Publish

Next ==
  \/ CreateTask
  \/ Progress
  \/ PublishFails
  \/ CallFailsOrCrash
  \/ \E t \in Tasks : WindowPasses(t) \/ LateArrives(t) \/ LateIsLost(t)

Spec == Init /\ [][Next]_vars

\* The work loop ticks for ever.
FairSpec == Spec /\ WF_vars(Progress)

-----------------------------------------------------------------------------
(* Properties                                                              *)

TypeOK ==
  /\ created \in 0..MaxTasks
  /\ stream \in Seq(Tasks)
  /\ recent \subseteq Tasks
  /\ late \subseteq Tasks
  /\ pc \in Stages
  /\ after \in 0..MaxTasks
  /\ batch \in Seq(Tasks)
  /\ faults \in 0..MaxFaults

\* The API lists tasks in strictly increasing timestamp order.
OrderedApi == \A t, u \in Tasks : t < u => Timestamp[t] < Timestamp[u]

(* If the API lists tasks in timestamp order, the stream holds each task   *)
(* exactly once and in that order, through failed publishes, late arrivals *)
(* and crashes.  It rests on publish_batch awaiting each message and on    *)
(* peek_last reading the position back from the stream itself.             *)
ExactlyOnceInOrder == OrderedApi => \A i \in 1..Len(stream) : stream[i] = i

Relay == INSTANCE TaskRelay WITH
           queued <- Contents(stream), position <- LastMessage(stream)

(* The subscriber implements the relay: a publish moves the queue and the  *)
(* resume position together.                                               *)
ImplementsRelaySafe == Relay!RelaySafe

(* ... and its liveness: with finitely many faults every task the API      *)
(* creates is published and passed by the resume position.                 *)
EveryTaskRelayed == Relay!EveryTaskRelayed
=============================================================================
