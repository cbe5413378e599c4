--------------------------- MODULE GcpSubscriber ----------------------------
(***************************************************************************)
(* The amplifier subscriber on Google Pub/Sub: `Subscriber::subscribe`     *)
(* (amplifier-subscriber/src/lib.rs) over `PeekableGcpPublisher`           *)
(* (infrastructure/src/gcp/publisher.rs), which keeps the id of the last   *)
(* published task under one Redis key.                                     *)
(*                                                                         *)
(* Each action runs from one await of `subscribe` to the next.  The        *)
(* bundles of a batch are sent by background workers of the Pub/Sub        *)
(* client, in any order; a batch given up on leaves its bundles with those *)
(* workers, where they may still be sent.  Every call can fail, and may    *)
(* have taken effect when it does.  A process can die at any await and is  *)
(* started again; while it is replaced two of them may run (Subscribers).  *)
(***************************************************************************)
EXTENDS Naturals, Sequences

CONSTANTS
  Subscribers,          \* running instances
  MaxTasks,             \* bound: tasks the API ever creates
  Limit,                \* `limit_items`
  Timestamp,            \* the timestamp of each task
  MaxFaults             \* bound: failed calls, lost bundles and crashes

Tasks == 1..MaxTasks

ASSUME SubscriberAssumption ==
  /\ MaxTasks \in Nat
  /\ Limit \in Nat \ {0}
  /\ Timestamp \in [Tasks -> Nat]
  /\ MaxFaults \in Nat

VARIABLES
  created,              \* the API has the tasks 1 .. created
  cursor,               \* the Redis value, 0 while the key is absent
  topic,                \* tasks that reached the topic
  stray,                \* bundles nobody waits for any more
  pc,                   \* the await each subscriber is at
  after,                \* `last_task_id`
  batch,                \* the tasks to publish, in order
  handle,               \* the publish handle of each task of the batch
  faults                \* faults so far

procVars == <<pc, after, batch, handle>>
vars == <<created, cursor, topic, stray, procVars, faults>>

Stages == {"idle", "peeked", "fetched", "confirming", "saving"}
HandleStates == {"none", "pending", "sent", "failed"}

TypeOK ==
  /\ created \in 0..MaxTasks
  /\ cursor \in 0..MaxTasks
  /\ topic \subseteq Tasks
  /\ stray \subseteq Tasks
  /\ pc \in [Subscribers -> Stages]
  /\ after \in [Subscribers -> 0..MaxTasks]
  /\ batch \in [Subscribers -> Seq(Tasks)]
  /\ handle \in [Subscribers -> [Tasks -> HandleStates]]
  /\ faults \in 0..MaxFaults

NoHandles == [t \in Tasks |-> "none"]

Init ==
  /\ created = 0 /\ cursor = 0 /\ topic = {} /\ stray = {} /\ faults = 0
  /\ pc = [s \in Subscribers |-> "idle"]
  /\ after = [s \in Subscribers |-> 0]
  /\ batch = [s \in Subscribers |-> <<>>]
  /\ handle = [s \in Subscribers |-> NoHandles]

-----------------------------------------------------------------------------
(* Helpers                                                                 *)

Goto(s, stage) == pc' = [pc EXCEPT ![s] = stage]

Fault == faults < MaxFaults /\ faults' = faults + 1

Contents(q) == {q[i] : i \in 1..Len(q)}

Last(q) == q[Len(q)]

\* How many tasks a request after task `a` returns, and the orders in which
\* sort_unstable_by_key(timestamp) can leave them: equal timestamps may come
\* out in any order.
PageSize(a) == IF created - a < Limit THEN created - a ELSE Limit

MutPageFromStart(a, n) == 1..n
MutPageInclusive(a, n) == IF a = 0 THEN 1..n ELSE a..(a + n - 1)

PageAfter(a, n) == (a + 1)..(a + n)

Sorted(page, n) ==
  {q \in [1..n -> page] :
     /\ page = {q[i] : i \in 1..n}
     /\ \A i, j \in 1..n : i < j => Timestamp[q[i]] <= Timestamp[q[j]]}

\* The handles are awaited in batch order: all sent, or the first one that
\* failed after those before it were sent.
MutFirstSent(s) == handle[s][batch[s][1]] = "sent"

AllSent(s) == \A t \in Contents(batch[s]) : handle[s][t] = "sent"

FailureReached(s) ==
  \E i \in 1..Len(batch[s]) :
    /\ handle[s][batch[s][i]] = "failed"
    /\ \A j \in 1..(i - 1) : handle[s][batch[s][j]] = "sent"

\* `subscribe` returns: what it awaited is dropped, the bundles are not.
Return(s) ==
  /\ Goto(s, "idle")
  /\ stray' = stray \union {t \in Tasks : handle[s][t] = "pending"}
  /\ batch' = [batch EXCEPT ![s] = <<>>]
  /\ handle' = [handle EXCEPT ![s] = NoHandles]
  /\ UNCHANGED after

-----------------------------------------------------------------------------
(* The Amplifier API                                                       *)

CreateTask ==
  /\ created < MaxTasks
  /\ created' = created + 1
  /\ UNCHANGED <<cursor, topic, stray, procVars, faults>>

-----------------------------------------------------------------------------
(* One call of subscribe                                                   *)

PeekLast(s) ==
  /\ pc[s] = "idle"
  /\ after' = [after EXCEPT ![s] = cursor]
  /\ Goto(s, "peeked")
  /\ UNCHANGED <<created, cursor, topic, stray, batch, handle, faults>>

FetchTasks(s) ==
  LET n == PageSize(after[s]) IN
  /\ pc[s] = "peeked"
  /\ n > 0
  /\ \E q \in Sorted(PageAfter(after[s], n), n) :
       batch' = [batch EXCEPT ![s] = q]
  /\ Goto(s, "fetched")
  /\ UNCHANGED <<created, cursor, topic, stray, after, handle, faults>>

FetchNothing(s) ==
  /\ pc[s] = "peeked"
  /\ PageSize(after[s]) = 0
  /\ Return(s)
  /\ UNCHANGED <<created, cursor, topic, faults>>

PublishBulk(s) ==
  /\ pc[s] = "fetched"
  /\ handle' = [handle EXCEPT ![s] =
                  [t \in Tasks |-> IF t \in Contents(batch[s]) THEN "pending" ELSE "none"]]
  /\ Goto(s, "confirming")
  /\ UNCHANGED <<created, cursor, topic, stray, after, batch, faults>>

ConfirmBatch(s) ==
  /\ pc[s] = "confirming"
  /\ AllSent(s)
  /\ Goto(s, "saving")
  /\ UNCHANGED <<created, cursor, topic, stray, after, batch, handle, faults>>

AbandonBatch(s) ==
  /\ pc[s] = "confirming"
  /\ FailureReached(s)
  /\ Return(s)
  /\ UNCHANGED <<created, cursor, topic, faults>>

SaveLastId(s) ==
  /\ pc[s] = "saving"
  /\ cursor' = Last(batch[s])
  /\ Return(s)
  /\ UNCHANGED <<created, topic, faults>>

SaveFails(s) ==
  /\ pc[s] = "saving"
  /\ cursor' \in {cursor, Last(batch[s])}
  /\ Return(s)
  /\ Fault
  /\ UNCHANGED <<created, topic>>

\* peek_last or the request to the API fails, or the process dies.
CallFailsOrCrash(s) ==
  /\ pc[s] # "idle"
  /\ Return(s)
  /\ Fault
  /\ UNCHANGED <<created, cursor, topic>>

-----------------------------------------------------------------------------
(* The background workers of the Pub/Sub client                            *)

BundleSent(s, t) ==
  /\ handle[s][t] = "pending"
  /\ handle' = [handle EXCEPT ![s][t] = "sent"]
  /\ topic' = topic \union {t}
  /\ UNCHANGED <<created, cursor, stray, pc, after, batch, faults>>

BundleFails(s, t) ==
  /\ handle[s][t] = "pending"
  /\ handle' = [handle EXCEPT ![s][t] = "failed"]
  /\ topic' \in {topic, topic \union {t}}
  /\ Fault
  /\ UNCHANGED <<created, cursor, stray, pc, after, batch>>

StrayEnds(t) ==
  /\ t \in stray
  /\ stray' = stray \ {t}
  /\ topic' \in {topic, topic \union {t}}
  /\ UNCHANGED <<created, cursor, procVars, faults>>

-----------------------------------------------------------------------------

Progress(s) ==
  \/ PeekLast(s) \/ FetchTasks(s) \/ FetchNothing(s) \/ PublishBulk(s)
  \/ ConfirmBatch(s) \/ AbandonBatch(s) \/ SaveLastId(s)
  \/ \E t \in Tasks : BundleSent(s, t)

Failure(s) ==
  \/ SaveFails(s) \/ CallFailsOrCrash(s)
  \/ \E t \in Tasks : BundleFails(s, t)

Next ==
  \/ CreateTask
  \/ \E s \in Subscribers : Progress(s) \/ Failure(s)
  \/ \E t \in Tasks : StrayEnds(t)

Spec == Init /\ [][Next]_vars

\* The work loop ticks for ever and the client's workers send what they hold.
FairSpec == Spec /\ \A s \in Subscribers : WF_vars(Progress(s))

-----------------------------------------------------------------------------
(* Properties                                                              *)

(* The id in Redis never runs ahead of the topic: every task up to it has  *)
(* been published, so resuming after it skips none.  It rests on           *)
(* publish_batch saving the id only after every handle is confirmed, and   *)
(* on the page being contiguous, whatever order the sort leaves it in.     *)
NoTaskSkipped == 1..cursor \subseteq topic

(* The id in Redis moves back, and the backlog is published again, only if *)
(* another instance moved it between this one's peek_last and its save.  A *)
(* subscriber that runs alone never rewinds, whatever calls fail.          *)
RewindOnlyWhenOvertaken ==
  [][cursor' < cursor =>
       \E s \in Subscribers : pc[s] = "saving" /\ after[s] # cursor]_cursor

Relay == INSTANCE TaskRelay WITH queued <- topic, position <- cursor

(* The subscriber implements the relay's safety: the resume position moves *)
(* only over tasks the topic holds.                                        *)
ImplementsRelaySafe == Relay!RelaySafe

(* ... and its liveness: with finitely many faults every task the API      *)
(* creates is published and passed by the resume position.                 *)
EveryTaskRelayed == Relay!EveryTaskRelayed
=============================================================================
