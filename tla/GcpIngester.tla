---------------------------- MODULE GcpIngester -----------------------------
(***************************************************************************)
(* The amplifier ingester on Google Pub/Sub: `Ingester::process_queue_msg` *)
(* (amplifier-ingester/src/lib.rs) over `GcpConsumer`                      *)
(* (infrastructure/src/gcp/consumer.rs) with its Redis deduplication.      *)
(*                                                                         *)
(* A message is leased to the consumer on each delivery; a lease that ends *)
(* without an acknowledgement makes the subscription deliver the message   *)
(* again, up to MaxDeliveries times, and then dead-letter it               *)
(* (terraform/modules/pubsub).  The copy of an earlier delivery may still  *)
(* be in the process then.  Each action runs from one await to the next,   *)
(* and every call can fail.                                                *)
(***************************************************************************)
EXTENDS Naturals, FiniteSets

CONSTANTS
  Messages,             \* the messages of the subscription
  Events,               \* the events they carry
  EventOf,              \* the event of each message: its MSG_ID attribute
  Poison,               \* messages that do not decode
  ConcurrentItems,      \* `concurrent_queue_items`
  MaxDeliveries,        \* `max_delivery_attempts` of the subscription
  MaxFaults             \* bound: failed calls, lost leases and crashes

ASSUME IngesterAssumption ==
  /\ EventOf \in [Messages -> Events]
  /\ Poison \subseteq Messages
  /\ ConcurrentItems \in Nat \ {0}
  /\ MaxDeliveries \in Nat \ {0}
  /\ MaxFaults \in Nat

VARIABLES
  backlog,              \* messages the subscription still has to deliver
  dead,                 \* messages it dead-lettered
  deliveries,           \* how often each message was delivered
  lease,                \* the delivery that holds each message, 0 if none
  stage,                \* what the process does with each delivered copy
  markers,              \* events with a `dedup:` key in Redis
  posts,                \* requests answered by the API, per message
  faults                \* faults so far

queueVars == <<backlog, dead, deliveries, lease>>
vars == <<queueVars, stage, markers, posts, faults>>

Copies == 1..MaxDeliveries

Stages == {"none", "received", "duplicate", "queued", "posting", "answered",
           "refused", "marking", "ended"}

\* The stages that hold a slot of for_each_concurrent.
MutSlotsLeak == {"posting", "answered", "refused", "marking", "ended"}

Working == {"posting", "answered", "refused", "marking"}

TypeOK ==
  /\ backlog \subseteq Messages
  /\ dead \subseteq Messages
  /\ deliveries \in [Messages -> 0..MaxDeliveries]
  /\ lease \in [Messages -> 0..MaxDeliveries]
  /\ stage \in [Messages -> [Copies -> Stages]]
  /\ markers \subseteq Events
  /\ posts \in [Messages -> 0..MaxDeliveries]
  /\ faults \in 0..MaxFaults

Init ==
  /\ backlog = Messages /\ dead = {}
  /\ deliveries = [m \in Messages |-> 0]
  /\ lease = [m \in Messages |-> 0]
  /\ stage = [m \in Messages |-> [k \in Copies |-> "none"]]
  /\ markers = {}
  /\ posts = [m \in Messages |-> 0]
  /\ faults = 0

-----------------------------------------------------------------------------
(* Helpers                                                                 *)

Fault == faults < MaxFaults /\ faults' = faults + 1

Step(m, k, from, to) ==
  /\ stage[m][k] \in from
  /\ stage' = [stage EXCEPT ![m][k] = to]

InProgress == {c \in Messages \X Copies : stage[c[1]][c[2]] \in Working}

\* Where the receive callback sends a copy: an Err item is only logged.
MutDropDuplicate(m) == IF EventOf[m] \in markers \/ m \in Poison THEN "ended" ELSE "queued"
MutNoDedup(m) == IF m \in Poison THEN "ended" ELSE "queued"

Verdict(m) ==
  IF m \in Poison THEN "ended"
  ELSE IF EventOf[m] \in markers THEN "duplicate" ELSE "queued"

\* What a copy may be in when the message is acknowledged.
MutAckWhenRefused == {"answered", "refused"}

AckFrom == {"answered"}

-----------------------------------------------------------------------------
(* The subscription                                                        *)

Deliver(m) ==
  /\ m \in backlog
  /\ lease[m] = 0
  /\ deliveries[m] < MaxDeliveries
  /\ deliveries' = [deliveries EXCEPT ![m] = @ + 1]
  /\ lease' = [lease EXCEPT ![m] = deliveries[m] + 1]
  /\ stage' = [stage EXCEPT ![m][deliveries[m] + 1] = "received"]
  /\ UNCHANGED <<backlog, dead, markers, posts, faults>>

\* The ack deadline passes: always, once the process gave the copy up ...
LeaseEnds(m) ==
  /\ m \in backlog
  /\ lease[m] # 0
  /\ stage[m][lease[m]] = "ended"
  /\ lease' = [lease EXCEPT ![m] = 0]
  /\ UNCHANGED <<backlog, dead, deliveries, stage, markers, posts, faults>>

\* ... and as a fault while it still works on it.
LeaseLost(m) ==
  /\ m \in backlog
  /\ lease[m] # 0
  /\ stage[m][lease[m]] # "ended"
  /\ lease' = [lease EXCEPT ![m] = 0]
  /\ Fault
  /\ UNCHANGED <<backlog, dead, deliveries, stage, markers, posts>>

DeadLetter(m) ==
  /\ m \in backlog
  /\ lease[m] = 0
  /\ deliveries[m] = MaxDeliveries
  /\ backlog' = backlog \ {m}
  /\ dead' = dead \union {m}
  /\ UNCHANGED <<deliveries, lease, stage, markers, posts, faults>>

-----------------------------------------------------------------------------
(* The read task of the consumer                                           *)

CheckReceived(m, k) ==
  /\ Step(m, k, {"received"}, Verdict(m))
  /\ UNCHANGED <<queueVars, markers, posts, faults>>

AckDuplicate(m, k) ==
  /\ Step(m, k, {"duplicate"}, "ended")
  /\ backlog' = backlog \ {m}
  /\ UNCHANGED <<dead, deliveries, lease, markers, posts, faults>>

-----------------------------------------------------------------------------
(* process_queue_msg                                                       *)

StartPost(m, k) ==
  /\ Cardinality(InProgress) < ConcurrentItems
  /\ Step(m, k, {"queued"}, "posting")
  /\ UNCHANGED <<queueVars, markers, posts, faults>>

\* The API answers 2xx: the item it returns for the event says accepted or
\* error, and the code does not look: a refused event is answered too.
ApiAnswers(m, k) ==
  /\ Step(m, k, {"posting"}, "answered")
  /\ posts' = [posts EXCEPT ![m] = @ + 1]
  /\ UNCHANGED <<queueVars, markers, faults>>

MutMarkOnly(m, k) ==
  /\ Step(m, k, AckFrom, "marking")
  /\ UNCHANGED <<queueVars, markers, posts, faults>>

Ack(m, k) ==
  /\ Step(m, k, AckFrom, "marking")
  /\ backlog' = backlog \ {m}
  /\ UNCHANGED <<dead, deliveries, lease, markers, posts, faults>>

Mark(m, k) ==
  /\ Step(m, k, {"marking"}, "ended")
  /\ markers' = markers \union {EventOf[m]}
  /\ UNCHANGED <<queueVars, posts, faults>>

Nak(m, k) ==
  /\ Step(m, k, {"refused"}, "ended")
  /\ lease' = [lease EXCEPT ![m] = IF @ = k THEN 0 ELSE @]
  /\ UNCHANGED <<backlog, dead, deliveries, markers, posts, faults>>

-----------------------------------------------------------------------------
(* What can go wrong                                                       *)

\* The request, or its answer on the way back, fails.
PostFails(m, k) ==
  /\ Step(m, k, {"posting", "answered"}, "refused")
  /\ Fault
  /\ UNCHANGED <<queueVars, markers, posts>>

\* Redis or Pub/Sub fails: the error is forwarded or logged, no more.
CallFails(m, k) ==
  /\ Step(m, k, {"received", "duplicate", "answered", "refused", "marking"}, "ended")
  /\ Fault
  /\ UNCHANGED <<queueVars, markers, posts>>

\* With exactly-once delivery a call for a copy whose lease is over fails.
StaleCallFails(m, k) ==
  /\ lease[m] # k
  /\ Step(m, k, {"duplicate", "answered", "refused"}, "ended")
  /\ UNCHANGED <<queueVars, markers, posts, faults>>

\* The `dedup:` key lives ten minutes.
MarkerExpires(e) ==
  /\ e \in markers
  /\ markers' = markers \ {e}
  /\ UNCHANGED <<queueVars, stage, posts, faults>>

\* The process dies or is cancelled: run_until_cancelled drops every copy.
Crash ==
  /\ \E m \in Messages, k \in Copies : stage[m][k] \notin {"none", "ended"}
  /\ stage' = [m \in Messages |-> [k \in Copies |->
                 IF stage[m][k] = "none" THEN "none" ELSE "ended"]]
  /\ Fault
  /\ UNCHANGED <<queueVars, markers, posts>>

-----------------------------------------------------------------------------

\* What happens to a message when no call fails.
Progress(m) ==
  \/ Deliver(m)
  \/ DeadLetter(m)
  \/ \E k \in Copies : \/ CheckReceived(m, k) \/ AckDuplicate(m, k)
                       \/ StartPost(m, k) \/ ApiAnswers(m, k)
                       \/ Ack(m, k) \/ Mark(m, k) \/ Nak(m, k)

Next ==
  \/ \E m \in Messages : Progress(m) \/ LeaseEnds(m) \/ LeaseLost(m)
  \/ \E m \in Messages, k \in Copies : PostFails(m, k) \/ CallFails(m, k) \/ StaleCallFails(m, k)
  \/ \E e \in Events : MarkerExpires(e)
  \/ Crash

Spec == Init /\ [][Next]_vars

\* The runtime polls every task, the subscription ends the lease of a copy
\* that was given up.
FairSpec ==
  /\ Spec
  /\ \A m \in Messages :
       /\ WF_vars(Progress(m))
       /\ WF_vars(LeaseEnds(m))

-----------------------------------------------------------------------------
(* Properties                                                              *)

Posted == {EventOf[m] : m \in {n \in Messages : posts[n] > 0}}

(* A message that decodes is dead-lettered only if each of its deliveries  *)
(* met a fault of its own: the process does not burn deliveries by itself. *)
DeadOnlyAfterFaults ==
  \A m \in dead \ Poison : faults >= MaxDeliveries

(* Posting the event of one message once more takes a fault: a message     *)
(* that was answered is acknowledged, not processed again.                 *)
RepostsNeedFaults == \A m \in Messages : posts[m] <= 1 + faults

(* Once every copy of an event's messages has ended and the event is       *)
(* marked, its messages are acknowledged without another request for as    *)
(* long as the marker lives.                                               *)
Quiet(e) == \A m \in Messages, k \in Copies :
              EventOf[m] = e => stage[m][k] \in {"none", "received", "duplicate", "ended"}

MarkedStaysQuiet ==
  [][\A e \in Events : e \in markers /\ e \in markers' /\ Quiet(e) => Quiet(e)']_vars

Relay == INSTANCE EventRelay WITH posted <- Posted

(* The ingester implements the relay of events, safety ...                 *)
ImplementsRelaySafe == Relay!RelaySafe

(* ... and liveness: under finitely many faults every message leaves the   *)
(* subscription, acknowledged or dead-lettered.                            *)
EveryMessageLeaves == Relay!EveryMessageLeaves
=============================================================================
