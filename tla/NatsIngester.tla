---------------------------- MODULE NatsIngester ----------------------------
(***************************************************************************)
(* The amplifier ingester on NATS JetStream: `Ingester::process_queue_msg` *)
(* (amplifier-ingester/src/lib.rs) over `NatsConsumer`                     *)
(* (infrastructure/src/nats.rs, nats/consumer.rs).                         *)
(*                                                                         *)
(* The events stay in the stream.  Every start of an ingester creates a    *)
(* consumer of its own, with a fresh name and inbox, which gets only the   *)
(* messages published after it (DeliverPolicy::New).  For each consumer    *)
(* the server redelivers a message nobody acknowledged within ack_wait, at *)
(* most max_deliver times and to at most max_ack_pending at once.  It      *)
(* removes a consumer that had no interest for inactive_threshold; the     *)
(* ingester then waits for messages that never come, as it neither gets a  *)
(* new consumer nor ends.  There is no deduplication on this side.  Each   *)
(* action runs from one await to the next, and every call can fail.        *)
(***************************************************************************)
EXTENDS Naturals, FiniteSets

CONSTANTS
  Instances,            \* running ingesters
  MaxMessages,          \* bound: messages ever published
  Poison,               \* messages that do not decode
  ConcurrentItems,      \* `concurrent_queue_items`
  MaxAckPending,        \* `max_ack_pending`
  MaxDeliver,           \* `max_deliver`
  MaxFaults,            \* bound, per instance: failed calls, leases that ran out
  MaxLosses             \* bound: consumers lost, with their process or without

Messages == 1..MaxMessages

ASSUME IngesterAssumption ==
  /\ MaxMessages \in Nat
  /\ Poison \subseteq Messages
  /\ ConcurrentItems \in Nat \ {0}
  /\ MaxAckPending \in Nat \ {0}
  /\ MaxDeliver \in Nat \ {0}
  /\ MaxFaults \in Nat
  /\ MaxLosses \in Nat

VARIABLES
  published,            \* the stream holds the messages 1 .. published
  up,                   \* instances that run
  consumers,            \* instances whose consumer exists on the server
  start,                \* the last message before each consumer
  settled,              \* messages acknowledged on each consumer
  deliveries,           \* how often each consumer delivered each message
  lease,                \* the delivery it waits for, 0 if none
  stage,                \* what the process does with each delivered copy
  acked,                \* messages acknowledged on some consumer
  posts,                \* requests of each instance the API answered, per message
  faults,               \* faults of each instance so far
  losses                \* consumers lost so far

processVars == <<up, consumers, start>>
consumerVars == <<settled, deliveries, lease>>
historyVars == <<acked, posts>>
boundVars == <<faults, losses>>
vars == <<published, processVars, consumerVars, stage, historyVars, boundVars>>

Copies == 1..MaxDeliver

Stages == {"none", "received", "posting", "answered", "refused", "ended"}

\* The stages that hold a slot of for_each_concurrent.
MutSlotsLeak == {"posting", "answered", "refused", "ended"}

Working == {"posting", "answered", "refused"}

NoDeliveries == [m \in Messages |-> 0]
NoCopies == [m \in Messages |-> [k \in Copies |-> "none"]]

Init ==
  /\ published = 0 /\ up = {} /\ consumers = {} /\ acked = {} /\ losses = 0
  /\ start = [i \in Instances |-> 0]
  /\ settled = [i \in Instances |-> {}]
  /\ deliveries = [i \in Instances |-> NoDeliveries]
  /\ lease = [i \in Instances |-> NoDeliveries]
  /\ stage = [i \in Instances |-> NoCopies]
  /\ posts = [i \in Instances |-> NoDeliveries]
  /\ faults = [i \in Instances |-> 0]

-----------------------------------------------------------------------------
(* Helpers                                                                 *)

Fault(i) ==
  /\ faults[i] < MaxFaults
  /\ faults' = [faults EXCEPT ![i] = @ + 1]
  /\ UNCHANGED losses

Loss == losses < MaxLosses /\ losses' = losses + 1 /\ UNCHANGED faults

Step(i, m, k, from, to) ==
  /\ stage[i][m][k] \in from
  /\ stage' = [stage EXCEPT ![i][m][k] = to]

InProgress(i) == {c \in Messages \X Copies : stage[i][c[1]][c[2]] \in Working}

Exhausted(i, m) ==
  /\ i \in consumers
  /\ deliveries[i][m] = MaxDeliver
  /\ lease[i][m] = 0
  /\ m \notin settled[i]

AckPending(i) ==
  {m \in Messages : deliveries[i][m] > 0 /\ m \notin settled[i] /\ ~Exhausted(i, m)}

\* A consumer hands out new messages in order, as long as it may wait for
\* one more, and hands out again those nobody settled.
MutMayDeliverAgain(i, m) ==
  /\ m > start[i] /\ m <= published
  /\ lease[i][m] = 0
  /\ deliveries[i][m] < MaxDeliver
  /\ deliveries[i][m] = 0 => Cardinality(AckPending(i)) < MaxAckPending

MayDeliver(i, m) ==
  /\ m > start[i] /\ m <= published
  /\ m \notin settled[i]
  /\ lease[i][m] = 0
  /\ deliveries[i][m] < MaxDeliver
  /\ deliveries[i][m] = 0 =>
       /\ Cardinality(AckPending(i)) < MaxAckPending
       /\ \A n \in Messages : n > start[i] /\ n < m => deliveries[i][n] > 0

\* What a copy may be in when the message is acknowledged.
MutAckWhenRefused == {"answered", "refused"}

AckFrom == {"answered"}

-----------------------------------------------------------------------------
(* The stream and its consumers                                            *)

Publish ==
  /\ published < MaxMessages
  /\ published' = published + 1
  /\ UNCHANGED <<processVars, consumerVars, stage, historyVars, boundVars>>

CreateConsumer(i) ==
  /\ i \notin up
  /\ up' = up \union {i}
  /\ consumers' = consumers \union {i}
  /\ start' = [start EXCEPT ![i] = published]
  /\ settled' = [settled EXCEPT ![i] = {}]
  /\ deliveries' = [deliveries EXCEPT ![i] = NoDeliveries]
  /\ lease' = [lease EXCEPT ![i] = NoDeliveries]
  /\ UNCHANGED <<published, stage, historyVars, boundVars>>

Deliver(i, m) ==
  /\ i \in consumers
  /\ MayDeliver(i, m)
  /\ deliveries' = [deliveries EXCEPT ![i][m] = @ + 1]
  /\ lease' = [lease EXCEPT ![i][m] = deliveries[i][m] + 1]
  /\ stage' = [stage EXCEPT ![i][m][deliveries[i][m] + 1] = "received"]
  /\ UNCHANGED <<published, processVars, settled, historyVars, boundVars>>

AckWaitEnds(i, m) ==
  /\ lease[i][m] # 0
  /\ stage[i][m][lease[i][m]] = "ended"
  /\ lease' = [lease EXCEPT ![i][m] = 0]
  /\ UNCHANGED <<published, processVars, settled, deliveries, stage, historyVars, boundVars>>

\* ack_wait passes while the process still has the copy.
AckWaitTooShort(i, m) ==
  /\ lease[i][m] # 0
  /\ stage[i][m][lease[i][m]] \in {"received"} \union Working
  /\ lease' = [lease EXCEPT ![i][m] = 0]
  /\ Fault(i)
  /\ UNCHANGED <<published, processVars, settled, deliveries, stage, historyVars>>

-----------------------------------------------------------------------------
(* process_queue_msg                                                       *)

\* for_each_concurrent takes the next item; an Err item is only logged.
TakeItem(i, m, k) ==
  /\ Cardinality(InProgress(i)) < ConcurrentItems
  /\ Step(i, m, k, {"received"}, IF m \in Poison THEN "ended" ELSE "posting")
  /\ UNCHANGED <<published, processVars, consumerVars, historyVars, boundVars>>

ApiAnswers(i, m, k) ==
  /\ Step(i, m, k, {"posting"}, "answered")
  /\ posts' = [posts EXCEPT ![i][m] = @ + 1]
  /\ UNCHANGED <<published, processVars, consumerVars, acked, boundVars>>

\* ack_with sends to the consumer, which may be gone.
Ack(i, m, k) ==
  /\ Step(i, m, k, AckFrom, "ended")
  /\ lease' = [lease EXCEPT ![i][m] = 0]
  /\ IF i \in consumers
       THEN /\ settled' = [settled EXCEPT ![i] = @ \union {m}]
            /\ acked' = acked \union {m}
       ELSE UNCHANGED <<settled, acked>>
  /\ UNCHANGED <<published, processVars, deliveries, posts, boundVars>>

Nak(i, m, k) ==
  /\ Step(i, m, k, {"refused"}, "ended")
  /\ lease' = [lease EXCEPT ![i][m] = IF @ = k THEN 0 ELSE @]
  /\ UNCHANGED <<published, processVars, settled, deliveries, historyVars, boundVars>>

-----------------------------------------------------------------------------
(* What can go wrong                                                       *)

\* The request, or its answer on the way back, fails.
PostFails(i, m, k) ==
  /\ Step(i, m, k, {"posting", "answered"}, "refused")
  /\ Fault(i)
  /\ UNCHANGED <<published, processVars, consumerVars, historyVars>>

\* ack_with only sends: an acknowledgement can get lost.
AckLost(i, m, k) ==
  /\ Step(i, m, k, {"answered", "refused"}, "ended")
  /\ Fault(i)
  /\ UNCHANGED <<published, processVars, consumerVars, historyVars>>

\* The server saw no interest in the consumer for inactive_threshold, after a
\* lost connection: the copies it delivered are all the process ever gets.
ConsumerRemoved(i) ==
  /\ i \in consumers
  /\ Loss
  /\ consumers' = consumers \ {i}
  /\ lease' = [lease EXCEPT ![i] = NoDeliveries]
  /\ UNCHANGED <<published, up, start, settled, deliveries, stage, historyVars>>

\* The process ends; its consumer has nobody to deliver to any more.
Crash(i) ==
  /\ i \in up
  /\ Loss
  /\ up' = up \ {i}
  /\ consumers' = consumers \ {i}
  /\ stage' = [stage EXCEPT ![i] = NoCopies]
  /\ lease' = [lease EXCEPT ![i] = NoDeliveries]
  /\ UNCHANGED <<published, start, settled, deliveries, historyVars>>

-----------------------------------------------------------------------------

\* What happens to a message when no call fails.
Progress(i, m) ==
  \/ Deliver(i, m)
  \/ AckWaitEnds(i, m)
  \/ \E k \in Copies : \/ TakeItem(i, m, k) \/ ApiAnswers(i, m, k)
                       \/ Ack(i, m, k) \/ Nak(i, m, k)

Failure(i, m) ==
  \/ AckWaitTooShort(i, m)
  \/ \E k \in Copies : PostFails(i, m, k) \/ AckLost(i, m, k)

Next ==
  \/ Publish
  \/ \E i \in Instances : CreateConsumer(i) \/ ConsumerRemoved(i) \/ Crash(i)
  \/ \E i \in Instances, m \in Messages : Progress(i, m) \/ Failure(i, m)

Spec == Init /\ [][Next]_vars

\* A process that is down is started again, the runtime polls every task.
\* Nothing brings back a consumer whose process is up.
FairSpec ==
  /\ Spec
  /\ \A i \in Instances :
       /\ WF_vars(CreateConsumer(i))
       /\ \A m \in Messages : WF_vars(Progress(i, m))

-----------------------------------------------------------------------------
(* Properties                                                              *)

TypeOK ==
  /\ published \in 0..MaxMessages
  /\ up \subseteq Instances
  /\ consumers \subseteq up
  /\ start \in [Instances -> 0..MaxMessages]
  /\ settled \in [Instances -> SUBSET Messages]
  /\ deliveries \in [Instances -> [Messages -> 0..MaxDeliver]]
  /\ lease \in [Instances -> [Messages -> 0..MaxDeliver]]
  /\ stage \in [Instances -> [Messages -> [Copies -> Stages]]]
  /\ acked \subseteq Messages
  /\ posts \in [Instances -> [Messages -> Nat]]
  /\ faults \in [Instances -> 0..MaxFaults]
  /\ losses \in 0..MaxLosses

(* Every request an instance repeats for a message is paid for by a fault  *)
(* of that instance: what its consumer has an acknowledgement for is not   *)
(* handed out again, and overlapping copies need a lease that ran out.  A  *)
(* lost consumer pays for none: the new one starts after everything the    *)
(* old one could have posted.                                              *)
RepostsNeedFaults ==
  \A i \in Instances, m \in Messages : posts[i][m] <= 1 + faults[i]

(* connect_consumer (nats/connectors.rs): "Multiple consumers in the same  *)
(* delivery group will load balance messages between them".  Then, unless  *)
(* something fails, one instance posts the event of a message.             *)
GroupSharesMessages ==
  (losses = 0 /\ \A i \in Instances : faults[i] = 0)
    => \A m \in Messages : Cardinality({i \in Instances : posts[i][m] > 0}) <= 1

(* As long as the consumer of an instance exists, every message published  *)
(* after its creation is acknowledged or delivered max_deliver times, also *)
(* behind messages that do not decode and fill up max_ack_pending.         *)
ConsumerMessagesSettle ==
  \A i \in Instances, m \in Messages :
    (i \in consumers /\ start[i] < m /\ m <= published)
      ~> (m \in settled[i] \/ Exhausted(i, m) \/ i \notin consumers)

(* README of infrastructure: "Message Acknowledgment: Ensures reliable     *)
(* message processing with at-least-once delivery".  A message published   *)
(* while no ingester has a consumer, or not acknowledged on one that is    *)
(* lost, is delivered to no consumer any more.                             *)
EveryMessageSettles ==
  \A m \in Messages :
    (published >= m) ~> (m \in acked \/ \E i \in Instances : Exhausted(i, m))

\* The queue counts a message as handled once some consumer has its
\* acknowledgement.
Relay == INSTANCE EventRelay WITH
           EventOf <- [m \in Messages |-> m],
           backlog <- Messages \ acked,
           dead <- {},
           posted <- {m \in Messages : \E i \in Instances : posts[i][m] > 0}

(* The ingesters implement the relay of events: what is acknowledged was   *)
(* posted, across restarts and with several instances.                     *)
ImplementsRelaySafe == Relay!RelaySafe
=============================================================================
