------------------------ MODULE GcpSubscriberProofs -------------------------
(***************************************************************************)
(* For every number of tasks, page limit, assignment of timestamps, set of *)
(* subscribers and number of faults: the id saved in Redis never runs      *)
(* ahead of the topic, and the subscriber implements the safety part of    *)
(* TaskRelay.                                                              *)
(***************************************************************************)
EXTENDS GcpSubscriber, TLAPS

\* A batch is one contiguous page that starts after the task it resumed from.
Holding == {"fetched", "confirming", "saving"}

PageInv(s) ==
  pc[s] \in Holding =>
    \E n \in 1..Limit :
      /\ after[s] + n <= created
      /\ Len(batch[s]) = n
      /\ Contents(batch[s]) = PageAfter(after[s], n)

\* What a subscriber resumed from, and what it saw confirmed, is in the topic.
TopicInv(s) ==
  /\ 1..after[s] \subseteq topic
  /\ \A t \in Tasks : handle[s][t] = "sent" => t \in topic
  /\ pc[s] = "saving" => Contents(batch[s]) \subseteq topic

\* Nothing is published that the API did not create.
CreatedInv ==
  /\ topic \subseteq 1..created
  /\ stray \subseteq 1..created
  /\ \A s \in Subscribers, t \in Tasks : handle[s][t] # "none" => t <= created

IInv ==
  /\ TypeOK
  /\ NoTaskSkipped
  /\ CreatedInv
  /\ \A s \in Subscribers : PageInv(s) /\ TopicInv(s)

-----------------------------------------------------------------------------

\* Every order the sort can leave a page in is a sequence with exactly the
\* tasks of the page.
LEMMA SortedPage ==
  ASSUME NEW a \in Nat, NEW n \in Nat \ {0}, a + n <= MaxTasks,
         NEW q \in Sorted(PageAfter(a, n), n)
  PROVE  q \in Seq(Tasks) /\ Len(q) = n /\ Contents(q) = PageAfter(a, n)
<1>1. PageAfter(a, n) \subseteq Tasks
  BY SubscriberAssumption DEF PageAfter, Tasks
<1>2. q \in [1..n -> PageAfter(a, n)] /\ PageAfter(a, n) = {q[i] : i \in 1..n}
  BY DEF Sorted
<1>3. q \in [1..n -> Tasks]
  BY <1>1, <1>2
<1>4. q \in Seq(Tasks) /\ Len(q) = n
  BY <1>3
<1>. QED
  BY <1>2, <1>4 DEF Contents

\* The last task of a held batch is one of its page.
LEMMA LastOfPage ==
  ASSUME TypeOK, NEW s \in Subscribers, PageInv(s), pc[s] \in Holding
  PROVE  /\ Last(batch[s]) \in Contents(batch[s])
         /\ Last(batch[s]) \in 1..created
         /\ Last(batch[s]) > after[s]
         /\ \A t \in 1..Last(batch[s]) : t \in 1..after[s] \/ t \in Contents(batch[s])
<1>1. PICK n \in 1..Limit :
        /\ after[s] + n <= created
        /\ Len(batch[s]) = n
        /\ Contents(batch[s]) = PageAfter(after[s], n)
  BY DEF PageInv
<1>2. n \in Nat \ {0} /\ after[s] \in Nat /\ created \in Nat
  BY SubscriberAssumption DEF TypeOK
<1>3. Last(batch[s]) \in Contents(batch[s])
  BY <1>1, <1>2 DEF Last, Contents
<1>. QED
  BY <1>1, <1>2, <1>3 DEF PageAfter

\* Nothing is held or published at the start.
LEMMA InitIInv == Init => IInv
BY SubscriberAssumption
   DEF Init, IInv, TypeOK, NoTaskSkipped, CreatedInv, PageInv, TopicInv,
       Holding, NoHandles, Stages, HandleStates, Tasks

-----------------------------------------------------------------------------
(* One lemma per kind of step: what it leaves alone is the same for all.   *)

\* The topic and the tasks created only grow, and nobody but s moves.
LEMMA OthersKeep ==
  ASSUME IInv, NEW s \in Subscribers,
         created' \in Nat, created <= created', topic \subseteq topic',
         pc'[s] = pc[s], after'[s] = after[s], batch'[s] = batch[s],
         handle'[s] = handle[s]
  PROVE  PageInv(s)' /\ TopicInv(s)'
<1>1. PageInv(s)'
  <2>. SUFFICES ASSUME pc'[s] \in Holding
                PROVE \E n \in 1..Limit :
                        /\ after'[s] + n <= created'
                        /\ Len(batch'[s]) = n
                        /\ Contents(batch'[s]) = PageAfter(after'[s], n)
    BY DEF PageInv, Contents, PageAfter
  <2>1. PICK n \in 1..Limit :
          /\ after[s] + n <= created
          /\ Len(batch[s]) = n
          /\ Contents(batch[s]) = PageAfter(after[s], n)
    BY DEF IInv, PageInv
  <2>2. after[s] \in Nat /\ created \in Nat /\ n \in Nat
    BY SubscriberAssumption DEF IInv, TypeOK
  <2>. QED
    BY <2>1, <2>2
<1>2. TopicInv(s)'
  BY DEF IInv, TopicInv, Contents
<1>. QED  BY <1>1, <1>2

\* A subscriber that returns holds nothing.
LEMMA ReturnKeeps ==
  ASSUME IInv, NEW s \in Subscribers, Return(s), UNCHANGED <<created, topic>>,
         cursor' \in 0..MaxTasks, 1..cursor' \subseteq topic, faults' \in 0..MaxFaults
  PROVE  IInv'
<1>1. TypeOK'
  <2>1. stray' \subseteq Tasks
    BY DEF IInv, TypeOK, Return
  <2>2. pc' \in [Subscribers -> Stages]
    BY DEF IInv, TypeOK, Return, Goto, Stages
  <2>3. batch' \in [Subscribers -> Seq(Tasks)]
    <3>1. <<>> \in Seq(Tasks)
      OBVIOUS
    <3>. QED  BY <3>1 DEF IInv, TypeOK, Return
  <2>4. handle' \in [Subscribers -> [Tasks -> HandleStates]]
    <3>1. NoHandles \in [Tasks -> HandleStates]
      BY DEF NoHandles, HandleStates
    <3>. QED  BY <3>1 DEF IInv, TypeOK, Return
  <2>. QED
    BY <2>1, <2>2, <2>3, <2>4 DEF IInv, TypeOK, Return
<1>2. NoTaskSkipped'
  BY DEF NoTaskSkipped
<1>3. CreatedInv'
  <2>1. stray' \subseteq 1..created
    <3>. SUFFICES ASSUME NEW t \in stray'  PROVE t \in 1..created
      OBVIOUS
    <3>1. CASE t \in stray
      BY <3>1 DEF IInv, CreatedInv
    <3>2. CASE t \in Tasks /\ handle[s][t] = "pending"
      BY <3>2, SubscriberAssumption DEF IInv, TypeOK, CreatedInv, Tasks
    <3>. QED  BY <3>1, <3>2 DEF Return
  <2>2. \A r \in Subscribers, t \in Tasks : handle'[r][t] # "none" => t <= created
    BY DEF IInv, TypeOK, CreatedInv, Return, NoHandles
  <2>. QED
    BY <2>1, <2>2 DEF IInv, CreatedInv
<1>4. ASSUME NEW r \in Subscribers
      PROVE PageInv(r)' /\ TopicInv(r)'
  <2>1. CASE r = s
    <3>1. pc'[s] = "idle" /\ after' = after /\ handle'[s] = NoHandles
      BY DEF IInv, TypeOK, Return, Goto
    <3>. QED
      BY <2>1, <3>1 DEF IInv, PageInv, TopicInv, Holding, NoHandles
  <2>2. CASE r # s
    <3>1. pc'[r] = pc[r] /\ after'[r] = after[r] /\ batch'[r] = batch[r]
          /\ handle'[r] = handle[r]
      BY <2>2 DEF IInv, TypeOK, Return, Goto
    <3>. QED
      BY <3>1, OthersKeep DEF IInv, TypeOK
  <2>. QED  BY <2>1, <2>2
<1>. QED  BY <1>1, <1>2, <1>3, <1>4 DEF IInv

\* A step of s, once it is shown to keep what concerns s, keeps the invariant.
LEMMA StepKeeps ==
  ASSUME IInv, NEW s \in Subscribers,
         TypeOK', NoTaskSkipped', CreatedInv', PageInv(s)', TopicInv(s)',
         created' = created, topic \subseteq topic',
         \A r \in Subscribers \ {s} :
           /\ pc'[r] = pc[r] /\ after'[r] = after[r]
           /\ batch'[r] = batch[r] /\ handle'[r] = handle[r]
  PROVE  IInv'
<1>1. ASSUME NEW r \in Subscribers
      PROVE PageInv(r)' /\ TopicInv(r)'
  <2>1. CASE r = s
    BY <2>1
  <2>2. CASE r # s
    BY <2>2, OthersKeep DEF IInv, TypeOK
  <2>. QED  BY <2>1, <2>2
<1>. QED  BY <1>1 DEF IInv

\* A bundle that reaches the topic, or is lost, on its way there.
LEMMA BundleKeeps ==
  ASSUME IInv, NEW s \in Subscribers, NEW t \in Tasks, NEW h \in {"sent", "failed"},
         handle[s][t] = "pending", handle' = [handle EXCEPT ![s][t] = h],
         h = "sent" => topic' = topic \union {t},
         topic' \in {topic, topic \union {t}}, faults' \in 0..MaxFaults,
         UNCHANGED <<created, cursor, stray, pc, after, batch>>
  PROVE  IInv'
<1>1. /\ handle \in [Subscribers -> [Tasks -> HandleStates]]
      /\ handle' \in [Subscribers -> [Tasks -> HandleStates]]
  BY DEF IInv, TypeOK, HandleStates
<1>2. t <= created
  BY DEF IInv, CreatedInv
<1>3. TypeOK' /\ NoTaskSkipped'
  BY <1>1 DEF IInv, TypeOK, NoTaskSkipped
<1>4. CreatedInv'
  <2>1. topic' \subseteq 1..created
    BY <1>2, SubscriberAssumption DEF IInv, TypeOK, CreatedInv, Tasks
  <2>2. ASSUME NEW r \in Subscribers, NEW u \in Tasks, handle'[r][u] # "none"
        PROVE u <= created
    BY <1>1, <1>2, <2>2 DEF IInv, CreatedInv
  <2>. QED
    BY <2>1, <2>2 DEF IInv, CreatedInv
<1>5. PageInv(s)'
  <2>. SUFFICES ASSUME pc[s] \in Holding
                PROVE PageInv(s)'
    BY DEF PageInv
  <2>. QED
    BY DEF IInv, PageInv, Contents, PageAfter
<1>6. TopicInv(s)'
  <2>1. \A u \in Tasks : handle'[s][u] = "sent" => u \in topic'
    BY <1>1 DEF IInv, TopicInv
  <2>. QED
    BY <2>1 DEF IInv, TopicInv, Contents
<1>7. \A r \in Subscribers \ {s} : handle'[r] = handle[r]
  BY <1>1
<1>. QED
  BY <1>3, <1>4, <1>5, <1>6, <1>7, StepKeeps

-----------------------------------------------------------------------------

\* Every step keeps the invariant, action by action.
LEMMA NextIInv == IInv /\ [Next]_vars => IInv'
<1>. SUFFICES ASSUME IInv, [Next]_vars
              PROVE IInv'
  OBVIOUS
<1>. USE SubscriberAssumption
<1>1. CASE CreateTask
  <2>1. TypeOK' /\ NoTaskSkipped' /\ CreatedInv'
    BY <1>1 DEF IInv, CreateTask, TypeOK, NoTaskSkipped, CreatedInv, procVars, Tasks
  <2>2. \A r \in Subscribers : PageInv(r)' /\ TopicInv(r)'
    BY <1>1, OthersKeep DEF CreateTask, IInv, TypeOK, procVars
  <2>. QED  BY <2>1, <2>2 DEF IInv
<1>2. ASSUME NEW s \in Subscribers, PeekLast(s)
      PROVE IInv'
  <2>1. TypeOK' /\ NoTaskSkipped' /\ CreatedInv'
    BY <1>2 DEF IInv, PeekLast, Goto, TypeOK, NoTaskSkipped, CreatedInv, Stages
  <2>2. PageInv(s)' /\ TopicInv(s)'
    <3>1. pc'[s] = "peeked" /\ after'[s] = cursor /\ handle' = handle /\ topic' = topic
      BY <1>2 DEF IInv, TypeOK, PeekLast, Goto
    <3>. QED
      BY <3>1 DEF IInv, PageInv, TopicInv, Holding, NoTaskSkipped
  <2>3. \A r \in Subscribers \ {s} : pc'[r] = pc[r] /\ after'[r] = after[r]
    BY <1>2 DEF IInv, TypeOK, PeekLast, Goto
  <2>. QED
    BY <1>2, <2>1, <2>2, <2>3, StepKeeps DEF PeekLast
<1>3. ASSUME NEW s \in Subscribers, FetchTasks(s)
      PROVE IInv'
  <2>. DEFINE n == PageSize(after[s])
  <2>1. after[s] \in Nat /\ created \in Nat /\ n \in Nat \ {0}
        /\ n <= Limit /\ after[s] + n <= created /\ created <= MaxTasks
    BY <1>3 DEF IInv, TypeOK, FetchTasks, PageSize
  <2>2. PICK q \in Sorted(PageAfter(after[s], n), n) : batch' = [batch EXCEPT ![s] = q]
    BY <1>3 DEF FetchTasks
  <2>3. q \in Seq(Tasks) /\ Len(q) = n /\ Contents(q) = PageAfter(after[s], n)
    <3>. HIDE DEF n
    <3>. QED  BY <2>1, <2>2, SortedPage
  <2>4. /\ pc'[s] = "fetched" /\ batch'[s] = q
        /\ UNCHANGED <<created, cursor, topic, stray, after, handle, faults>>
    BY <1>3, <2>2 DEF FetchTasks, Goto, IInv, TypeOK
  <2>5. TypeOK' /\ NoTaskSkipped' /\ CreatedInv'
    BY <1>3, <2>2, <2>3 DEF IInv, FetchTasks, Goto, TypeOK, NoTaskSkipped, CreatedInv, Stages
  <2>6. PageInv(s)'
    <3>1. n \in 1..Limit
      BY <2>1
    <3>2. Contents(batch[s])' = Contents(q)
      BY <2>4 DEF Contents
    <3>3. after'[s] + n <= created' /\ Len(batch'[s]) = n
          /\ Contents(batch[s])' = PageAfter(after'[s], n)
      <4>. HIDE DEF n
      <4>. QED  BY <2>1, <2>3, <2>4, <3>2 DEF PageAfter
    <3>. HIDE DEF n
    <3>. QED  BY <3>1, <3>3 DEF PageInv
  <2>7. TopicInv(s)'
    BY <2>4 DEF IInv, TopicInv
  <2>8. \A r \in Subscribers \ {s} : pc'[r] = pc[r] /\ batch'[r] = batch[r]
    BY <1>3, <2>2 DEF IInv, TypeOK, FetchTasks, Goto
  <2>. QED
    BY <2>4, <2>5, <2>6, <2>7, <2>8, StepKeeps
<1>4. ASSUME NEW s \in Subscribers, FetchNothing(s)
      PROVE IInv'
  BY <1>4, ReturnKeeps DEF FetchNothing, IInv, TypeOK, NoTaskSkipped
<1>5. ASSUME NEW s \in Subscribers, PublishBulk(s)
      PROVE IInv'
  <2>1. /\ pc[s] = "fetched" /\ pc'[s] = "confirming"
        /\ handle' \in [Subscribers -> [Tasks -> HandleStates]]
        /\ \A t \in Tasks : handle'[s][t] = IF t \in Contents(batch[s]) THEN "pending" ELSE "none"
        /\ UNCHANGED <<created, cursor, topic, stray, after, batch, faults>>
    BY <1>5 DEF PublishBulk, Goto, IInv, TypeOK, HandleStates
  <2>2. \A r \in Subscribers \ {s} : pc'[r] = pc[r] /\ handle'[r] = handle[r]
    BY <1>5 DEF PublishBulk, Goto, IInv, TypeOK
  <2>3. TypeOK' /\ NoTaskSkipped'
    BY <1>5, <2>1 DEF IInv, TypeOK, NoTaskSkipped, PublishBulk, Goto, Stages
  <2>4. \A t \in Contents(batch[s]) : t <= created
    <3>1. PICK n \in 1..Limit :
            after[s] + n <= created /\ Contents(batch[s]) = PageAfter(after[s], n)
      BY <2>1 DEF IInv, PageInv, Holding
    <3>2. after[s] \in Nat /\ created \in Nat /\ n \in Nat
      BY DEF IInv, TypeOK
    <3>. QED  BY <3>1, <3>2 DEF PageAfter
  <2>5. CreatedInv'
    <3>1. ASSUME NEW r \in Subscribers, NEW t \in Tasks, handle'[r][t] # "none"
          PROVE t <= created
      <4>1. CASE r = s
        BY <2>1, <2>4, <3>1, <4>1
      <4>2. CASE r # s
        BY <2>2, <3>1, <4>2 DEF IInv, CreatedInv
      <4>. QED  BY <4>1, <4>2
    <3>. QED  BY <2>1, <3>1 DEF IInv, CreatedInv
  <2>6. PageInv(s)'
    BY <2>1 DEF IInv, PageInv, Holding, Contents, PageAfter
  <2>7. TopicInv(s)'
    BY <2>1 DEF IInv, TopicInv
  <2>. QED
    BY <2>1, <2>2, <2>3, <2>5, <2>6, <2>7, StepKeeps
<1>6. ASSUME NEW s \in Subscribers, ConfirmBatch(s)
      PROVE IInv'
  <2>1. /\ pc[s] = "confirming" /\ pc'[s] = "saving"
        /\ UNCHANGED <<created, cursor, topic, stray, after, batch, handle, faults>>
    BY <1>6 DEF ConfirmBatch, Goto, IInv, TypeOK
  <2>2. TypeOK' /\ NoTaskSkipped' /\ CreatedInv'
    BY <1>6, <2>1 DEF IInv, TypeOK, NoTaskSkipped, CreatedInv, ConfirmBatch, Goto, Stages
  <2>3. PageInv(s)'
    <3>1. PICK n \in 1..Limit :
            /\ after[s] + n <= created
            /\ Len(batch[s]) = n
            /\ Contents(batch[s]) = PageAfter(after[s], n)
      BY <2>1 DEF IInv, PageInv, Holding
    <3>2. Contents(batch[s])' = Contents(batch[s])
      BY <2>1 DEF Contents
    <3>. QED
      BY <2>1, <3>1, <3>2 DEF PageInv, PageAfter
  <2>4. Contents(batch[s]) \subseteq topic
    <3>1. Contents(batch[s]) \subseteq Tasks
      BY DEF IInv, TypeOK, Contents
    <3>2. \A t \in Contents(batch[s]) : handle[s][t] = "sent"
      BY <1>6 DEF ConfirmBatch, AllSent
    <3>. QED  BY <3>1, <3>2 DEF IInv, TopicInv
  <2>5. TopicInv(s)'
    BY <2>1, <2>4 DEF IInv, TopicInv, Contents
  <2>6. \A r \in Subscribers \ {s} : pc'[r] = pc[r]
    BY <1>6 DEF ConfirmBatch, Goto, IInv, TypeOK
  <2>. QED
    BY <2>1, <2>2, <2>3, <2>5, <2>6, StepKeeps
<1>7. ASSUME NEW s \in Subscribers, AbandonBatch(s)
      PROVE IInv'
  BY <1>7, ReturnKeeps DEF AbandonBatch, IInv, TypeOK, NoTaskSkipped
<1>8. ASSUME NEW s \in Subscribers, SaveLastId(s) \/ SaveFails(s)
      PROVE IInv'
  <2>1. pc[s] = "saving" /\ Return(s) /\ cursor' \in {cursor, Last(batch[s])}
        /\ faults' \in 0..MaxFaults /\ UNCHANGED <<created, topic>>
    BY <1>8 DEF SaveLastId, SaveFails, Fault, IInv, TypeOK
  <2>2. /\ Last(batch[s]) \in 1..created
        /\ \A t \in 1..Last(batch[s]) : t \in 1..after[s] \/ t \in Contents(batch[s])
    BY <2>1, LastOfPage DEF IInv, Holding
  <2>3. 1..Last(batch[s]) \subseteq topic
    BY <2>1, <2>2 DEF IInv, TopicInv
  <2>4. cursor' \in 0..MaxTasks /\ 1..cursor' \subseteq topic
    <3>1. Last(batch[s]) \in 0..MaxTasks
      BY <2>2 DEF IInv, TypeOK
    <3>2. cursor \in 0..MaxTasks /\ 1..cursor \subseteq topic
      BY DEF IInv, TypeOK, NoTaskSkipped
    <3>. QED  BY <2>1, <2>3, <3>1, <3>2
  <2>. QED
    BY <2>1, <2>4, ReturnKeeps
<1>9. ASSUME NEW s \in Subscribers, CallFailsOrCrash(s)
      PROVE IInv'
  <2>1. faults' \in 0..MaxFaults
    BY <1>9 DEF CallFailsOrCrash, Fault, IInv, TypeOK
  <2>. QED
    BY <1>9, <2>1, ReturnKeeps DEF CallFailsOrCrash, IInv, TypeOK, NoTaskSkipped
<1>10. ASSUME NEW s \in Subscribers, NEW t \in Tasks, BundleSent(s, t)
       PROVE IInv'
  BY <1>10, BundleKeeps DEF BundleSent, IInv, TypeOK
<1>11. ASSUME NEW s \in Subscribers, NEW t \in Tasks, BundleFails(s, t)
       PROVE IInv'
  <2>1. faults' \in 0..MaxFaults
    BY <1>11 DEF BundleFails, Fault, IInv, TypeOK
  <2>. QED
    BY <1>11, <2>1, BundleKeeps DEF BundleFails
<1>12. ASSUME NEW t \in Tasks, StrayEnds(t)
       PROVE IInv'
  <2>1. TypeOK' /\ NoTaskSkipped' /\ CreatedInv'
    BY <1>12 DEF IInv, StrayEnds, TypeOK, NoTaskSkipped, CreatedInv, procVars
  <2>2. \A r \in Subscribers : PageInv(r)' /\ TopicInv(r)'
    BY <1>12, OthersKeep DEF StrayEnds, IInv, TypeOK, procVars
  <2>. QED  BY <2>1, <2>2 DEF IInv
<1>13. CASE UNCHANGED vars
  <2>1. TypeOK' /\ NoTaskSkipped' /\ CreatedInv'
    BY <1>13 DEF IInv, TypeOK, NoTaskSkipped, CreatedInv, vars, procVars
  <2>2. \A r \in Subscribers : PageInv(r)' /\ TopicInv(r)'
    BY <1>13, OthersKeep DEF IInv, TypeOK, vars, procVars
  <2>. QED  BY <2>1, <2>2 DEF IInv
<1>. QED
  BY <1>1, <1>2, <1>3, <1>4, <1>5, <1>6, <1>7, <1>8, <1>9, <1>10, <1>11, <1>12, <1>13
     DEF Next, Progress, Failure

(* In every reachable state the variables have their types, and the        *)
(* strengthening the other theorems rest on holds.                         *)
THEOREM Invariance == Spec => []IInv
BY InitIInv, NextIInv, PTL DEF Spec

(* The values `subscribe` and `publish_batch` work with have their types.  *)
THEOREM TypeCorrect == Spec => []TypeOK
<1>1. IInv => TypeOK
  BY DEF IInv
<1>. QED  BY <1>1, Invariance, PTL

(* publish_batch saves the last id only after every handle is confirmed,   *)
(* so no task up to the id in Redis is missing from the topic: whatever    *)
(* fails, however timestamps are ordered, and with any number of instances *)
(* sharing the key.                                                        *)
THEOREM NothingSkipped == Spec => []NoTaskSkipped
<1>1. IInv => NoTaskSkipped
  BY DEF IInv
<1>. QED  BY <1>1, Invariance, PTL

(* A page starts after the task the instance resumed from, so a save moves *)
(* the id back only if it is no longer the one that peek_last returned.    *)
THEOREM NoRewind == Spec => RewindOnlyWhenOvertaken
<1>1. ASSUME IInv, [Next]_vars, cursor' < cursor
      PROVE  \E s \in Subscribers : pc[s] = "saving" /\ after[s] # cursor
  <2>1. cursor \in Nat /\ cursor' # cursor
    BY <1>1, SubscriberAssumption DEF IInv, TypeOK
  <2>2. PICK s \in Subscribers : SaveLastId(s) \/ SaveFails(s)
    BY <1>1, <2>1
       DEF Next, Progress, Failure, vars, CreateTask, PeekLast, FetchTasks, FetchNothing,
           PublishBulk, ConfirmBatch, AbandonBatch, CallFailsOrCrash, BundleSent,
           BundleFails, StrayEnds
  <2>3. pc[s] = "saving" /\ cursor' = Last(batch[s])
    BY <2>1, <2>2 DEF SaveLastId, SaveFails
  <2>4. Last(batch[s]) > after[s]
    BY <1>1, <2>3, LastOfPage DEF IInv, Holding
  <2>5. after[s] \in Nat /\ Last(batch[s]) \in Nat
    BY <1>1, <2>3, LastOfPage DEF IInv, Holding, TypeOK
  <2>6. after[s] < cursor
    BY <1>1, <2>1, <2>3, <2>4, <2>5
  <2>. QED
    BY <2>1, <2>3, <2>5, <2>6
<1>2. IInv /\ [Next]_vars => [cursor' < cursor =>
        \E s \in Subscribers : pc[s] = "saving" /\ after[s] # cursor]_cursor
  BY <1>1
<1>. QED
  BY <1>2, Invariance, PTL DEF Spec, RewindOnlyWhenOvertaken

-----------------------------------------------------------------------------

\* A bundle that gets through is Relay's Enqueue, a saved id its Resume.
LEMMA EnqueueStep ==
  ASSUME IInv, NEW t \in 1..created, topic' = topic \union {t},
         cursor' = cursor, created' = created
  PROVE  Relay!RelayNext
BY DEF IInv, NoTaskSkipped, Relay!RelayNext, Relay!Enqueue

\* ... and saving the id of a task up to which all are queued is Resume.
LEMMA ResumeStep ==
  ASSUME NEW t \in 1..created, 1..t \subseteq topic, cursor' = t,
         topic' = topic, created' = created
  PROVE  Relay!RelayNext
BY DEF Relay!RelayNext, Relay!Resume

\* Every step maps to a step of the relay or leaves it alone.
LEMMA StepRefines == IInv /\ IInv' /\ [Next]_vars => [Relay!RelayNext]_Relay!relayVars
<1>. SUFFICES ASSUME IInv, IInv', [Next]_vars, ~UNCHANGED <<created, topic, cursor>>
              PROVE Relay!RelayNext
  BY DEF Relay!relayVars
<1>. USE SubscriberAssumption
<1>1. CASE CreateTask
  BY <1>1 DEF CreateTask, Relay!RelayNext, Relay!Create
<1>2. ASSUME NEW s \in Subscribers, SaveLastId(s) \/ SaveFails(s)
      PROVE Relay!RelayNext
  <2>1. pc[s] = "saving" /\ cursor' = Last(batch[s]) /\ UNCHANGED <<created, topic>>
    BY <1>2 DEF SaveLastId, SaveFails
  <2>2. Last(batch[s]) \in 1..created
    BY <2>1, LastOfPage DEF IInv, Holding
  <2>3. 1..Last(batch[s]) \subseteq topic
    BY <2>1 DEF IInv, NoTaskSkipped
  <2>. QED
    BY <2>1, <2>2, <2>3, ResumeStep
<1>3. ASSUME NEW s \in Subscribers, NEW t \in Tasks, BundleSent(s, t) \/ BundleFails(s, t)
      PROVE Relay!RelayNext
  <2>1. t \in 1..created
    BY <1>3 DEF BundleSent, BundleFails, IInv, TypeOK, CreatedInv, Tasks
  <2>. QED
    BY <1>3, <2>1, EnqueueStep DEF BundleSent, BundleFails
<1>4. ASSUME NEW t \in Tasks, StrayEnds(t)
      PROVE Relay!RelayNext
  <2>1. t \in 1..created
    BY <1>4 DEF StrayEnds, IInv, CreatedInv
  <2>. QED
    BY <1>4, <2>1, EnqueueStep DEF StrayEnds
<1>5. ASSUME NEW s \in Subscribers,
             \/ PeekLast(s) \/ FetchTasks(s) \/ FetchNothing(s) \/ PublishBulk(s)
             \/ ConfirmBatch(s) \/ AbandonBatch(s) \/ CallFailsOrCrash(s)
      PROVE FALSE
  BY <1>5 DEF PeekLast, FetchTasks, FetchNothing, PublishBulk, ConfirmBatch,
              AbandonBatch, CallFailsOrCrash
<1>. QED
  BY <1>1, <1>2, <1>3, <1>4, <1>5 DEF Next, Progress, Failure, vars

(* subscribe over PeekableGcpPublisher implements the relay: a task enters *)
(* the queue only after the API created it, and the resume position moves  *)
(* only over tasks the queue holds.                                        *)
THEOREM Refinement == Spec => ImplementsRelaySafe
<1>1. Init => Relay!RelayInit
  BY DEF Init, Relay!RelayInit
<1>. QED
  BY <1>1, StepRefines, Invariance, PTL DEF Spec, ImplementsRelaySafe, Relay!RelaySafe
=============================================================================
