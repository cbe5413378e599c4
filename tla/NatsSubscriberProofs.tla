------------------------ MODULE NatsSubscriberProofs ------------------------
(***************************************************************************)
(* For every number of tasks, page limit and number of faults: if the API  *)
(* lists tasks in timestamp order, the stream holds the tasks from the     *)
(* first on, each once and in order, and the subscriber implements the     *)
(* safety part of TaskRelay.                                               *)
(***************************************************************************)
EXTENDS NatsSubscriber, FiniteSetTheorems, TLAPS

\* A call that publishes has something left to publish.
TypeInv == TypeOK /\ (pc = "publishing" => batch # <<>>)

\* The one task that may be appended next.
NextTask == Len(stream) + 1

StreamInv ==
  /\ \A i \in 1..Len(stream) : stream[i] = i
  /\ Len(stream) <= created
  /\ recent \subseteq 1..Len(stream)

\* While a call of subscribe is under way no id leaves the window, so what a
\* late publish appended since the peek will be dropped when it comes again.
AttemptInv ==
  pc # "idle" =>
    /\ after <= Len(stream)
    /\ (after + 1)..Len(stream) \subseteq recent

\* What is left of the batch is the end of a page after `after`, and its
\* first task is the next one or is in the window.
BatchInv ==
  pc = "publishing" =>
    /\ batch[1] \in (after + 1)..NextTask
    /\ batch[1] + Len(batch) <= created + 1
    /\ \A j \in 1..Len(batch) : batch[j] = batch[1] + (j - 1)

\* What may still arrive is in the window, or is the next task.
LateInv == \A t \in late : t \in recent \/ (t = NextTask /\ t <= created)

OrderInv == StreamInv /\ AttemptInv /\ BatchInv /\ LateInv

-----------------------------------------------------------------------------
(* The page                                                                *)

Reaches(f, low, high, from, to) == \A v \in from..to : \E i \in low..high : f[i] = v

\* A function reaches no more values than it has arguments.
LEMMA ImageSize ==
  ASSUME NEW low \in Int, NEW high \in Int, low <= high + 1,
         NEW from \in Int, NEW to \in Int, from <= to + 1,
         NEW f, Reaches(f, low, high, from, to)
  PROVE  to - from <= high - low
<1> DEFINE S == {i \in low..high : f[i] \in from..to}
           g == [i \in S |-> f[i]]
<1>1. g \in Surjection(S, from..to)
  BY DEF Surjection, Reaches
<1>2. IsFiniteSet(low..high) /\ Cardinality(low..high) = high - low + 1
  BY FS_Interval
<1>3. IsFiniteSet(S) /\ Cardinality(S) <= high - low + 1
  <2>1. S \in SUBSET (low..high)
    OBVIOUS
  <2>. QED BY <1>2, <2>1, FS_Subset
<1>4. IsFiniteSet(from..to) /\ Cardinality(from..to) = to - from + 1
  BY FS_Interval
<1>5. Cardinality(from..to) <= Cardinality(S)
  <2> HIDE DEF S, g
  <2>. QED BY <1>1, <1>3, FS_Surjection
<1>6. Cardinality(S) \in Int
  BY <1>3, FS_CardinalityType
<1> HIDE DEF S, g
<1>. QED BY <1>3, <1>4, <1>5, <1>6

\* With timestamps in the API's order the sort leaves the page as it is.
LEMMA SortedIsInOrder ==
  ASSUME OrderedApi, NEW a \in Nat, NEW n \in Nat \ {0}, a + n <= MaxTasks,
         NEW q \in Sorted(PageAfter(a, n), n)
  PROVE  q \in Seq(Tasks) /\ Len(q) = n /\ \A i \in 1..n : q[i] = a + i
<1>1. /\ q \in [1..n -> (a + 1)..(a + n)]
      /\ \A v \in (a + 1)..(a + n) : \E i \in 1..n : q[i] = v
      /\ \A i, j \in 1..n : i < j => Timestamp[q[i]] <= Timestamp[q[j]]
  BY DEF Sorted, PageAfter
<1>2. (a + 1)..(a + n) \subseteq Tasks
  BY SubscriberAssumption DEF Tasks
<1>3. q \in Seq(Tasks) /\ Len(q) = n
  <2>1. q \in [1..n -> Tasks]
    BY <1>1, <1>2
  <2>. QED BY <2>1
<1>4. ASSUME NEW i \in 1..n, NEW j \in 1..n, i < j PROVE q[i] <= q[j]
  <2>1. q[i] \in Tasks /\ q[j] \in Tasks /\ Tasks \subseteq Nat
    BY <1>1, <1>2 DEF Tasks
  <2>2. Timestamp[q[i]] \in Nat /\ Timestamp[q[j]] \in Nat
    BY <2>1, SubscriberAssumption
  <2>3. Timestamp[q[i]] <= Timestamp[q[j]]
    BY <1>1, <1>4
  <2>4. q[j] < q[i] => Timestamp[q[j]] < Timestamp[q[i]]
    BY <2>1 DEF OrderedApi
  <2>5. q[i] \in Nat /\ q[j] \in Nat
    BY <2>1
  <2>. QED BY <2>2, <2>3, <2>4, <2>5
<1>5. ASSUME NEW i \in 1..n PROVE q[i] = a + i
  <2>1. q[i] \in (a + 1)..(a + n) /\ q[i] \in Int /\ i \in Int
    BY <1>1
  \* The values below q[i] stand before it, those above it after it.
  <2>2. ASSUME NEW v \in (a + 1)..(q[i] - 1) PROVE \E j \in 1..(i - 1) : q[j] = v
    <3>1. v \in (a + 1)..(a + n) /\ v < q[i]
      BY <2>1
    <3>2. PICK j \in 1..n : q[j] = v
      BY <1>1, <3>1
    <3>3. ~(i < j) /\ i # j
      BY <1>4, <2>1, <3>1, <3>2
    <3>. QED BY <3>2, <3>3
  <2>3. ASSUME NEW v \in (q[i] + 1)..(a + n) PROVE \E j \in (i + 1)..n : q[j] = v
    <3>1. v \in (a + 1)..(a + n) /\ q[i] < v
      BY <2>1
    <3>2. PICK j \in 1..n : q[j] = v
      BY <1>1, <3>1
    <3>3. ~(j < i) /\ i # j
      BY <1>4, <2>1, <3>1, <3>2
    <3>. QED BY <3>2, <3>3
  <2>4. (q[i] - 1) - (a + 1) <= (i - 1) - 1
    <3>1. 1 <= (i - 1) + 1 /\ a + 1 <= (q[i] - 1) + 1
      BY <2>1
    <3>2. Reaches(q, 1, i - 1, a + 1, q[i] - 1)
      BY <2>2 DEF Reaches
    <3>. QED BY <2>1, <3>1, <3>2, ImageSize
  <2>5. (a + n) - (q[i] + 1) <= n - (i + 1)
    <3>1. i + 1 <= n + 1 /\ q[i] + 1 <= (a + n) + 1
      BY <2>1
    <3>2. Reaches(q, i + 1, n, q[i] + 1, a + n)
      BY <2>3 DEF Reaches
    <3>. QED BY <2>1, <3>1, <3>2, ImageSize
  <2>. QED BY <2>1, <2>4, <2>5
<1>. QED BY <1>3, <1>5

\* A page ends at the last task created.
LEMMA PageSizes ==
  ASSUME TypeOK, after <= created
  PROVE  PageSize(after) \in Nat /\ after \in Nat /\ after + PageSize(after) <= created
                                 /\ created <= MaxTasks
BY SubscriberAssumption DEF TypeOK, PageSize

-----------------------------------------------------------------------------
(* Types                                                                   *)

\* The server keeps its types whatever task it is sent.
LEMMA StoreType ==
  ASSUME TypeOK, NEW t \in Tasks, Store(t)
  PROVE  stream' \in Seq(Tasks) /\ recent' \subseteq Tasks
BY DEF TypeOK, Store

\* peek_last returns a task, or nothing of an empty stream.
LEMMA LastIsTask ==
  ASSUME TypeOK PROVE LastMessage(stream) \in 0..MaxTasks
BY SubscriberAssumption DEF TypeOK, LastMessage, Tasks

\* A stream without messages and an idle subscriber have their types.
LEMMA TypeInit == Init => TypeInv
BY SubscriberAssumption DEF Init, TypeInv, TypeOK, Stages

\* No await of subscribe, no fault and no late publish leaves them.
LEMMA TypeNext == TypeInv /\ [Next]_vars => TypeInv'
<1> SUFFICES ASSUME TypeInv, [Next]_vars PROVE TypeInv'
  OBVIOUS
<1> USE DEF TypeInv
<1>0. TypeOK /\ MaxTasks \in Nat /\ MaxFaults \in Nat /\ Limit \in Nat \ {0}
  BY SubscriberAssumption
<1>1. CASE CreateTask
  BY <1>0, <1>1 DEF CreateTask, TypeOK
<1>2. CASE PeekLast
  BY <1>2, LastIsTask DEF PeekLast, TypeOK, Stages
<1>3. CASE FetchTasks
  <2> DEFINE n == PageSize(after)
  <2>1. n \in Nat \ {0} /\ n <= created - after /\ created \in Nat /\ after \in Nat
    BY <1>0, <1>3 DEF FetchTasks, PageSize, TypeOK
  <2>2. batch' \in [1..n -> PageAfter(after, n)]
    BY <1>3 DEF FetchTasks, Sorted
  <2>3. PageAfter(after, n) \subseteq Tasks
    BY <1>0, <2>1 DEF PageAfter, Tasks, TypeOK
  <2>4. batch' \in [1..n -> Tasks]
    BY <2>2, <2>3
  <2>5. batch' \in Seq(Tasks) /\ Len(batch') = n
    BY <2>1, <2>4
  <2>6. batch' # <<>>
    BY <2>1, <2>5
  <2>. QED BY <1>3, <2>5, <2>6 DEF FetchTasks, TypeOK, Stages
<1>4. CASE FetchNothing
  BY <1>4 DEF FetchNothing, Return, TypeOK, Stages
<1>5. CASE Publish
  <2>1. Head(batch) \in Tasks /\ Tail(batch) \in Seq(Tasks)
    BY <1>5 DEF Publish, TypeOK
  <2>2. stream' \in Seq(Tasks) /\ recent' \subseteq Tasks
    BY <1>5, <2>1, StoreType DEF Publish
  <2>. QED BY <1>5, <2>1, <2>2 DEF Publish, Unpublished, TypeOK, Stages
<1>6. CASE PublishFails
  <2>1. Head(batch) \in Tasks
    BY <1>6 DEF PublishFails, TypeOK
  <2>. QED BY <1>0, <1>6, <2>1 DEF PublishFails, Return, Fault, TypeOK, Stages
<1>7. CASE CallFailsOrCrash
  BY <1>0, <1>7 DEF CallFailsOrCrash, Return, Fault, TypeOK, Stages
<1>8. ASSUME NEW t \in Tasks, WindowPasses(t) \/ LateArrives(t) \/ LateIsLost(t)
      PROVE  TypeInv'
  <2>1. CASE LateArrives(t)
    BY <2>1, StoreType DEF LateArrives, TypeOK
  <2>. QED BY <1>8, <2>1 DEF WindowPasses, LateIsLost, TypeOK
<1>9. CASE UNCHANGED vars
  BY <1>9 DEF vars, TypeOK
<1>. QED
  BY <1>1, <1>2, <1>3, <1>4, <1>5, <1>6, <1>7, <1>8, <1>9 DEF Next, Progress

-----------------------------------------------------------------------------
(* The order                                                               *)

\* With the stream in order the position read back from it is its length.
LEMMA LastIsLength ==
  ASSUME TypeOK, StreamInv PROVE LastMessage(stream) = Len(stream) /\ Len(stream) \in Nat
BY DEF TypeOK, StreamInv, LastMessage

\* The server takes in the next task, or drops what is in the window.
LEMMA StoreKept ==
  ASSUME TypeOK, StreamInv, LateInv,
         NEW t \in Tasks, t \in recent \/ (t = NextTask /\ t <= created), Store(t),
         UNCHANGED created, late' \subseteq late
  PROVE  /\ StreamInv' /\ LateInv'
         /\ Len(stream') \in {Len(stream), Len(stream) + 1}
         /\ (Len(stream) + 1)..Len(stream') \subseteq recent'
         /\ t \in recent' /\ recent \subseteq recent'
<1>1. Len(stream) \in Nat
  BY DEF TypeOK
<1>2. CASE t \in recent
  <2>1. UNCHANGED <<stream, recent>>
    BY <1>2 DEF Store
  <2>. QED BY <1>1, <1>2, <2>1 DEF StreamInv, LateInv, NextTask
<1>3. CASE t \notin recent
  <2>1. stream' = Append(stream, t) /\ recent' = recent \cup {t} /\ t = Len(stream) + 1
        /\ t <= created
    BY <1>3 DEF Store, NextTask
  <2>2. /\ Len(stream') = Len(stream) + 1
        /\ \A i \in 1..Len(stream') : stream'[i] = IF i <= Len(stream) THEN stream[i] ELSE t
    BY <1>1, <2>1 DEF TypeOK
  <2>3. StreamInv'
    <3>1. ASSUME NEW i \in 1..Len(stream') PROVE stream'[i] = i
      <4>1. i \in 1..Len(stream) => stream'[i] = stream[i] /\ stream[i] = i
        BY <1>1, <2>2 DEF StreamInv
      <4>2. i \notin 1..Len(stream) => i = Len(stream) + 1 /\ stream'[i] = t
        BY <1>1, <2>2
      <4>. QED BY <2>1, <4>1, <4>2
    <3>2. recent' \subseteq 1..Len(stream')
      <4>1. recent \subseteq 1..Len(stream) /\ recent' = recent \cup {t}
        BY <2>1 DEF StreamInv
      <4>2. ASSUME NEW v \in recent' PROVE v \in 1..Len(stream')
        <5>1. CASE v \in recent
          BY <1>1, <2>2, <4>1, <5>1
        <5>2. CASE v = t
          BY <1>1, <2>1, <2>2, <5>2
        <5>. QED BY <4>1, <5>1, <5>2
      <4>. QED BY <4>2
    <3>3. Len(stream') <= created'
      BY <2>1, <2>2
    <3>. QED BY <3>1, <3>2, <3>3 DEF StreamInv
  <2>4. LateInv'
    BY <1>1, <2>1, <2>2 DEF LateInv, NextTask
  <2>. QED BY <1>1, <2>1, <2>2, <2>3, <2>4
<1>. QED BY <1>2, <1>3

\* An empty stream is in order.
LEMMA OrderInit == Init => OrderInv
BY DEF Init, OrderInv, StreamInv, AttemptInv, BatchInv, LateInv

\* With tasks listed in timestamp order every step keeps the stream in order.
LEMMA OrderNext ==
  ASSUME OrderedApi PROVE TypeInv /\ OrderInv /\ [Next]_vars => OrderInv'
<1> SUFFICES ASSUME TypeInv, OrderInv, [Next]_vars PROVE OrderInv'
  OBVIOUS
<1> USE DEF OrderInv
<1>0. TypeOK /\ Len(stream) \in Nat /\ created \in Nat /\ after \in Nat
  BY DEF TypeInv, TypeOK
<1>1. CASE CreateTask
  <2>1. created' = created + 1 /\ UNCHANGED <<stream, recent, late, pc, after, batch>>
    BY <1>1 DEF CreateTask
  <2>2. batch # <<>> => batch[1] + Len(batch) \in Int
    <3>1. batch # <<>> => batch[1] \in Tasks /\ Len(batch) \in Nat
      BY DEF TypeInv, TypeOK
    <3>. QED BY <3>1 DEF Tasks
  <2>3. BatchInv'
    BY <1>0, <2>1, <2>2 DEF TypeInv, BatchInv, NextTask
  <2>4. LateInv'
    BY <1>0, <2>1 DEF LateInv, NextTask
  <2>. QED BY <1>0, <2>1, <2>3, <2>4 DEF StreamInv, AttemptInv
<1>2. CASE PeekLast
  <2>1. after' = Len(stream)
    BY <1>0, <1>2, LastIsLength DEF PeekLast
  <2>. QED BY <1>0, <1>2, <2>1 DEF PeekLast, StreamInv, AttemptInv, BatchInv, LateInv, NextTask
<1>3. CASE FetchTasks
  <2> DEFINE n == PageSize(after)
  <2>1. after <= Len(stream) /\ Len(stream) <= created
    BY <1>3 DEF FetchTasks, AttemptInv, StreamInv
  <2>2. n \in Nat \ {0} /\ after + n <= created /\ created <= MaxTasks /\ MaxTasks \in Nat
    BY <1>0, <1>3, <2>1, PageSizes, SubscriberAssumption DEF FetchTasks
  <2>3. batch' \in Sorted(PageAfter(after, n), n)
    BY <1>3 DEF FetchTasks
  <2>4. Len(batch') = n /\ \A i \in 1..n : batch'[i] = after + i
    <3>1. after + n <= MaxTasks
      BY <1>0, <2>2
    <3> HIDE DEF n
    <3>. QED BY <1>0, <2>2, <2>3, <3>1, SortedIsInOrder
  <2>5. UNCHANGED <<created, stream, recent, late, after>>
    BY <1>3 DEF FetchTasks
  <2>6. BatchInv'
    <3> HIDE DEF n
    <3>. QED BY <1>0, <2>1, <2>2, <2>4, <2>5 DEF BatchInv, NextTask
  <2>7. AttemptInv'
    BY <1>3, <2>5 DEF FetchTasks, AttemptInv
  <2>. QED BY <2>5, <2>6, <2>7 DEF StreamInv, LateInv, NextTask
<1>4. CASE FetchNothing
  BY <1>4 DEF FetchNothing, Return, StreamInv, AttemptInv, BatchInv, LateInv, NextTask
<1>5. CASE Publish
  <2> DEFINE t == Head(batch)
  <2>1. /\ t \in Tasks /\ t = batch[1] /\ batch # <<>> /\ Len(batch) \in Nat \ {0}
        /\ Len(Tail(batch)) = Len(batch) - 1
        /\ \A j \in 1..(Len(batch) - 1) : Tail(batch)[j] = batch[j + 1]
    BY <1>0, <1>5 DEF Publish, TypeInv, TypeOK
  <2>2. /\ t \in (after + 1)..NextTask /\ t + Len(batch) <= created + 1
        /\ \A j \in 1..Len(batch) : batch[j] = t + (j - 1)
        /\ (after + 1)..Len(stream) \subseteq recent
    BY <1>5, <2>1 DEF Publish, BatchInv, AttemptInv
  <2>3. Store(t) /\ UNCHANGED <<created, late, after>> /\ batch' = Tail(batch)
    BY <1>5 DEF Publish, Unpublished
  <2>4. t \in recent \/ (t = NextTask /\ t <= created)
    BY <1>0, <2>1, <2>2 DEF NextTask, Tasks
  <2>5. /\ StreamInv' /\ LateInv'
        /\ after' <= Len(stream') /\ (after' + 1)..Len(stream') \subseteq recent'
        /\ Len(stream') \in Nat /\ t <= Len(stream')
    <3>1. /\ StreamInv' /\ LateInv'
          /\ Len(stream') \in {Len(stream), Len(stream) + 1}
          /\ (Len(stream) + 1)..Len(stream') \subseteq recent'
          /\ t \in recent' /\ recent \subseteq recent'
      BY <1>0, <2>1, <2>3, <2>4, StoreKept
    <3>2. t <= Len(stream')
      BY <1>0, <2>1, <3>1 DEF StreamInv, Tasks
    <3>3. after <= Len(stream)
      BY <1>5 DEF Publish, AttemptInv
    <3>4. (after + 1)..Len(stream') \subseteq recent'
      BY <1>0, <2>2, <3>1, <3>3
    <3>. QED BY <1>0, <2>3, <3>1, <3>2, <3>3, <3>4
  <2>6. BatchInv'
    <3>1. CASE Tail(batch) = <<>>
      BY <1>5, <2>3, <3>1 DEF Publish, BatchInv
    <3>2. CASE Tail(batch) # <<>>
      <4>1. Len(batch) >= 2
        BY <2>1, <3>2
      <4>2. batch'[1] = t + 1 /\ \A j \in 1..Len(batch') : batch'[j] = t + j
        BY <2>1, <2>2, <2>3, <4>1
      <4>3. t \in Nat /\ after + 1 <= t
        BY <2>1, <2>2 DEF Tasks
      <4>4. Len(batch') = Len(batch) - 1 /\ after' = after /\ created' = created
        BY <2>1, <2>3
      <4>5. t <= Len(stream') /\ Len(stream') \in Nat
        BY <2>5
      <4>6. t + Len(batch) <= created + 1 /\ Len(batch) \in Nat
        BY <2>1, <2>2
      <4> HIDE DEF t
      <4>7. t + 1 \in (after' + 1)..NextTask'
        BY <1>0, <4>3, <4>4, <4>5 DEF NextTask
      <4>8. (t + 1) + Len(batch') <= created' + 1
        BY <1>0, <4>3, <4>4, <4>6
      <4>9. \A j \in 1..Len(batch') : batch'[j] = batch'[1] + (j - 1)
        BY <4>2, <4>3, <4>4, <4>6
      <4>. QED BY <4>2, <4>7, <4>8, <4>9 DEF BatchInv
    <3>. QED BY <3>1, <3>2
  <2>7. AttemptInv'
    BY <2>5 DEF AttemptInv
  <2>. QED BY <2>5, <2>6, <2>7
<1>6. CASE PublishFails
  <2>1. Head(batch) = batch[1] /\ batch[1] \in Tasks /\ Len(batch) \in Nat \ {0}
    BY <1>0, <1>6 DEF PublishFails, TypeInv, TypeOK
  <2>2. Head(batch) \in recent \/ (Head(batch) = NextTask /\ Head(batch) <= created)
    BY <1>0, <1>6, <2>1 DEF PublishFails, BatchInv, AttemptInv, NextTask, Tasks
  <2>3. LateInv'
    BY <1>6, <2>2 DEF PublishFails, LateInv, NextTask
  <2>. QED BY <1>6, <2>3 DEF PublishFails, Return, StreamInv, AttemptInv, BatchInv
<1>7. CASE CallFailsOrCrash
  BY <1>7 DEF CallFailsOrCrash, Return, StreamInv, AttemptInv, BatchInv, LateInv, NextTask
<1>8. ASSUME NEW t \in Tasks, WindowPasses(t) PROVE OrderInv'
  BY <1>8 DEF WindowPasses, StreamInv, AttemptInv, BatchInv, LateInv, NextTask
<1>9. ASSUME NEW t \in Tasks, LateArrives(t) PROVE OrderInv'
  <2>1. t \in recent \/ (t = NextTask /\ t <= created)
    BY <1>9 DEF LateArrives, LateInv
  <2>2. Store(t) /\ UNCHANGED <<created, pc, after, batch>> /\ late' \subseteq late
    BY <1>9 DEF LateArrives
  <2>3. /\ StreamInv' /\ LateInv'
        /\ Len(stream') \in {Len(stream), Len(stream) + 1}
        /\ (Len(stream) + 1)..Len(stream') \subseteq recent'
        /\ recent \subseteq recent'
    BY <1>0, <2>1, <2>2, StoreKept
  <2>4. BatchInv'
    BY <1>0, <2>2, <2>3 DEF BatchInv, NextTask
  <2>5. AttemptInv'
    BY <1>0, <2>2, <2>3 DEF AttemptInv
  <2>. QED BY <2>3, <2>4, <2>5
<1>10. ASSUME NEW t \in Tasks, LateIsLost(t) PROVE OrderInv'
  BY <1>10 DEF LateIsLost, StreamInv, AttemptInv, BatchInv, LateInv, NextTask
<1>11. CASE UNCHANGED vars
  BY <1>11 DEF vars, StreamInv, AttemptInv, BatchInv, LateInv, NextTask
<1>. QED
  BY <1>1, <1>2, <1>3, <1>4, <1>5, <1>6, <1>7, <1>8, <1>9, <1>10, <1>11 DEF Next, Progress

\* Both invariants hold in every reachable state.
LEMMA Always == OrderedApi => (Spec => [](TypeInv /\ OrderInv))
<1> SUFFICES ASSUME OrderedApi PROVE Spec => [](TypeInv /\ OrderInv)
  OBVIOUS
<1>1. Init => TypeInv /\ OrderInv
  BY TypeInit, OrderInit
<1>2. TypeInv /\ OrderInv /\ [Next]_vars => (TypeInv /\ OrderInv)'
  BY TypeNext, OrderNext
<1>. QED BY <1>1, <1>2, PTL DEF Spec

-----------------------------------------------------------------------------
(* Theorems                                                                *)

(* Every variable keeps its type, in whatever order the sort leaves tasks  *)
(* of equal timestamp: no call publishes from an empty batch, and nothing  *)
(* but a task is sent (nats/publisher.rs).                                 *)
THEOREM TypeCorrect == Spec => []TypeOK
<1>1. TypeInv => TypeOK
  BY DEF TypeInv
<1>. QED BY <1>1, TypeInit, TypeNext, PTL DEF Spec

(* If the API lists tasks in timestamp order, what is left of a batch, the *)
(* window and the late publishes fit the stream: nothing but the next task *)
(* or one the server will drop can reach it.                               *)
THEOREM Invariance == OrderedApi => (Spec => []OrderInv)
<1>1. TypeInv /\ OrderInv => OrderInv
  OBVIOUS
<1>. QED BY <1>1, Always, PTL

(* The stream holds the tasks 1, 2, ..., each once and in that order       *)
(* (publish_batch and peek_last of nats/publisher.rs), if the API lists    *)
(* them in timestamp order.                                                *)
THEOREM InOrder == Spec => []ExactlyOnceInOrder
<1>1. CASE OrderedApi
  <2>1. TypeInv /\ OrderInv => ExactlyOnceInOrder
    BY DEF OrderInv, StreamInv, ExactlyOnceInOrder
  <2>. QED BY <1>1, <2>1, Always, PTL
<1>2. CASE ~OrderedApi
  <2>1. ExactlyOnceInOrder
    BY <1>2 DEF ExactlyOnceInOrder
  <2>. QED BY <2>1, PTL
<1>. QED BY <1>1, <1>2

(* The subscriber implements the relay's safety part: the next task enters *)
(* the queue and moves the position in one step, every other step is       *)
(* Create or a stutter.                                                    *)
THEOREM Refinement == OrderedApi => (Spec => ImplementsRelaySafe)
<1> SUFFICES ASSUME OrderedApi PROVE Spec => ImplementsRelaySafe
  OBVIOUS
<1>1. Init => Relay!RelayInit
  BY DEF Init, Relay!RelayInit, Contents, LastMessage
<1>2. ASSUME TypeInv /\ OrderInv, (TypeInv /\ OrderInv)', [Next]_vars
      PROVE  [Relay!RelayNext]_(Relay!relayVars)
  <2>1. /\ LastMessage(stream) = Len(stream) /\ Contents(stream) = 1..Len(stream)
        /\ Len(stream) \in Nat /\ Len(stream) <= created /\ created \in Nat
    BY <1>2, LastIsLength DEF TypeInv, TypeOK, OrderInv, StreamInv, Contents
  <2>2. UNCHANGED stream => UNCHANGED <<Contents(stream), LastMessage(stream)>>
    BY DEF Contents, LastMessage
  <2>3. CASE CreateTask
    BY <2>2, <2>3 DEF CreateTask, Relay!RelayNext, Relay!Create
  <2>4. CASE UNCHANGED <<created, stream>>
    BY <2>2, <2>4 DEF Relay!relayVars
  <2>5. ASSUME NEW t \in Tasks, Store(t), stream' # stream, UNCHANGED created
        PROVE  [Relay!RelayNext]_(Relay!relayVars)
    <3>1. stream' = Append(stream, t)
      BY <2>5 DEF Store
    <3>2. Len(stream') = Len(stream) + 1
      BY <1>2, <3>1 DEF TypeInv, TypeOK
    <3>3. /\ \A i \in 1..Len(stream') : stream'[i] = i
          /\ Len(stream') <= created
      BY <1>2, <2>5 DEF OrderInv, StreamInv
    <3>4. Contents(stream)' = 1..Len(stream')
      BY <2>1, <3>2, <3>3 DEF Contents
    <3>5. LastMessage(stream)' = Len(stream')
      <4>1. Len(stream') \in 1..Len(stream') /\ stream' # <<>>
        BY <2>1, <3>2
      <4>. QED BY <3>3, <4>1 DEF LastMessage
    <3>6. Relay!Enqueue(Len(stream'))
      BY <2>1, <2>5, <3>2, <3>4, <3>5 DEF Relay!Enqueue
    <3>7. Len(stream') \in 1..created
      BY <2>1, <3>2, <3>3
    <3>. QED BY <3>6, <3>7 DEF Relay!RelayNext
  <2>6. CASE Publish
    <3>1. Head(batch) \in Tasks
      BY <1>2, <2>6 DEF Publish, TypeInv, TypeOK
    <3>. QED BY <2>4, <2>5, <2>6, <3>1 DEF Publish
  <2>7. ASSUME NEW t \in Tasks, LateArrives(t) PROVE [Relay!RelayNext]_(Relay!relayVars)
    BY <2>4, <2>5, <2>7 DEF LateArrives
  <2>8. CASE PeekLast \/ FetchTasks \/ FetchNothing \/ PublishFails \/ CallFailsOrCrash
    BY <2>4, <2>8 DEF PeekLast, FetchTasks, FetchNothing, PublishFails, CallFailsOrCrash
  <2>9. ASSUME NEW t \in Tasks, WindowPasses(t) \/ LateIsLost(t)
        PROVE  UNCHANGED <<created, stream>>
    BY <2>9 DEF WindowPasses, LateIsLost
  <2>10. CASE UNCHANGED vars
    BY <2>4, <2>10 DEF vars
  <2>. QED
    BY <1>2, <2>3, <2>4, <2>6, <2>7, <2>8, <2>9, <2>10 DEF Next, Progress
<1>3. Spec => [](TypeInv /\ OrderInv)
  BY Always
<1>. QED
  BY <1>1, <1>2, <1>3, PTL DEF Spec, ImplementsRelaySafe, Relay!RelaySafe
=============================================================================
