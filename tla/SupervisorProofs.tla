--------------------------- MODULE SupervisorProofs ---------------------------
(***************************************************************************)
(* For every number of workers and faults: the supervisor has no two live  *)
(* threads of a worker, and joins only threads that have nothing left to   *)
(* do.                                                                     *)
(***************************************************************************)
EXTENDS Supervisor, FiniteSetTheorems, TLAPS

InChannel(w) == \E i \in 1..Len(channel) : channel[i] = w

\* A thread is to be spawned for worker w.  Names that arrive after a
\* cancellation are dropped.
Pending(w) ==
  \/ pc = "building" /\ target = w
  \/ ~cancel_token /\ InChannel(w)

\* The threads of a worker are numbered in the order they were spawned.
ThreadsInv ==
  \A w \in Workers : Newest(w) \in 0..(MaxFailed + 1) /\ Spawned(w) = 1..Newest(w)

\* Every thread but the first was spawned after a fault of its own.
CountInv ==
  \A w \in Workers :
    /\ Newest(w) <= failed + 1
    /\ Pending(w) => Newest(w) <= failed

\* A thread that was replaced, or is about to be, does nothing any more.
OldInv ==
  \A w \in Workers : \A g \in 1..Newest(w) :
    g < Newest(w) \/ Pending(w) => thread[w][g] \in {"reported", "gone"}

\* A worker is asked for once at a time.
NamesInv ==
  ~cancel_token =>
    /\ \A i, j \in 1..Len(channel) : channel[i] = channel[j] => i = j
    /\ pc = "building" => ~InChannel(target)

StartInv ==
  pc = "starting" =>
    \A w \in Workers : w >= target => Newest(w) = 0 /\ ~InChannel(w)

\* active_workers lags behind only between a spawn and the join after it.
ActiveInv ==
  \A w \in Workers :
    active[w] = IF pc = "joining" /\ target = w THEN Newest(w) - 1 ELSE Newest(w)

ReportInv == \A w \in Workers, g \in Threads : thread[w][g] = "reporting" => cancel_token

SupervisorInv ==
  /\ SupervisorTypeOK /\ ThreadsInv /\ CountInv /\ OldInv
  /\ NamesInv /\ StartInv /\ ActiveInv /\ ReportInv
-----------------------------------------------------------------------------
(* What the helpers do                                                     *)

\* A step that spawns no thread leaves the newest thread of the worker the same.
LEMMA SameSpawned ==
  ASSUME NEW w \in Workers,
         \A g \in Threads : thread'[w][g] = "absent" <=> thread[w][g] = "absent"
  PROVE  Spawned(w)' = Spawned(w) /\ Newest(w)' = Newest(w)
<1>1. Spawned(w)' = Spawned(w)
  BY DEF Spawned
<1>2. QED BY <1>1 DEF Newest

\* Only the stage of thread g of worker w changes, and it was spawned before.
Moves(w, g) ==
  /\ thread' \in [Workers -> [Threads -> ThreadStages]]
  /\ thread[w][g] # "absent" /\ thread'[w][g] # "absent"
  /\ \A v \in Workers, h \in Threads : <<v, h>> # <<w, g>> => thread'[v][h] = thread[v][h]

\* A thread that moves is one of those counted, and no new one.
LEMMA MoveEffect ==
  ASSUME SupervisorTypeOK, ThreadsInv, NEW w \in Workers, NEW g \in Threads, Moves(w, g)
  PROVE  /\ \A v \in Workers : Spawned(v)' = Spawned(v) /\ Newest(v)' = Newest(v)
         /\ g \in 1..Newest(w)
<1>1. \A v \in Workers, h \in Threads : thread'[v][h] = "absent" <=> thread[v][h] = "absent"
  BY DEF Moves
<1>2. \A v \in Workers : Spawned(v)' = Spawned(v) /\ Newest(v)' = Newest(v)
  BY <1>1, SameSpawned
<1>3. g \in Spawned(w)
  BY DEF Spawned, Moves
<1>4. QED BY <1>2, <1>3 DEF ThreadsInv

\* A spawn takes the first free number.
LEMMA SpawnEffect ==
  ASSUME SupervisorTypeOK, ThreadsInv, NEW w \in Workers, Newest(w) <= MaxFailed, SpawnWorker(w)
  PROVE  /\ thread' \in [Workers -> [Threads -> ThreadStages]]
         /\ thread'[w][Newest(w) + 1] = "spawned" /\ Newest(w) + 1 \in Threads
         /\ \A v \in Workers, h \in Threads :
              <<v, h>> # <<w, Newest(w) + 1>> => thread'[v][h] = thread[v][h]
         /\ \A v \in Workers : v # w => Spawned(v)' = Spawned(v) /\ Newest(v)' = Newest(v)
         /\ Newest(w)' = Newest(w) + 1
         /\ ThreadsInv'
<1> DEFINE n == Newest(w)
<1>1. n \in Nat /\ n + 1 \in Threads /\ MaxFailed \in Nat
  BY SupervisorAssumption DEF ThreadsInv, Threads
<1>2. /\ thread' = [thread EXCEPT ![w][n + 1] = "spawned"]
      /\ thread \in [Workers -> [Threads -> ThreadStages]]
  BY DEF SpawnWorker, SupervisorTypeOK
<1>3. /\ thread' \in [Workers -> [Threads -> ThreadStages]]
      /\ thread'[w][n + 1] = "spawned"
      /\ \A v \in Workers, h \in Threads : <<v, h>> # <<w, n + 1>> => thread'[v][h] = thread[v][h]
  <2> HIDE DEF n
  <2> QED BY <1>1, <1>2 DEF ThreadStages
<1>4. \A v \in Workers : v # w => Spawned(v)' = Spawned(v) /\ Newest(v)' = Newest(v)
  BY <1>3, SameSpawned
<1>5. Spawned(w)' = 1..(n + 1)
  <2>1. Spawned(w) = 1..n
    BY DEF ThreadsInv
  <2>2. Spawned(w)' = Spawned(w) \union {n + 1}
    BY <1>1, <1>3 DEF Spawned
  <2>3. QED BY <1>1, <2>1, <2>2
<1>6. Newest(w)' = n + 1
  BY <1>1, <1>5, FS_Interval DEF Newest
<1>7. ThreadsInv'
  <2> SUFFICES ASSUME NEW v \in Workers
               PROVE  Newest(v)' \in 0..(MaxFailed + 1) /\ Spawned(v)' = 1..Newest(v)'
    BY DEF ThreadsInv
  <2>1. CASE v = w
    BY <1>1, <1>5, <1>6, <2>1
  <2>2. CASE v # w
    BY <1>4, <2>2 DEF ThreadsInv
  <2>3. QED BY <2>1, <2>2
<1>8. QED BY <1>1, <1>3, <1>4, <1>6, <1>7

\* A report adds one name to the channel, which then still names no worker twice.
LEMMA SendEffect ==
  ASSUME SupervisorTypeOK, NEW w \in Workers, Send(w)
  PROVE  /\ channel' \in Seq(Workers)
         /\ \A v \in Workers : InChannel(v)' => InChannel(v) \/ v = w
         /\ ~InChannel(w) /\ (\A i, j \in 1..Len(channel) : channel[i] = channel[j] => i = j)
              => \A i, j \in 1..Len(channel') : channel'[i] = channel'[j] => i = j
<1>1. CASE channel' = channel
  BY <1>1 DEF SupervisorTypeOK, InChannel
<1>2. CASE channel' = Append(channel, w)
  <2>1. channel \in Seq(Workers) /\ Len(channel) \in Nat
    BY DEF SupervisorTypeOK
  <2>2. /\ channel' \in Seq(Workers) /\ Len(channel') = Len(channel) + 1
        /\ \A i \in 1..Len(channel) : channel'[i] = channel[i]
        /\ channel'[Len(channel) + 1] = w
    BY <1>2, <2>1
  <2>3. \A i \in 1..Len(channel') : i \in 1..Len(channel) \/ i = Len(channel) + 1
    BY <2>1, <2>2
  <2>4. QED BY <2>2, <2>3 DEF InChannel
<1>3. QED BY <1>1, <1>2 DEF Send

\* The name received is gone, if no name is twice in the channel.
LEMMA ReceiveEffect ==
  ASSUME SupervisorTypeOK, channel # <<>>, channel' = AfterRecv(channel), NEW w, w = Head(channel)
  PROVE  /\ channel' \in Seq(Workers) /\ w \in Workers /\ InChannel(w)
         /\ \A v \in Workers : InChannel(v)' => InChannel(v)
         /\ (\A i, j \in 1..Len(channel) : channel[i] = channel[j] => i = j)
              => /\ \A i, j \in 1..Len(channel') : channel'[i] = channel'[j] => i = j
                 /\ ~InChannel(w)'
<1>1. channel \in Seq(Workers) /\ Len(channel) \in Nat \ {0}
  BY DEF SupervisorTypeOK
<1>2. /\ channel' \in Seq(Workers) /\ Len(channel') = Len(channel) - 1
      /\ \A i \in 1..Len(channel') : channel'[i] = channel[i + 1]
  BY <1>1 DEF AfterRecv
<1>3. w = channel[1] /\ w \in Workers
  BY <1>1
<1>4. \A i \in 1..Len(channel') : i + 1 \in 1..Len(channel) /\ i + 1 # 1
  BY <1>1, <1>2
<1>5. InChannel(w) /\ \A v \in Workers : InChannel(v)' => InChannel(v)
  BY <1>1, <1>2, <1>3, <1>4 DEF InChannel
<1>6. ASSUME \A i, j \in 1..Len(channel) : channel[i] = channel[j] => i = j
      PROVE  /\ \A i, j \in 1..Len(channel') : channel'[i] = channel'[j] => i = j
             /\ ~InChannel(w)'
  <2>1. ASSUME NEW i \in 1..Len(channel'), NEW j \in 1..Len(channel'), channel'[i] = channel'[j]
        PROVE  i = j
    <3>1. channel[i + 1] = channel[j + 1]
      BY <1>2, <2>1
    <3>2. i + 1 \in 1..Len(channel) /\ j + 1 \in 1..Len(channel) /\ i \in Int /\ j \in Int
      BY <1>4
    <3>3. i + 1 = j + 1
      BY <1>6, <3>1, <3>2
    <3>4. QED BY <3>2, <3>3
  <2>2. ASSUME NEW i \in 1..Len(channel') PROVE channel'[i] # channel[1]
    <3>1. channel'[i] = channel[i + 1] /\ i + 1 \in 1..Len(channel) /\ i + 1 # 1
      BY <1>2, <1>4
    <3>2. 1 \in 1..Len(channel)
      BY <1>1
    <3>3. QED BY <1>6, <3>1, <3>2
  <2>3. ~InChannel(w)'
    BY <1>3, <2>2 DEF InChannel
  <2>4. QED BY <2>1, <2>3
<1>7. QED BY <1>2, <1>3, <1>5, <1>6

-----------------------------------------------------------------------------
(* A step of a worker's thread                                             *)

\* A thread moves on and may report its worker: when the token is cancelled,
\* so that the name will be dropped, or when it could not start, which is a
\* fault and leaves it nothing to do.
LEMMA ThreadStep ==
  ASSUME SupervisorInv, NEW w \in Workers, NEW g \in Threads,
         Moves(w, g), UNCHANGED <<cancel_token, pc, target, active>>,
         failed' \in 0..MaxFailed, failed <= failed',
         \/ channel' = channel
         \/ Send(w) /\ cancel_token
         \/ Send(w) /\ thread[w][g] = "spawned" /\ thread'[w][g] = "reported" /\ failed' = failed + 1,
         thread'[w][g] = "reporting" => cancel_token,
         thread[w][g] \in {"reported", "gone"} => thread'[w][g] \in {"reported", "gone"}
  PROVE  SupervisorInv'
<1> USE DEF SupervisorInv
<1>1. /\ thread' \in [Workers -> [Threads -> ThreadStages]]
      /\ \A v \in Workers, h \in Threads : <<v, h>> # <<w, g>> => thread'[v][h] = thread[v][h]
      /\ \A v \in Workers : Spawned(v)' = Spawned(v) /\ Newest(v)' = Newest(v)
      /\ g \in 1..Newest(w)
  BY MoveEffect DEF Moves
<1>2. channel' \in Seq(Workers) /\ \A v \in Workers : InChannel(v)' => InChannel(v) \/ v = w
  <2>1. CASE channel' = channel
    BY <2>1 DEF SupervisorTypeOK, InChannel
  <2>2. CASE Send(w)
    BY <2>2, SendEffect
  <2>3. QED BY <2>1, <2>2
<1>3. Newest(w) \in 1..(MaxFailed + 1) /\ MaxFailed \in Nat /\ failed \in Nat /\ failed' \in Nat
  BY <1>1, SupervisorAssumption DEF SupervisorTypeOK, ThreadsInv
<1>4. ASSUME ~cancel_token, channel' # channel
      PROVE  /\ Send(w) /\ thread'[w][g] = "reported" /\ failed' = failed + 1
             /\ g = Newest(w) /\ ~Pending(w) /\ ~InChannel(w)
  <2>1. Send(w) /\ thread[w][g] = "spawned" /\ thread'[w][g] = "reported" /\ failed' = failed + 1
    BY <1>4
  <2>2. ~(g < Newest(w)) /\ ~Pending(w)
    BY <1>1, <2>1 DEF OldInv
  <2>3. g = Newest(w)
    <3>1. g \in Nat /\ g <= Newest(w)
      BY <1>1, <1>3
    <3>2. QED BY <1>3, <2>2, <3>1
  <2>4. ~InChannel(w)
    BY <1>4, <2>2 DEF Pending
  <2>5. QED BY <2>1, <2>2, <2>3, <2>4
<1>5. ASSUME NEW v \in Workers, Pending(v)', ~Pending(v)
      PROVE  v = w /\ ~cancel_token /\ channel' # channel
  BY <1>2, <1>5 DEF Pending, InChannel
<1>6. SupervisorTypeOK'
  BY <1>1, <1>2 DEF SupervisorTypeOK
<1>7. ThreadsInv'
  BY <1>1 DEF ThreadsInv
<1>8. CountInv'
  <2> SUFFICES ASSUME NEW v \in Workers
               PROVE  Newest(v)' <= failed' + 1 /\ (Pending(v)' => Newest(v)' <= failed')
    BY DEF CountInv
  <2>1. Newest(v) \in Nat /\ Newest(v)' = Newest(v)
    BY <1>1, <1>3 DEF ThreadsInv
  <2>2. Newest(v) <= failed + 1 /\ (Pending(v) => Newest(v) <= failed)
    BY DEF CountInv
  <2>3. CASE Pending(v)' /\ ~Pending(v)
    BY <1>3, <1>4, <1>5, <2>1, <2>2, <2>3
  <2>4. QED BY <1>3, <2>1, <2>2, <2>3
<1>9. OldInv'
  <2> SUFFICES ASSUME NEW v \in Workers, NEW h \in 1..Newest(v)', h < Newest(v)' \/ Pending(v)'
               PROVE  thread'[v][h] \in {"reported", "gone"}
    BY DEF OldInv
  <2>1. h \in 1..Newest(v) /\ h \in Threads /\ Newest(v)' = Newest(v) /\ Newest(v) \in Nat
    BY <1>1, <1>3 DEF ThreadsInv, Threads
  <2>2. CASE h < Newest(v) \/ Pending(v)
    <3>1. thread[v][h] \in {"reported", "gone"}
      BY <2>1, <2>2 DEF OldInv
    <3>2. QED BY <1>1, <2>1, <3>1
  <2>3. CASE ~(h < Newest(v)) /\ ~Pending(v)
    <3>1. v = w /\ thread'[w][g] = "reported" /\ g = Newest(w)
      BY <1>4, <1>5, <2>1, <2>3
    <3>2. h = g
      BY <2>1, <2>3, <3>1
    <3>3. QED BY <1>1, <3>1, <3>2
  <2>4. QED BY <2>2, <2>3
<1>10. NamesInv'
  <2>1. CASE cancel_token
    BY <2>1 DEF NamesInv
  <2>2. CASE ~cancel_token /\ channel' = channel
    BY <2>2 DEF NamesInv, InChannel
  <2>3. CASE ~cancel_token /\ channel' # channel
    <3>1. \A i, j \in 1..Len(channel') : channel'[i] = channel'[j] => i = j
      BY <1>4, <2>3, SendEffect DEF NamesInv
    <3>2. pc = "building" => target # w /\ ~InChannel(target)
      BY <1>4, <2>3 DEF Pending, NamesInv
    <3>3. pc' = "building" => ~InChannel(target)'
      BY <1>2, <3>2 DEF InChannel, SupervisorTypeOK
    <3>4. QED BY <3>1, <3>3 DEF NamesInv
  <2>4. QED BY <2>1, <2>2, <2>3
<1>11. StartInv'
  BY <1>1, <1>2, <1>3 DEF StartInv
<1>12. ActiveInv'
  BY <1>1 DEF ActiveInv
<1>13. ReportInv'
  BY <1>1 DEF ReportInv
<1>14. QED BY <1>6, <1>7, <1>8, <1>9, <1>10, <1>11, <1>12, <1>13

-----------------------------------------------------------------------------
(* Steps of the supervisor's thread                                        *)

\* A step that moves no thread and asks for no worker but those asked for
\* before, or one that has no thread yet.
LEMMA QuietStep ==
  ASSUME SupervisorInv, UNCHANGED thread, failed' \in 0..MaxFailed, failed <= failed',
         cancel_token => cancel_token',
         \A w \in Workers : Pending(w)' => Pending(w) \/ (Newest(w) = 0 /\ failed' = failed + 1)
  PROVE  ThreadsInv' /\ CountInv' /\ OldInv' /\ ReportInv'
<1> USE DEF SupervisorInv
<1>1. \A w \in Workers : Spawned(w)' = Spawned(w) /\ Newest(w)' = Newest(w)
  BY SameSpawned
<1>2. \A w \in Workers : Newest(w) \in Nat
  BY DEF ThreadsInv
<1>3. ThreadsInv'
  BY <1>1 DEF ThreadsInv
<1>4. CountInv'
  BY <1>1, <1>2 DEF CountInv, SupervisorTypeOK
<1>5. OldInv'
  BY <1>1, <1>2 DEF OldInv
<1>6. ReportInv'
  BY DEF ReportInv
<1>7. QED BY <1>3, <1>4, <1>5, <1>6

\* A thread is spawned for a worker whose threads have nothing left to do.
LEMMA SpawnStep ==
  ASSUME SupervisorInv, NEW w \in Workers, Newest(w) <= failed,
         \A g \in 1..Newest(w) : thread[w][g] \in {"reported", "gone"},
         SpawnWorker(w), UNCHANGED <<cancel_token, failed>>,
         \A v \in Workers : Pending(v)' => Pending(v) /\ v # w
  PROVE  ThreadsInv' /\ CountInv' /\ OldInv' /\ ReportInv'
<1> USE DEF SupervisorInv
<1>1. Newest(w) \in Nat /\ Newest(w) <= MaxFailed /\ failed \in Nat
  BY SupervisorAssumption DEF ThreadsInv, SupervisorTypeOK
<1>2. /\ thread' \in [Workers -> [Threads -> ThreadStages]]
      /\ thread'[w][Newest(w) + 1] = "spawned" /\ Newest(w) + 1 \in Threads
      /\ \A v \in Workers, h \in Threads :
           <<v, h>> # <<w, Newest(w) + 1>> => thread'[v][h] = thread[v][h]
      /\ \A v \in Workers : v # w => Spawned(v)' = Spawned(v) /\ Newest(v)' = Newest(v)
      /\ Newest(w)' = Newest(w) + 1
      /\ ThreadsInv'
  BY <1>1, SpawnEffect
<1>3. CountInv'
  <2> SUFFICES ASSUME NEW v \in Workers
               PROVE  Newest(v)' <= failed' + 1 /\ (Pending(v)' => Newest(v)' <= failed')
    BY DEF CountInv
  <2>1. CASE v = w
    BY <1>1, <1>2, <2>1
  <2>2. CASE v # w
    BY <1>2, <2>2 DEF CountInv
  <2>3. QED BY <2>1, <2>2
<1>4. OldInv'
  <2> SUFFICES ASSUME NEW v \in Workers, NEW h \in 1..Newest(v)', h < Newest(v)' \/ Pending(v)'
               PROVE  thread'[v][h] \in {"reported", "gone"}
    BY DEF OldInv
  <2>1. CASE v = w
    <3>1. h \in 1..Newest(w) /\ h # Newest(w) + 1
      BY <1>1, <1>2, <2>1
    <3>2. h \in Threads
      BY <1>1, <3>1, SupervisorAssumption DEF Threads
    <3>3. QED BY <1>2, <2>1, <3>1, <3>2
  <2>2. CASE v # w
    <3>1. Newest(v)' = Newest(v) /\ Newest(v) \in 0..(MaxFailed + 1)
      BY <1>2, <2>2 DEF ThreadsInv
    <3>2. h \in Threads
      BY <3>1, SupervisorAssumption DEF Threads
    <3>3. thread[v][h] \in {"reported", "gone"}
      BY <3>1 DEF OldInv
    <3>4. QED BY <1>2, <2>2, <3>2, <3>3
  <2>3. QED BY <2>1, <2>2
<1>5. ReportInv'
  <2> SUFFICES ASSUME NEW v \in Workers, NEW h \in Threads, thread'[v][h] = "reporting"
               PROVE  cancel_token
    BY DEF ReportInv
  <2>1. thread[v][h] = "reporting"
    BY <1>2
  <2>2. QED BY <2>1 DEF ReportInv
<1>6. QED BY <1>2, <1>3, <1>4, <1>5

-----------------------------------------------------------------------------
(* The supervisor                                                          *)

\* The invariant holds before anything is built.
LEMMA Initially == ASSUME SupervisorInit PROVE SupervisorInv
<1>1. \A w \in Workers : Spawned(w) = {}
  BY DEF SupervisorInit, Spawned
<1>2. \A w \in Workers : Newest(w) = 0
  BY <1>1, FS_EmptySet DEF Newest
<1>3. \A w \in Workers : ~InChannel(w)
  BY DEF SupervisorInit, InChannel
<1>4. SupervisorTypeOK
  <2>1. 1 \in Workers /\ 0 \in 0..(MaxFailed + 1) /\ 0 \in 0..MaxFailed
    BY SupervisorAssumption DEF Workers
  <2>2. cancel_token \in BOOLEAN /\ pc \in SupervisorStages /\ target \in Workers /\ channel \in Seq(Workers)
    <3>1. channel = <<>> /\ channel \in Seq(Workers)
      BY DEF SupervisorInit
    <3>2. QED BY <2>1, <3>1 DEF SupervisorInit, SupervisorStages
  <2>3. active \in [Workers -> 0..(MaxFailed + 1)] /\ failed \in 0..MaxFailed
    BY <2>1 DEF SupervisorInit
  <2>4. thread \in [Workers -> [Threads -> ThreadStages]]
    BY DEF SupervisorInit, ThreadStages
  <2>5. QED BY <2>2, <2>3, <2>4 DEF SupervisorTypeOK
<1>5. \A w \in Workers : ~Pending(w)
  BY <1>3 DEF SupervisorInit, Pending
<1>6. ThreadsInv
  <2>1. 1..0 = {} /\ 0 \in 0..(MaxFailed + 1)
    BY SupervisorAssumption
  <2>2. QED BY <1>1, <1>2, <2>1 DEF ThreadsInv
<1>7. CountInv
  BY <1>2, <1>5 DEF SupervisorInit, CountInv
<1>8. OldInv
  BY <1>2 DEF OldInv
<1>9. NamesInv /\ StartInv /\ ReportInv
  BY <1>2, <1>3 DEF SupervisorInit, NamesInv, StartInv, ReportInv
<1>10. ActiveInv
  BY <1>2 DEF SupervisorInit, ActiveInv
<1>11. QED BY <1>4, <1>6, <1>7, <1>8, <1>9, <1>10 DEF SupervisorInv

\* Every step of the supervisor's thread keeps the invariant.
LEMMA SupervisorSteps ==
  ASSUME SupervisorInv, Supervise \/ SuperviseFails
  PROVE  SupervisorInv'
<1> USE DEF SupervisorInv
<1>0. PICK w : w = target
  OBVIOUS
<1> USE <1>0
<1>1. /\ w \in Workers /\ Newest(w) \in Nat /\ failed \in 0..MaxFailed /\ NumWorkers \in Nat \ {0}
      /\ MaxFailed \in Nat /\ channel \in Seq(Workers)
      /\ \A v \in Workers : v \in Nat /\ v <= NumWorkers /\ Newest(v) \in Nat
  BY SupervisorAssumption DEF SupervisorTypeOK, ThreadsInv, Workers
<1>2. ASSUME UNCHANGED channel PROVE \A v : InChannel(v)' <=> InChannel(v)
  BY <1>2 DEF InChannel
<1>3. ASSUME UNCHANGED thread PROVE \A v \in Workers : Newest(v)' = Newest(v)
  BY <1>3, SameSpawned
<1>4. ASSUME NextBuilder, pc = "starting"
      PROVE  /\ pc' \in {"starting", "watching"} /\ target' \in Workers
             /\ pc' = "starting" => target' = w + 1
  BY <1>1, <1>4 DEF NextBuilder, Workers
<1>5. CASE FirstBuild
  <2>1. pc = "starting" /\ SpawnWorker(w) /\ NextBuilder /\ UNCHANGED <<cancel_token, channel, failed>>
        /\ active' = [active EXCEPT ![w] = Newest(w) + 1]
    BY <1>5 DEF FirstBuild
  <2>2. Newest(w) = 0 /\ ~InChannel(w)
    BY <1>1, <2>1 DEF StartInv
  <2>3. \A v \in Workers : Pending(v)' => Pending(v) /\ v # w
    BY <1>2, <1>4, <2>1, <2>2 DEF Pending
  <2>4. ThreadsInv' /\ CountInv' /\ OldInv' /\ ReportInv'
    BY <1>1, <2>1, <2>2, <2>3, SpawnStep
  <2>5. /\ thread' \in [Workers -> [Threads -> ThreadStages]] /\ Newest(w)' = Newest(w) + 1
        /\ \A v \in Workers : v # w => Newest(v)' = Newest(v)
    BY <1>1, <2>1, <2>2, SpawnEffect
  <2>6. SupervisorTypeOK'
    <3>1. active' \in [Workers -> 0..(MaxFailed + 1)]
      BY <1>1, <2>1, <2>2 DEF SupervisorTypeOK
    <3>2. pc' \in SupervisorStages
      BY <1>4, <2>1 DEF SupervisorStages
    <3>3. QED BY <1>4, <2>1, <2>5, <3>1, <3>2 DEF SupervisorTypeOK
  <2>7. NamesInv'
    BY <1>2, <1>4, <2>1 DEF NamesInv
  <2>8. StartInv'
    <3> SUFFICES ASSUME pc' = "starting", NEW v \in Workers, v >= target'
                 PROVE  Newest(v)' = 0 /\ ~InChannel(v)'
      BY DEF StartInv
    <3>1. v >= w /\ v # w
      BY <1>1, <1>4, <2>1
    <3>2. QED BY <1>2, <2>1, <2>5, <3>1 DEF StartInv
  <2>9. ActiveInv'
    BY <1>1, <1>4, <2>1, <2>5 DEF ActiveInv, SupervisorTypeOK
  <2>10. QED BY <2>4, <2>6, <2>7, <2>8, <2>9
<1>6. CASE FirstBuildFails
  <2>1. pc = "starting" /\ Send(w) /\ NextBuilder /\ UNCHANGED <<cancel_token, active, thread>>
        /\ failed < MaxFailed /\ failed' = failed + 1
    BY <1>6 DEF FirstBuildFails, Failing
  <2>2. Newest(w) = 0 /\ ~InChannel(w)
    BY <1>1, <2>1 DEF StartInv
  <2>3. channel' \in Seq(Workers) /\ \A v \in Workers : InChannel(v)' => InChannel(v) \/ v = w
    BY <1>1, <2>1, SendEffect
  <2>4. \A v \in Workers : Pending(v)' => Pending(v) \/ v = w
    BY <1>4, <2>1, <2>3 DEF Pending
  <2>5. failed' \in 0..MaxFailed /\ failed <= failed'
    BY <1>1, <2>1
  <2>6. ThreadsInv' /\ CountInv' /\ OldInv' /\ ReportInv'
    BY <2>1, <2>2, <2>4, <2>5, QuietStep
  <2>7. SupervisorTypeOK'
    BY <1>4, <2>1, <2>3, <2>5 DEF SupervisorTypeOK, SupervisorStages
  <2>8. NamesInv'
    <3>1. CASE cancel_token
      BY <2>1, <3>1 DEF NamesInv
    <3>2. CASE ~cancel_token
      BY <1>1, <1>4, <2>1, <2>2, <3>2, SendEffect DEF NamesInv
    <3>3. QED BY <3>1, <3>2
  <2>9. StartInv'
    <3> SUFFICES ASSUME pc' = "starting", NEW v \in Workers, v >= target'
                 PROVE  Newest(v)' = 0 /\ ~InChannel(v)'
      BY DEF StartInv
    <3>1. v >= w /\ v # w
      BY <1>1, <1>4, <2>1
    <3>2. QED BY <1>3, <2>1, <2>3, <3>1 DEF StartInv
  <2>10. ActiveInv'
    BY <1>3, <1>4, <2>1 DEF ActiveInv
  <2>11. QED BY <2>6, <2>7, <2>8, <2>9, <2>10
<1>7. CASE NoticeCancel
  <2>1. /\ pc = "watching" /\ cancel_token /\ pc' = "grace"
        /\ UNCHANGED <<cancel_token, target, channel, active, thread, failed>>
    BY <1>7 DEF NoticeCancel
  <2>2. \A v \in Workers : Pending(v)' => Pending(v)
    BY <2>1 DEF Pending
  <2>3. ThreadsInv' /\ CountInv' /\ OldInv' /\ ReportInv'
    BY <1>1, <2>1, <2>2, QuietStep
  <2>4. SupervisorTypeOK' /\ NamesInv' /\ StartInv'
    BY <2>1 DEF SupervisorTypeOK, SupervisorStages, NamesInv, StartInv
  <2>5. ActiveInv'
    BY <1>3, <2>1 DEF ActiveInv
  <2>6. QED BY <2>3, <2>4, <2>5
<1>8. CASE ReceiveName
  <2> DEFINE name == Head(channel)
  <2>1. /\ pc = "watching" /\ channel # <<>> /\ channel' = AfterRecv(channel)
        /\ UNCHANGED <<cancel_token, active, thread, failed>>
        /\ IF cancel_token THEN UNCHANGED <<pc, target>> ELSE pc' = "building" /\ target' = name
    BY <1>8 DEF ReceiveName
  <2>2. PICK v : v = name
    OBVIOUS
  <2>3. /\ channel' \in Seq(Workers) /\ v \in Workers /\ InChannel(v)
        /\ \A u \in Workers : InChannel(u)' => InChannel(u)
        /\ (\A i, j \in 1..Len(channel) : channel[i] = channel[j] => i = j)
              => /\ \A i, j \in 1..Len(channel') : channel'[i] = channel'[j] => i = j
                 /\ ~InChannel(v)'
    BY <2>1, <2>2, ReceiveEffect
  <2>4. \A u \in Workers : Pending(u)' => Pending(u)
    BY <2>1, <2>2, <2>3 DEF Pending
  <2>5. ThreadsInv' /\ CountInv' /\ OldInv' /\ ReportInv'
    BY <1>1, <2>1, <2>4, QuietStep
  <2>6. SupervisorTypeOK'
    BY <2>1, <2>2, <2>3 DEF SupervisorTypeOK, SupervisorStages
  <2>7. NamesInv'
    <3>1. CASE cancel_token
      BY <2>1, <3>1 DEF NamesInv
    <3>2. CASE ~cancel_token
      <4>1. target' = v
        BY <2>1, <2>2, <3>2
      <4>2. ~InChannel(v)' /\ \A i, j \in 1..Len(channel') : channel'[i] = channel'[j] => i = j
        BY <2>3, <3>2 DEF NamesInv
      <4>3. QED BY <4>1, <4>2 DEF NamesInv, InChannel
    <3>3. QED BY <3>1, <3>2
  <2>8. StartInv'
    BY <2>1 DEF StartInv
  <2>9. ActiveInv'
    BY <1>3, <2>1 DEF ActiveInv
  <2>10. QED BY <2>5, <2>6, <2>7, <2>8, <2>9
<1>9. CASE Rebuild
  <2>1. /\ pc = "building" /\ SpawnWorker(w) /\ pc' = "joining"
        /\ UNCHANGED <<cancel_token, target, channel, active, failed>>
    BY <1>9 DEF Rebuild
  <2>2. /\ Newest(w) <= failed
        /\ \A g \in 1..Newest(w) : thread[w][g] \in {"reported", "gone"}
    BY <1>1, <2>1 DEF Pending, CountInv, OldInv
  <2>3. \A v \in Workers : Pending(v)' => Pending(v) /\ v # w
    BY <1>2, <2>1 DEF Pending, NamesInv
  <2>4. ThreadsInv' /\ CountInv' /\ OldInv' /\ ReportInv'
    BY <1>1, <2>1, <2>2, <2>3, SpawnStep
  <2>5. /\ thread' \in [Workers -> [Threads -> ThreadStages]] /\ Newest(w)' = Newest(w) + 1
        /\ \A v \in Workers : v # w => Newest(v)' = Newest(v)
    BY <1>1, <2>1, <2>2, SpawnEffect
  <2>6. SupervisorTypeOK' /\ NamesInv' /\ StartInv'
    BY <2>1, <2>5 DEF SupervisorTypeOK, SupervisorStages, NamesInv, StartInv
  <2>7. ActiveInv'
    BY <1>1, <2>1, <2>5 DEF ActiveInv
  <2>8. QED BY <2>4, <2>6, <2>7
<1>10. CASE RebuildFails
  <2>1. /\ pc = "building" /\ Send(w) /\ pc' = "watching" /\ UNCHANGED <<cancel_token, target, active, thread>>
        /\ failed < MaxFailed /\ failed' = failed + 1
    BY <1>10 DEF RebuildFails, Failing
  <2>2. channel' \in Seq(Workers) /\ \A v \in Workers : InChannel(v)' => InChannel(v) \/ v = w
    BY <1>1, <2>1, SendEffect
  <2>3. \A v \in Workers : Pending(v)' => Pending(v)
    BY <2>1, <2>2 DEF Pending
  <2>4. failed' \in 0..MaxFailed /\ failed <= failed'
    BY <1>1, <2>1
  <2>5. ThreadsInv' /\ CountInv' /\ OldInv' /\ ReportInv'
    BY <2>1, <2>3, <2>4, QuietStep
  <2>6. SupervisorTypeOK' /\ StartInv'
    BY <2>1, <2>2, <2>4 DEF SupervisorTypeOK, SupervisorStages, StartInv
  <2>7. NamesInv'
    <3>1. CASE cancel_token
      BY <2>1, <3>1 DEF NamesInv
    <3>2. CASE ~cancel_token
      BY <1>1, <2>1, <3>2, SendEffect DEF NamesInv
    <3>3. QED BY <3>1, <3>2
  <2>8. ActiveInv'
    BY <1>3, <2>1 DEF ActiveInv
  <2>9. QED BY <2>5, <2>6, <2>7, <2>8
<1>11. CASE Join
  <2>1. /\ pc = "joining" /\ active' = [active EXCEPT ![w] = Newest(w)] /\ pc' = "watching"
        /\ UNCHANGED <<cancel_token, target, channel, thread, failed>>
    BY <1>11 DEF Join
  <2>2. \A v \in Workers : Pending(v)' => Pending(v)
    BY <1>2, <2>1 DEF Pending
  <2>3. ThreadsInv' /\ CountInv' /\ OldInv' /\ ReportInv'
    BY <1>1, <2>1, <2>2, QuietStep
  <2>4. SupervisorTypeOK' /\ NamesInv' /\ StartInv'
    BY <2>1 DEF SupervisorTypeOK, SupervisorStages, NamesInv, StartInv, ThreadsInv
  <2>5. ActiveInv'
    BY <1>1, <1>3, <2>1 DEF ActiveInv, SupervisorTypeOK
  <2>6. QED BY <2>3, <2>4, <2>5
<1>12. CASE EndGrace
  <2>1. pc = "grace" /\ pc' = "ended" /\ UNCHANGED <<cancel_token, target, channel, active, thread, failed>>
    BY <1>12 DEF EndGrace
  <2>2. \A v \in Workers : Pending(v)' => Pending(v)
    BY <1>2, <2>1 DEF Pending
  <2>3. ThreadsInv' /\ CountInv' /\ OldInv' /\ ReportInv'
    BY <1>1, <2>1, <2>2, QuietStep
  <2>4. SupervisorTypeOK' /\ NamesInv' /\ StartInv'
    BY <2>1 DEF SupervisorTypeOK, SupervisorStages, NamesInv, StartInv
  <2>5. ActiveInv'
    BY <1>3, <2>1 DEF ActiveInv
  <2>6. QED BY <2>3, <2>4, <2>5
<1>13. CASE SupervisorDies
  <2>1. /\ pc \in {"starting", "building"} /\ pc' = "dead" /\ failed < MaxFailed /\ failed' = failed + 1
        /\ UNCHANGED <<cancel_token, target, channel, active, thread>>
    BY <1>13 DEF SupervisorDies, Failing
  <2>2. \A v \in Workers : Pending(v)' => Pending(v)
    BY <1>2, <2>1 DEF Pending
  <2>3. failed' \in 0..MaxFailed /\ failed <= failed'
    BY <1>1, <2>1
  <2>4. ThreadsInv' /\ CountInv' /\ OldInv' /\ ReportInv'
    BY <2>1, <2>2, <2>3, QuietStep
  <2>5. SupervisorTypeOK' /\ NamesInv' /\ StartInv'
    BY <2>1, <2>3 DEF SupervisorTypeOK, SupervisorStages, NamesInv, StartInv
  <2>6. ActiveInv'
    BY <1>3, <2>1 DEF ActiveInv
  <2>7. QED BY <2>4, <2>5, <2>6
<1>14. QED
  BY <1>5, <1>6, <1>7, <1>8, <1>9, <1>10, <1>11, <1>12, <1>13 DEF Supervise, SuperviseFails

\* Every step of a worker's thread keeps the invariant.
LEMMA ThreadSteps ==
  ASSUME SupervisorInv, NEW w \in Workers, NEW g \in Threads,
         Run(w, g) \/ WorkDone(w, g) \/ WorkFails(w, g) \/ RuntimeFails(w, g)
  PROVE  SupervisorInv'
<1>1. failed \in 0..MaxFailed /\ failed <= failed /\ MaxFailed \in Nat /\ cancel_token \in BOOLEAN
  BY SupervisorAssumption DEF SupervisorInv, SupervisorTypeOK
<1>2. ASSUME NEW from, "absent" \notin from, NEW to \in ThreadStages \ {"absent"}, Move(w, g, from, to)
      PROVE  Moves(w, g) /\ thread[w][g] \in from /\ thread'[w][g] = to
  BY <1>2 DEF Move, Moves, SupervisorInv, SupervisorTypeOK
<1> USE DEF ThreadStages
<1>3. CASE EnterLoop(w, g)
  <2>1. Moves(w, g) /\ thread[w][g] = "spawned" /\ thread'[w][g] \in {"exiting", "ticking"}
    BY <1>2, <1>3 DEF EnterLoop
  <2>2. QED BY <1>1, <1>3, <2>1, ThreadStep DEF EnterLoop
<1>4. CASE StartWork(w, g)
  <2>1. Moves(w, g) /\ thread[w][g] = "ticking" /\ thread'[w][g] = "working"
    BY <1>2, <1>4 DEF StartWork
  <2>2. QED BY <1>1, <1>4, <2>1, ThreadStep DEF StartWork
<1>5. CASE CancelLoop(w, g)
  <2>1. Moves(w, g) /\ thread[w][g] \in {"ticking", "working"} /\ thread'[w][g] = "exiting"
    BY <1>2, <1>5 DEF CancelLoop
  <2>2. QED BY <1>1, <1>5, <2>1, ThreadStep DEF CancelLoop
<1>6. CASE LeaveLoop(w, g)
  <2>1. /\ Moves(w, g) /\ thread[w][g] = "exiting"
        /\ thread'[w][g] \in {"reporting", "gone"} /\ (thread'[w][g] = "reporting" => cancel_token)
    BY <1>2, <1>6 DEF LeaveLoop
  <2>2. QED BY <1>1, <1>6, <2>1, ThreadStep DEF LeaveLoop
<1>7. CASE Report(w, g)
  <2>1. Moves(w, g) /\ thread[w][g] = "reporting" /\ thread'[w][g] = "reported"
    BY <1>2, <1>7 DEF Report
  <2>2. cancel_token
    BY <2>1 DEF SupervisorInv, ReportInv
  <2>3. QED BY <1>1, <1>7, <2>1, <2>2, ThreadStep DEF Report
<1>8. CASE EndThread(w, g)
  <2>1. Moves(w, g) /\ thread[w][g] = "reported" /\ thread'[w][g] = "gone"
    BY <1>2, <1>8 DEF EndThread
  <2>2. QED BY <1>1, <1>8, <2>1, ThreadStep DEF EndThread
<1>9. CASE WorkDone(w, g)
  <2>1. Moves(w, g) /\ thread[w][g] = "working" /\ thread'[w][g] = "ticking"
    BY <1>2, <1>9 DEF WorkDone
  <2>2. QED BY <1>1, <1>9, <2>1, ThreadStep DEF WorkDone
<1>10. CASE WorkFails(w, g)
  <2>1. Moves(w, g) /\ thread[w][g] = "working" /\ thread'[w][g] = "exiting"
    BY <1>2, <1>10 DEF WorkFails
  <2>2. QED BY <1>1, <1>10, <2>1, ThreadStep DEF WorkFails, Failing
<1>11. CASE RuntimeFails(w, g)
  <2>1. Moves(w, g) /\ thread[w][g] = "spawned" /\ thread'[w][g] = "reported"
    BY <1>2, <1>11 DEF RuntimeFails
  <2>2. QED BY <1>1, <1>11, <2>1, ThreadStep DEF RuntimeFails, Failing
<1>12. QED
  BY <1>3, <1>4, <1>5, <1>6, <1>7, <1>8, <1>9, <1>10, <1>11 DEF Run

\* Names of workers are dropped once the token is cancelled.
LEMMA CancelStep == ASSUME SupervisorInv, Cancel PROVE SupervisorInv'
<1> USE DEF SupervisorInv
<1>1. /\ cancel_token' = TRUE /\ UNCHANGED <<pc, target, channel, active, thread, failed>>
      /\ failed \in 0..MaxFailed /\ failed <= failed
  BY SupervisorAssumption DEF Cancel, SupervisorTypeOK
<1>2. \A w \in Workers : Pending(w)' => Pending(w)
  BY <1>1 DEF Pending
<1>3. \A w \in Workers : Newest(w)' = Newest(w) /\ (InChannel(w)' <=> InChannel(w))
  BY <1>1, SameSpawned DEF InChannel
<1>4. ThreadsInv' /\ CountInv' /\ OldInv' /\ ReportInv'
  BY <1>1, <1>2, QuietStep
<1>5. SupervisorTypeOK' /\ NamesInv'
  BY <1>1 DEF SupervisorTypeOK, NamesInv
<1>6. StartInv' /\ ActiveInv'
  BY <1>1, <1>3 DEF StartInv, ActiveInv
<1>7. QED BY <1>4, <1>5, <1>6

\* Nothing the invariant speaks of changes.
LEMMA Stutter == ASSUME SupervisorInv, UNCHANGED supervisorVars PROVE SupervisorInv'
<1> USE DEF SupervisorInv
<1>1. /\ UNCHANGED <<cancel_token, pc, target, channel, active, thread, failed>>
      /\ failed \in 0..MaxFailed /\ failed <= failed
  BY SupervisorAssumption DEF supervisorVars, SupervisorTypeOK
<1>2. \A w \in Workers : Newest(w)' = Newest(w) /\ (InChannel(w)' <=> InChannel(w))
  BY <1>1, SameSpawned DEF InChannel
<1>3. \A w \in Workers : Pending(w)' => Pending(w)
  BY <1>1, <1>2 DEF Pending
<1>4. ThreadsInv' /\ CountInv' /\ OldInv' /\ ReportInv'
  BY <1>1, <1>3, QuietStep
<1>5. SupervisorTypeOK' /\ NamesInv' /\ StartInv' /\ ActiveInv'
  BY <1>1, <1>2 DEF SupervisorTypeOK, NamesInv, StartInv, ActiveInv, InChannel
<1>6. QED BY <1>4, <1>5

\* The inductive invariant: a worker's threads but the newest are done, and
\* so is the newest once the worker is asked for again.
THEOREM Invariance == SupervisorSpec => []SupervisorInv
<1>1. SupervisorInv /\ [SupervisorNext]_supervisorVars => SupervisorInv'
  BY SupervisorSteps, ThreadSteps, CancelStep, Stutter DEF SupervisorNext
<1>2. QED BY Initially, <1>1, PTL DEF SupervisorSpec

\* The state of the supervisor, its channel and its threads keep their types.
THEOREM TypeCorrect == SupervisorSpec => []SupervisorTypeOK
<1>1. SupervisorInv => SupervisorTypeOK
  BY DEF SupervisorInv
<1>2. QED BY Invariance, <1>1, PTL

\* A worker never runs twice at a time, whatever is built, fails or is asked
\* for again, and in whatever order.
THEOREM NeverTwice == SupervisorSpec => []OneLiveThread
<1>1. SupervisorInv => OneLiveThread
  <2> SUFFICES ASSUME SupervisorInv, NEW w \in Workers, NEW g \in Threads, NEW h \in Threads,
                      thread[w][g] \in Live, thread[w][h] \in Live
               PROVE  g = h
    BY DEF OneLiveThread
  <2>1. ASSUME NEW k \in Threads, thread[w][k] \in Live PROVE k = Newest(w)
    <3>1. k \in 1..Newest(w) /\ Newest(w) \in Nat
      BY <2>1 DEF SupervisorInv, ThreadsInv, Spawned, Live
    <3>2. ~(k < Newest(w))
      BY <2>1, <3>1 DEF SupervisorInv, OldInv, Live
    <3>3. QED BY <3>1, <3>2
  <2>2. QED BY <2>1
<1>2. QED BY Invariance, <1>1, PTL

\* The thread the supervisor's blocking join waits for has nothing left to do.
THEOREM JoinsEnd == SupervisorSpec => []JoinNeverWaits
<1>1. SupervisorInv => JoinNeverWaits
  <2> SUFFICES ASSUME SupervisorInv, pc = "joining", active[target] # 0
               PROVE  thread[target][active[target]] \in {"reported", "gone"}
    BY DEF JoinNeverWaits
  <2>1. target \in Workers /\ Newest(target) \in Nat /\ active[target] = Newest(target) - 1
    BY DEF SupervisorInv, SupervisorTypeOK, ThreadsInv, ActiveInv
  <2>2. active[target] \in 1..Newest(target) /\ active[target] < Newest(target)
    BY <2>1 DEF SupervisorInv, SupervisorTypeOK
  <2>3. QED BY <2>1, <2>2 DEF SupervisorInv, OldInv
<1>2. QED BY Invariance, <1>1, PTL
=============================================================================
