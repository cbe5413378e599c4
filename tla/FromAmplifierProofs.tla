------------------------ MODULE FromAmplifierProofs -------------------------
(***************************************************************************)
(* For every number of tasks, page limit, number of requests, faults and   *)
(* stops: the listener skips no task and implements the safety part of     *)
(* TaskRelay; as long as no requests overlap and no id is missed it hands  *)
(* out each task once and in order, and does not stall.                    *)
(***************************************************************************)
EXTENDS FromAmplifier, TLAPS

\* Task t is processed, or ahead of the n-th place of the channel.
InHand(t, n) ==
  \/ t \in done
  \/ t = working
  \/ \E j \in 1..n : channel[j] = t

\* All tasks before one that is on its way are on their way before it.
WorkInv == working # 0 => 1..(working - 1) \subseteq done

ChannelInv ==
  \A i \in 1..Len(channel) : \A t \in 1..(channel[i] - 1) : InHand(t, i - 1)

RequestInv(r) ==
  /\ request[r].stage = "idle" => request[r] = Idle
  /\ request[r].stage = "requesting" => 1..request[r].last \subseteq done
  /\ request[r].stage = "sending" =>
       /\ request[r].next \in 1..request[r].last
       /\ \A t \in 1..(request[r].next - 1) : InHand(t, Len(channel))

TickInv == tick # NoTick => component = "running" /\ 1..tick \subseteq done

DownInv ==
  component = "down" =>
    /\ tick = NoTick /\ channel = <<>> /\ working = 0
    /\ \A r \in Requests : request[r] = Idle

\* Without overlap the tasks in hand follow the processed one without a gap,
\* and the queried id is that of the last of them.
Base == IF working # 0 THEN working ELSE processed

Orderly ==
  /\ working # 0 => working = processed + 1
  /\ \A i \in 1..Len(channel) : channel[i] = Base + i
  /\ tick # NoTick => tick <= processed
  /\ \A r, q \in InFlight : r = q
  /\ InFlight = {} => queried = Base + Len(channel)
  /\ \A r \in Requests :
       /\ request[r].stage = "requesting" =>
            request[r].last = processed /\ queried = processed
              /\ working = 0 /\ channel = <<>>
       /\ request[r].stage = "sending" => request[r].next = Base + Len(channel) + 1
       /\ request[r].stage = "saving" => request[r].last = Base + Len(channel)

OrderInv == component # "down" /\ ~overlapped /\ ~stale => Orderly

PrefixInv ==
  /\ NoTaskSkipped
  /\ WorkInv /\ ChannelInv /\ TickInv /\ DownInv
  /\ \A r \in Requests : RequestInv(r)

IInv == TypeOK /\ PrefixInv /\ OrderInv

-----------------------------------------------------------------------------

\* A first start, with nothing processed yet, satisfies the invariant.
LEMMA InitIInv == Init => IInv
<1> SUFFICES ASSUME Init PROVE IInv
  OBVIOUS
<1>1. TypeOK
  <2>1. Idle \in [stage : Stages, next : 0..created + 1, last : 0..created]
    BY DEF Init, Idle, Stages
  <2>2. request \in [Requests -> [stage : Stages, next : 0..created + 1, last : 0..created]]
    BY <2>1 DEF Init
  <2>3. channel \in Seq(1..created)
    BY DEF Init
  <2>4. /\ created \in 0..MaxTasks /\ processed \in 0..created /\ queried \in 0..created
        /\ working \in 0..created /\ tick \in 0..created \union {NoTick}
        /\ faults \in 0..MaxFaults /\ stops \in 0..MaxStops
    BY ListenerAssumption DEF Init
  <2>5. done \subseteq 1..created /\ component \in {"down", "running", "stopped"}
    BY DEF Init
  <2>6. overlapped \in BOOLEAN /\ stale \in BOOLEAN
    BY Zenon DEF Init
  <2>. QED  BY <2>2, <2>3, <2>4, <2>5, <2>6 DEF TypeOK
<1>2. PrefixInv
  BY DEF Init, PrefixInv, NoTaskSkipped, WorkInv, ChannelInv, TickInv, DownInv, RequestInv,
         Idle
<1>3. OrderInv
  BY DEF Init, OrderInv
<1>. QED  BY <1>1, <1>2, <1>3 DEF IInv

\* No step of the listener, the relayer or the State leaves the types.
LEMMA NextTypeOK == TypeOK /\ PrefixInv /\ [Next]_vars => TypeOK'
<1> SUFFICES ASSUME TypeOK, PrefixInv, [Next]_vars
             PROVE  TypeOK'
  OBVIOUS
<1> USE ListenerAssumption DEF TypeOK, NoTick, Idle, Stages, Requests, Tasks
<1>1. CASE CreateTask
  <2>1. 1..created \subseteq 1..created'
    BY <1>1 DEF CreateTask
  <2>2. channel' \in Seq(1..created')
    BY <1>1, <2>1 DEF CreateTask
  <2>3. request' \in [Requests -> [stage : Stages, next : 0..created' + 1,
                                  last : 0..created']]
    BY <1>1 DEF CreateTask
  <2>. QED  BY <1>1, <2>2, <2>3 DEF CreateTask
<1>2. CASE TakeTask
  BY <1>2 DEF TakeTask
<1>3. CASE RecordTask
  BY <1>3 DEF RecordTask
<1>4. CASE Start
  BY <1>4 DEF Start, QueriedAtStart
<1>5. CASE Tick
  BY <1>5 DEF Tick, LatestTask
<1>6. ASSUME NEW r \in Requests, Poll(r)
      PROVE TypeOK'
  BY <1>6 DEF Poll, CaughtUp
<1>7. CASE SkipPoll
  BY <1>7 DEF SkipPoll
<1>8. ASSUME NEW r \in Requests, Respond(r)
      PROVE TypeOK'
  <2> DEFINE a == request[r].last
             record == IF PageEnd(a) > a
                       THEN [stage |-> "sending", next |-> a + 1, last |-> PageEnd(a)]
                       ELSE Idle
  <2>1. a \in 0..created /\ created \in Nat
    OBVIOUS
  <2>2. PageEnd(a) \in 0..created /\ a + 1 \in 0..(created + 1)
    BY <2>1 DEF PageEnd
  <2>3. record \in [stage : Stages, next : 0..created + 1, last : 0..created]
    BY <2>1, <2>2
  <2>4. request' = [request EXCEPT ![r] = record]
    BY <1>8 DEF Respond
  <2>5. request' \in [Requests -> [stage : Stages, next : 0..created + 1, last : 0..created]]
    <3> HIDE DEF record, Idle, Stages
    <3>. QED BY <2>3, <2>4
  <2>6. UNCHANGED <<created, processed, queried, component, tick, channel, working, done,
                    overlapped, stale, faults, stops>>
    BY <1>8 DEF Respond
  <2>. QED  BY <2>5, <2>6
<1>9. ASSUME NEW r \in Requests, RequestFails(r)
      PROVE TypeOK'
  BY <1>9 DEF RequestFails, Fault
<1>15. ASSUME NEW r \in Requests, SaveFails(r)
       PROVE TypeOK'
  <2>1. request' \in [Requests -> [stage : Stages, next : 0..created + 1, last : 0..created]]
    BY <1>15 DEF SaveFails
  <2>2. faults' \in 0..MaxFaults
    BY <1>15 DEF SaveFails, Fault
  <2>3. stale' \in BOOLEAN
    BY Zenon, <1>15 DEF SaveFails
  <2>4. UNCHANGED <<created, processed, queried, component, tick, channel, working, done,
                    overlapped, stops>>
    BY <1>15 DEF SaveFails
  <2>. QED  BY <2>1, <2>2, <2>3, <2>4
<1>10. ASSUME NEW r \in Requests, SendTask(r)
       PROVE TypeOK'
  <2>1. request[r].next \in 1..request[r].last /\ request[r].last \in 0..created
    BY <1>10 DEF SendTask, PrefixInv, RequestInv
  <2>2. request[r].next \in 1..created
    BY <2>1
  <2>3. channel' \in Seq(1..created)
    BY <1>10, <2>2 DEF SendTask
  <2>4. /\ request[r].next + 1 \in 0..created + 1
        /\ \A st \in {"saving", "sending"} :
             [stage |-> st, next |-> request[r].next + 1, last |-> request[r].last]
               \in [stage : Stages, next : 0..created + 1, last : 0..created]
    BY <2>1, <2>2
  <2>5. request' \in [Requests -> [stage : Stages, next : 0..created + 1, last : 0..created]]
    BY <1>10, <2>4 DEF SendTask
  <2>6. UNCHANGED <<created, processed, queried, component, tick, working, done, overlapped,
                    stale, faults, stops>>
    BY <1>10 DEF SendTask
  <2>. QED  BY <2>3, <2>5, <2>6
<1>11. ASSUME NEW r \in Requests, SaveQueried(r)
       PROVE TypeOK'
  BY <1>11 DEF SaveQueried
<1>12. CASE ComponentStops
  BY <1>12 DEF ComponentStops, Stop
<1>13. CASE ProcessEnds \/ Crash
  <2>1. Idle \in [stage : Stages, next : 0..created + 1, last : 0..created]
    OBVIOUS
  <2>2. request' \in [Requests -> [stage : Stages, next : 0..created + 1, last : 0..created]]
    BY <1>13, <2>1 DEF ProcessEnds, Crash, LoseMemory
  <2>3. channel' \in Seq(1..created)
    <3>1. \A S : <<>> \in Seq(S)
      OBVIOUS
    <3>2. channel' = <<>>
      BY <1>13 DEF ProcessEnds, Crash, LoseMemory
    <3>. QED  BY ONLY <3>1, <3>2
  <2>4. stops' \in 0..MaxStops
    BY <1>13 DEF ProcessEnds, Crash, Stop
  <2>5. component' = "down" /\ tick' = NoTick /\ working' = 0
    BY <1>13 DEF ProcessEnds, Crash, LoseMemory
  <2>6. UNCHANGED <<created, processed, queried, done, overlapped, stale, faults>>
    BY <1>13 DEF ProcessEnds, Crash, LoseMemory
  <2>. QED  BY <2>2, <2>3, <2>4, <2>5, <2>6
<1>14. CASE UNCHANGED vars
  BY <1>14 DEF vars
<1>. QED
  BY <1>1, <1>2, <1>3, <1>4, <1>5, <1>6, <1>7, <1>8, <1>9, <1>10, <1>11, <1>12, <1>13,
     <1>14, <1>15 DEF Next

\* What keeps the part of the invariant about what is on its way, step by step.
LEMMA NextPrefix == TypeOK /\ PrefixInv /\ [Next]_vars => PrefixInv'
<1> SUFFICES ASSUME TypeOK, PrefixInv, [Next]_vars
             PROVE  PrefixInv'
  OBVIOUS
<1> USE ListenerAssumption DEF TypeOK, NoTick, Requests, Tasks
<1>1. CASE CreateTask
  BY <1>1 DEF CreateTask, PrefixInv, NoTaskSkipped, WorkInv, ChannelInv, TickInv, DownInv,
              RequestInv, InHand
<1>2. CASE TakeTask
  <2>1. /\ working = 0 /\ channel # <<>> /\ component # "down"
        /\ working' = channel[1]
        /\ Len(channel') = Len(channel) - 1
        /\ \A j \in 1..Len(channel') : channel'[j] = channel[j + 1]
        /\ UNCHANGED <<processed, done, tick, request, component>>
    BY <1>2 DEF TakeTask
  <2>2. \A t \in Nat, n \in 1..Len(channel) : t # 0 /\ InHand(t, n) => InHand(t, n - 1)'
    <3> SUFFICES ASSUME NEW t \in Nat, NEW n \in 1..Len(channel), t # 0, InHand(t, n)
                 PROVE  InHand(t, n - 1)'
      OBVIOUS
    <3>1. CASE t \in done
      BY <3>1, <2>1 DEF InHand
    <3>2. CASE \E j \in 1..n : channel[j] = t
      <4>1. PICK j \in 1..n : channel[j] = t
        BY <3>2
      <4>2. CASE j = 1
        BY <4>1, <4>2, <2>1 DEF InHand
      <4>3. CASE j # 1
        <5>1. j - 1 \in 1..(n - 1) /\ j - 1 \in 1..Len(channel')
          BY <4>3, <2>1
        <5>2. channel'[j - 1] = t
          BY <4>1, <5>1, <2>1
        <5>. QED  BY <5>1, <5>2 DEF InHand
      <4>. QED  BY <4>2, <4>3
    <3>. QED  BY <3>1, <3>2, <2>1 DEF InHand
  <2>3. WorkInv'
    <3>1. \A t \in 1..(channel[1] - 1) : InHand(t, 0)
      BY <2>1 DEF PrefixInv, ChannelInv
    <3>2. channel[1] \in Nat
      BY <2>1
    <3>. QED  BY <3>1, <3>2, <2>1 DEF InHand, WorkInv
  <2>4. ChannelInv'
    <3> SUFFICES ASSUME NEW i \in 1..Len(channel'), NEW t \in 1..(channel'[i] - 1)
                 PROVE  InHand(t, i - 1)'
      BY DEF ChannelInv
    <3>1. i + 1 \in 1..Len(channel) /\ i \in 1..Len(channel) /\ channel'[i] = channel[i + 1]
      BY <2>1
    <3>2. InHand(t, i)
      BY <3>1 DEF PrefixInv, ChannelInv
    <3>. QED  BY <3>1, <3>2, <2>2
  <2>5. ASSUME NEW q \in Requests PROVE RequestInv(q)'
    <3>1. RequestInv(q)
      BY DEF PrefixInv
    <3>2. Len(channel) \in 1..Len(channel) /\ Len(channel') = Len(channel) - 1
      BY <2>1
    <3>3. CASE request[q].stage = "sending"
      <4>1. ASSUME NEW t \in 1..(request[q].next - 1) PROVE InHand(t, Len(channel))'
        <5>1. InHand(t, Len(channel)) /\ t \in Nat /\ t # 0
          BY <3>1, <3>3 DEF RequestInv
        <5>2. PICK n \in 1..Len(channel) : n = Len(channel)
          BY <3>2
        <5>3. InHand(t, n - 1)'
          BY <5>1, <5>2, <2>2
        <5>. QED  BY <5>2, <5>3, <3>2
      <4>. QED  BY <4>1, <3>1, <3>2, <3>3, <2>1 DEF RequestInv
    <3>. QED  BY <3>1, <3>3, <2>1 DEF RequestInv
  <2>6. NoTaskSkipped' /\ TickInv' /\ DownInv'
    BY <2>1 DEF PrefixInv, NoTaskSkipped, TickInv, DownInv
  <2>. QED  BY <2>3, <2>4, <2>5, <2>6 DEF PrefixInv
<1>3. CASE RecordTask
  BY <1>3 DEF RecordTask, PrefixInv, NoTaskSkipped, WorkInv, ChannelInv, TickInv, DownInv,
              RequestInv, InHand
<1>4. CASE Start
  BY <1>4 DEF Start, PrefixInv, NoTaskSkipped, WorkInv, ChannelInv, TickInv, DownInv,
              RequestInv, InHand
<1>5. CASE Tick
  BY <1>5 DEF Tick, LatestTask, PrefixInv, NoTaskSkipped, WorkInv, ChannelInv, TickInv,
              DownInv, RequestInv, InHand
<1>6. ASSUME NEW r \in Requests, Poll(r)
      PROVE PrefixInv'
  BY <1>6 DEF Poll, PrefixInv, NoTaskSkipped, WorkInv, ChannelInv, TickInv, DownInv,
              RequestInv, InHand, Idle
<1>7. CASE SkipPoll
  BY <1>7 DEF SkipPoll, PrefixInv, NoTaskSkipped, WorkInv, ChannelInv, TickInv, DownInv,
              RequestInv, InHand
<1>8. ASSUME NEW r \in Requests, Respond(r)
      PROVE PrefixInv'
  <2>1. /\ request[r].stage = "requesting" /\ 1..request[r].last \subseteq done
        /\ component # "down"
    BY <1>8 DEF Respond, PrefixInv, RequestInv, DownInv, Idle
  <2>2. UNCHANGED <<processed, component, tick, channel, working, done>>
    BY <1>8 DEF Respond
  <2>3. NoTaskSkipped' /\ WorkInv' /\ ChannelInv' /\ TickInv' /\ DownInv'
    BY <2>1, <2>2 DEF PrefixInv, NoTaskSkipped, WorkInv, ChannelInv, TickInv, DownInv, InHand
  <2>4. ASSUME NEW q \in Requests PROVE RequestInv(q)'
    <3>1. CASE q # r
      <4>1. request'[q] = request[q]
        BY <1>8, <3>1 DEF Respond
      <4>. QED  BY <4>1, <2>2 DEF PrefixInv, RequestInv, InHand
    <3>2. CASE q = r /\ PageEnd(request[r].last) > request[r].last
      <4>1. request'[q] = [stage |-> "sending", next |-> request[r].last + 1,
                           last |-> PageEnd(request[r].last)]
        BY <1>8, <3>2 DEF Respond
      <4>2. PageEnd(request[r].last) \in Nat /\ request[r].last \in Nat
        BY DEF PageEnd
      <4>. QED  BY <4>1, <4>2, <3>2, <2>1, <2>2 DEF RequestInv, InHand
    <3>3. CASE q = r /\ ~(PageEnd(request[r].last) > request[r].last)
      <4>1. request'[q] = Idle
        BY <1>8, <3>3 DEF Respond
      <4>. QED  BY <4>1 DEF RequestInv, Idle
    <3>. QED  BY <3>1, <3>2, <3>3
  <2>. QED  BY <2>3, <2>4 DEF PrefixInv
<1>9. ASSUME NEW r \in Requests, RequestFails(r) \/ SaveFails(r) \/ SaveQueried(r)
      PROVE PrefixInv'
  <2>1. /\ UNCHANGED <<processed, component, tick, channel, working, done>>
        /\ request' = [request EXCEPT ![r] = Idle]
    BY <1>9 DEF RequestFails, SaveFails, SaveQueried
  <2>2. ASSUME NEW q \in Requests PROVE RequestInv(q)'
    <3>1. CASE q # r
      <4>1. request'[q] = request[q]
        BY <2>1, <3>1
      <4>. QED  BY <4>1, <2>1 DEF PrefixInv, RequestInv, InHand
    <3>2. CASE q = r
      <4>1. request'[q] = Idle
        BY <2>1, <3>2
      <4>. QED  BY <4>1 DEF RequestInv, Idle
    <3>. QED  BY <3>1, <3>2
  <2>3. NoTaskSkipped' /\ WorkInv' /\ ChannelInv' /\ TickInv' /\ DownInv'
    BY <2>1 DEF PrefixInv, NoTaskSkipped, WorkInv, ChannelInv, TickInv, DownInv, InHand
  <2>. QED  BY <2>2, <2>3 DEF PrefixInv
<1>10. ASSUME NEW r \in Requests, SendTask(r)
       PROVE PrefixInv'
  <2>1. /\ request[r].stage = "sending"
        /\ request[r].next \in 1..request[r].last /\ request[r].last \in 0..created
        /\ \A t \in 1..(request[r].next - 1) : InHand(t, Len(channel))
    BY <1>10 DEF SendTask, PrefixInv, RequestInv
  <2>2. UNCHANGED <<processed, component, tick, working, done>>
    BY <1>10 DEF SendTask
  <2>3. /\ Len(channel') = Len(channel) + 1
        /\ \A j \in 1..Len(channel) : channel'[j] = channel[j]
        /\ channel'[Len(channel) + 1] = request[r].next
    <3>1. request[r].next \in 1..created
      BY <2>1
    <3>. QED  BY <1>10, <3>1 DEF SendTask
  <2>4. component # "down"
    BY <2>1 DEF PrefixInv, DownInv, Idle
  <2>5. ASSUME NEW t, NEW n \in 0..Len(channel), InHand(t, n)
        PROVE  InHand(t, n)'
    <3>1. ASSUME NEW j \in 1..n, channel[j] = t PROVE channel'[j] = t
      <4>1. Len(channel) \in Nat
        OBVIOUS
      <4>2. j \in 1..Len(channel)
        BY <4>1
      <4>. QED  BY <4>2, <3>1, <2>3
    <3>. QED  BY <2>2, <2>5, <3>1 DEF InHand
  <2>6. ChannelInv'
    <3> SUFFICES ASSUME NEW i \in 1..Len(channel'), NEW t \in 1..(channel'[i] - 1)
                 PROVE  InHand(t, i - 1)'
      BY DEF ChannelInv
    <3>1. CASE i \in 1..Len(channel)
      <4>1. InHand(t, i - 1)
        BY <3>1, <2>3 DEF PrefixInv, ChannelInv
      <4>. QED  BY <4>1, <3>1, <2>5
    <3>2. CASE i = Len(channel) + 1
      <4>1. InHand(t, Len(channel)) /\ Len(channel) \in 0..Len(channel)
        BY <3>2, <2>1, <2>3
      <4>. QED  BY <4>1, <3>2, <2>5
    <3>. QED  BY <3>1, <3>2, <2>3
  <2>7. ASSUME NEW q \in Requests PROVE RequestInv(q)'
    <3>1. CASE q # r
      <4>1. request'[q] = request[q]
        BY <1>10, <3>1 DEF SendTask
      <4>2. \A t : InHand(t, Len(channel)) => InHand(t, Len(channel))'
        BY <2>2, <2>3 DEF InHand
      <4>. QED  BY <4>1, <4>2, <2>2, <2>3 DEF PrefixInv, RequestInv
    <3>2. CASE q = r
      <4>1. request'[r] = [stage |-> IF request[r].next = request[r].last
                                     THEN "saving" ELSE "sending",
                           next |-> request[r].next + 1, last |-> request[r].last]
        BY <1>10 DEF SendTask
      <4>2. /\ request'[r].next = request[r].next + 1 /\ request'[r].last = request[r].last
            /\ request'[r].stage = IF request[r].next = request[r].last
                                   THEN "saving" ELSE "sending"
        BY <4>1
      <4>3. ASSUME NEW t \in 1..request[r].next PROVE InHand(t, Len(channel))'
        <5>1. CASE t = request[r].next
          BY <5>1, <2>3 DEF InHand
        <5>2. CASE t # request[r].next
          <6>1. InHand(t, Len(channel))
            BY <5>2, <2>1
          <6>. QED  BY <6>1, <2>2, <2>3 DEF InHand
        <5>. QED  BY <5>1, <5>2
      <4>4. CASE request[r].next = request[r].last
        BY <4>2, <4>4, <3>2 DEF RequestInv
      <4>5. CASE request[r].next # request[r].last
        <5>1. request[r].next + 1 \in 1..request[r].last
          BY <4>5, <2>1
        <5>2. request[r].next + 1 - 1 = request[r].next
          BY <2>1
        <5>. QED  BY <5>1, <5>2, <4>2, <4>3, <4>5, <2>3, <3>2 DEF RequestInv
      <4>. QED  BY <4>4, <4>5
    <3>. QED  BY <3>1, <3>2
  <2>8. NoTaskSkipped' /\ WorkInv' /\ TickInv' /\ DownInv'
    BY <2>2, <2>4 DEF PrefixInv, NoTaskSkipped, WorkInv, TickInv, DownInv
  <2>. QED  BY <2>6, <2>7, <2>8 DEF PrefixInv
<1>12. CASE ComponentStops
  BY <1>12 DEF ComponentStops, PrefixInv, NoTaskSkipped, WorkInv, ChannelInv, TickInv, DownInv,
               RequestInv, InHand, Idle
<1>13. CASE ProcessEnds \/ Crash
  <2>1. /\ tick' = NoTick /\ channel' = <<>> /\ working' = 0
        /\ request' = [r \in Requests |-> Idle]
        /\ UNCHANGED <<processed, done>>
    BY <1>13 DEF ProcessEnds, Crash, LoseMemory
  <2>2. WorkInv' /\ TickInv' /\ DownInv' /\ NoTaskSkipped'
    BY <2>1 DEF PrefixInv, WorkInv, TickInv, DownInv, NoTaskSkipped
  <2>3. ChannelInv'
    BY <2>1 DEF ChannelInv
  <2>4. \A r \in Requests : RequestInv(r)'
    BY <2>1 DEF RequestInv, Idle
  <2>. QED  BY <2>2, <2>3, <2>4 DEF PrefixInv
<1>14. CASE UNCHANGED vars
  BY <1>14 DEF vars, PrefixInv, NoTaskSkipped, WorkInv, ChannelInv, TickInv, DownInv,
               RequestInv, InHand
<1>. QED
  BY <1>1, <1>2, <1>3, <1>4, <1>5, <1>6, <1>7, <1>8, <1>9, <1>10, <1>12, <1>13, <1>14 DEF Next

\* What keeps the tasks in hand in line with the processed one.
LEMMA NextOrder == TypeOK /\ PrefixInv /\ OrderInv /\ [Next]_vars => OrderInv'
<1> SUFFICES ASSUME TypeOK, PrefixInv, OrderInv, [Next]_vars,
                    (component # "down" /\ ~overlapped /\ ~stale)'
             PROVE  Orderly'
  BY DEF OrderInv
<1> USE ListenerAssumption DEF TypeOK, NoTick, Requests, Tasks
<1>1. CASE CreateTask
  BY <1>1 DEF CreateTask, OrderInv, Orderly, Base, InFlight
<1>2. CASE TakeTask
  <2>1. Orderly
    BY <1>2 DEF TakeTask, OrderInv
  <2>2. /\ working = 0 /\ channel # <<>>
        /\ working' = channel[1]
        /\ Len(channel') = Len(channel) - 1
        /\ \A j \in 1..Len(channel') : channel'[j] = channel[j + 1]
        /\ UNCHANGED <<processed, tick, request, queried>>
    BY <1>2 DEF TakeTask
  <2>3. channel[1] = processed + 1 /\ Base = processed /\ Base' = processed + 1
    BY <2>1, <2>2 DEF Orderly, Base
  <2>4. \A i \in 1..Len(channel') : channel'[i] = Base' + i
    BY <2>1, <2>2, <2>3 DEF Orderly
  <2>5. Base' + Len(channel') = Base + Len(channel)
    BY <2>2, <2>3
  <2>6. InFlight' = InFlight
    BY <2>2 DEF InFlight
  <2>7. ASSUME NEW q \in Requests
        PROVE  /\ (request[q].stage = "requesting")' => FALSE
               /\ (request[q].stage = "sending" => request[q].next = Base + Len(channel) + 1)'
               /\ (request[q].stage = "saving" => request[q].last = Base + Len(channel))'
    BY <2>1, <2>2, <2>5 DEF Orderly
  <2>. QED  BY <2>1, <2>2, <2>3, <2>4, <2>5, <2>6, <2>7 DEF Orderly
<1>3. CASE RecordTask
  <2>1. Orderly
    BY <1>3 DEF RecordTask, OrderInv
  <2>2. /\ working # 0 /\ working' = 0 /\ processed' = working
        /\ UNCHANGED <<channel, tick, request, queried>>
    BY <1>3 DEF RecordTask
  <2>3. Base' = Base /\ processed' = processed + 1
    BY <2>1, <2>2 DEF Orderly, Base
  <2>4. InFlight' = InFlight
    BY <2>2 DEF InFlight
  <2>5. tick' # NoTick => tick' <= processed'
    BY <2>1, <2>2, <2>3 DEF Orderly
  <2>. QED  BY <2>1, <2>2, <2>3, <2>4, <2>5 DEF Orderly
<1>4. CASE Start
  <2>1. /\ channel = <<>> /\ working = 0 /\ tick = NoTick
        /\ \A r \in Requests : request[r] = Idle
    BY <1>4 DEF Start, PrefixInv, DownInv
  <2>2. ~(processed = 0 /\ queried # 0)
    BY <1>4 DEF Start
  <2>3. queried' = processed /\ UNCHANGED <<processed, channel, working, tick, request>>
    BY <1>4, <2>2 DEF Start, QueriedAtStart
  <2>. QED  BY <2>1, <2>3 DEF Orderly, Base, InFlight, Idle
<1>5. CASE Tick
  BY <1>5 DEF Tick, LatestTask, OrderInv, Orderly, Base, InFlight
<1>6. ASSUME NEW r \in Requests, Poll(r)
      PROVE Orderly'
  <2>1. /\ InFlight = {} /\ ~overlapped /\ ~stale /\ tick # NoTick
        /\ tick = queried /\ request[r] = Idle
    BY <1>6 DEF Poll, CaughtUp
  <2>2. Orderly
    BY <1>6, <2>1 DEF OrderInv, Poll, PrefixInv, TickInv
  <2>3. queried = Base + Len(channel) /\ tick <= processed
    BY <2>1, <2>2 DEF Orderly
  <2>4. tick = processed /\ working = 0 /\ channel = <<>>
    BY <2>1, <2>2, <2>3 DEF Orderly, Base
  <2>5. /\ request' = [request EXCEPT ![r] = [stage |-> "requesting", next |-> tick + 1,
                                             last |-> tick]]
        /\ tick' = NoTick
        /\ UNCHANGED <<processed, queried, channel, working>>
    BY <1>6 DEF Poll
  <2>6. \A q \in Requests : q # r => request'[q].stage = "idle"
    BY <2>1, <2>5 DEF InFlight
  <2>7. request'[r].stage = "requesting" /\ request'[r].last = tick
    BY <2>5
  <2>8. InFlight' = {r}
    BY <2>6, <2>7 DEF InFlight
  <2>. QED  BY <2>1, <2>2, <2>4, <2>5, <2>6, <2>7, <2>8 DEF Orderly, Base
<1>7. CASE SkipPoll
  BY <1>7 DEF SkipPoll, OrderInv, Orderly, Base, InFlight
<1>8. ASSUME NEW r \in Requests, Respond(r)
      PROVE Orderly'
  <2>1. component # "down"
    BY <1>8 DEF Respond
  <2>2. Orderly
    BY <1>8, <2>1 DEF Respond, OrderInv
  <2>3. /\ request[r].stage = "requesting" /\ request[r].last = processed
        /\ queried = processed /\ working = 0 /\ channel = <<>>
    BY <1>8, <2>2 DEF Respond, Orderly
  <2>4. UNCHANGED <<processed, queried, channel, working, tick>>
    BY <1>8 DEF Respond
  <2>5. \A q \in Requests : q # r => request[q].stage = "idle" /\ request'[q] = request[q]
    BY <1>8, <2>2, <2>3 DEF Respond, Orderly, InFlight
  <2>6. \/ request'[r].stage = "sending" /\ request'[r].next = processed + 1
        \/ request'[r].stage = "idle"
    BY <1>8, <2>3 DEF Respond, Idle
  <2>7. \A q \in InFlight' : q = r
    BY <2>5 DEF InFlight
  <2>8. /\ Base' = processed /\ Len(channel') = 0
    BY <2>3, <2>4 DEF Base
  <2>9. \A q, p \in InFlight' : q = p
    BY <2>7
  <2>10. ASSUME NEW q \in Requests
         PROVE  \/ request'[q].stage = "sending" /\ request'[q].next = processed + 1
                \/ request'[q].stage = "idle"
    BY <2>5, <2>6
  <2>11. \A q \in Requests :
           /\ request'[q].stage \notin {"requesting", "saving"}
           /\ request'[q].stage = "sending" => request'[q].next = Base' + Len(channel') + 1
    <3>1. Base' + Len(channel') + 1 = processed + 1
      BY <2>8
    <3>. QED  BY <3>1, <2>10
  <2>12. tick' # NoTick => tick' <= processed'
    BY <2>2, <2>4 DEF Orderly
  <2>13. queried' = Base' + Len(channel')
    BY <2>3, <2>4, <2>8
  <2>. QED  BY <2>3, <2>4, <2>9, <2>11, <2>12, <2>13 DEF Orderly
<1>9. ASSUME NEW r \in Requests, RequestFails(r)
      PROVE Orderly'
  <2>1. Orderly
    BY <1>9 DEF RequestFails, OrderInv
  <2>2. /\ request[r].stage = "requesting"
        /\ queried = processed /\ working = 0 /\ channel = <<>>
    BY <1>9, <2>1 DEF RequestFails, Orderly
  <2>3. UNCHANGED <<processed, queried, channel, working, tick>>
    BY <1>9 DEF RequestFails
  <2>4. \A q \in Requests : request'[q].stage = "idle"
    BY <1>9, <2>1, <2>2 DEF RequestFails, Orderly, InFlight, Idle
  <2>. QED  BY <2>1, <2>2, <2>3, <2>4 DEF Orderly, Base, InFlight
<1>10. ASSUME NEW r \in Requests, SendTask(r)
       PROVE Orderly'
  <2>1. Orderly
    BY <1>10 DEF SendTask, OrderInv
  <2>2. /\ request[r].stage = "sending" /\ request[r].next = Base + Len(channel) + 1
        /\ request[r].next \in 1..request[r].last /\ request[r].last \in 0..created
    BY <1>10, <2>1 DEF SendTask, Orderly, PrefixInv, RequestInv
  <2>3. UNCHANGED <<processed, queried, working, tick>> /\ Base' = Base
    BY <1>10 DEF SendTask, Base
  <2>4. /\ Len(channel') = Len(channel) + 1
        /\ \A j \in 1..Len(channel) : channel'[j] = channel[j]
        /\ channel'[Len(channel) + 1] = request[r].next
    <3>1. request[r].next \in 1..created
      BY <2>2
    <3>. QED  BY <1>10, <3>1 DEF SendTask
  <2>10. Base \in Nat /\ Len(channel) \in Nat
    BY DEF Base
  <2>5. ASSUME NEW i \in 1..Len(channel') PROVE channel'[i] = Base' + i
    <3>1. CASE i \in 1..Len(channel)
      <4>1. channel[i] = Base + i
        BY <3>1, <2>1 DEF Orderly
      <4>. QED  BY <4>1, <3>1, <2>3, <2>4
    <3>2. CASE i = Len(channel) + 1
      BY <3>2, <2>2, <2>3, <2>4, <2>10
    <3>. QED  BY <3>1, <3>2, <2>4
  <2>6. \A q \in Requests : q # r => request[q].stage = "idle" /\ request'[q] = request[q]
    BY <1>10, <2>1, <2>2 DEF SendTask, Orderly, InFlight
  <2>7. /\ request'[r].next = request[r].next + 1 /\ request'[r].last = request[r].last
        /\ request'[r].stage = IF request[r].next = request[r].last
                               THEN "saving" ELSE "sending"
    BY <1>10 DEF SendTask
  <2>8. InFlight' = {r}
    BY <2>6, <2>7 DEF InFlight
  <2>9. /\ request'[r].next = Base' + Len(channel') + 1
        /\ request'[r].stage = "saving" => request'[r].last = Base' + Len(channel')
    <3>1. request'[r].next = Base' + Len(channel') + 1
      BY <2>2, <2>3, <2>4, <2>7, <2>10
    <3>2. request'[r].stage = "saving" => request'[r].last = request[r].next
      BY <2>7
    <3>3. request[r].next = Base' + Len(channel')
      BY <2>2, <2>3, <2>4, <2>10
    <3>. QED  BY <3>1, <3>2, <3>3
  <2>. QED  BY <2>1, <2>3, <2>5, <2>6, <2>7, <2>8, <2>9 DEF Orderly
<1>11. ASSUME NEW r \in Requests, SaveQueried(r)
       PROVE Orderly'
  <2>1. Orderly
    BY <1>11 DEF SaveQueried, OrderInv
  <2>2. /\ request[r].stage = "saving" /\ request[r].last = Base + Len(channel)
    BY <1>11, <2>1 DEF SaveQueried, Orderly
  <2>3. /\ UNCHANGED <<processed, channel, working, tick>> /\ Base' = Base
        /\ queried' = request[r].last
    BY <1>11 DEF SaveQueried, Base
  <2>4. \A q \in Requests : request'[q].stage = "idle"
    BY <1>11, <2>1, <2>2 DEF SaveQueried, Orderly, InFlight, Idle
  <2>. QED  BY <2>1, <2>2, <2>3, <2>4 DEF Orderly, InFlight
<1>12. ASSUME NEW r \in Requests, SaveFails(r)
       PROVE Orderly'
  BY <1>12 DEF SaveFails
<1>13. CASE ComponentStops
  <2>1. Orderly
    BY <1>13 DEF ComponentStops, OrderInv
  <2>2. /\ UNCHANGED <<processed, queried, channel, working>> /\ Base' = Base
        /\ tick' = NoTick
    BY <1>13 DEF ComponentStops, Base
  <2>3. ASSUME NEW q \in Requests
        PROVE  \/ request[q].stage = "requesting" /\ request'[q] = Idle
               \/ request[q].stage # "requesting" /\ request'[q] = request[q]
    BY <1>13 DEF ComponentStops
  <2>4. InFlight' \subseteq InFlight
    BY <2>3 DEF InFlight, Idle
  <2>5. InFlight' = {} => queried = Base + Len(channel)
    <3>1. CASE InFlight = {}
      BY <3>1, <2>1 DEF Orderly
    <3>2. CASE \E q \in Requests : request[q].stage = "requesting"
      BY <3>2, <2>1 DEF Orderly, Base
    <3>3. CASE InFlight # {} /\ \A q \in Requests : request[q].stage # "requesting"
      <4>1. InFlight' = InFlight
        BY <3>3, <2>3 DEF InFlight
      <4>. QED  BY <4>1, <3>3
    <3>. QED  BY <3>1, <3>2, <3>3
  <2>6. \A q, p \in InFlight' : q = p
    BY <2>1, <2>4 DEF Orderly
  <2>7. ASSUME NEW q \in Requests, request'[q].stage # "idle"
        PROVE  request'[q] = request[q] /\ request[q].stage # "requesting"
    BY <2>3, <2>7 DEF Idle
  <2>8. /\ working' # 0 => working' = processed' + 1
        /\ \A i \in 1..Len(channel') : channel'[i] = Base' + i
        /\ tick' # NoTick => tick' <= processed'
        /\ InFlight' = {} => queried' = Base' + Len(channel')
    BY <2>1, <2>2, <2>5 DEF Orderly
  <2>9. \A q \in Requests :
          /\ request'[q].stage # "requesting"
          /\ request'[q].stage = "sending" => request'[q].next = Base' + Len(channel') + 1
          /\ request'[q].stage = "saving" => request'[q].last = Base' + Len(channel')
    BY <2>1, <2>2, <2>7 DEF Orderly
  <2>. QED  BY <2>6, <2>8, <2>9 DEF Orderly
<1>14. CASE ProcessEnds \/ Crash
  BY <1>14 DEF ProcessEnds, Crash, LoseMemory
<1>15. CASE UNCHANGED vars
  BY <1>15 DEF vars, OrderInv, Orderly, Base, InFlight
<1>. QED
  BY <1>1, <1>2, <1>3, <1>4, <1>5, <1>6, <1>7, <1>8, <1>9, <1>10, <1>11, <1>12, <1>13, <1>14,
     <1>15 DEF Next

-----------------------------------------------------------------------------

(* The invariant holds in every state of the specification, whatever the   *)
(* relayer, the API and the requests do and wherever the process ends.     *)
THEOREM Invariance == Spec => []IInv
<1>1. Init => IInv
  BY InitIInv
<1>2. IInv /\ [Next]_vars => IInv'
  BY NextTypeOK, NextPrefix, NextOrder DEF IInv
<1>. QED  BY <1>1, <1>2, PTL DEF Spec

(* Every variable keeps to its type: what is in the channel and in the     *)
(* requests are tasks the API has created.                                 *)
THEOREM TypeCorrect == Spec => []TypeOK
<1>1. IInv => TypeOK
  BY DEF IInv
<1>. QED  BY Invariance, <1>1, PTL

(* Everything up to latest_processed_task_id was processed, so a request   *)
(* made after that id, by this process or the next, skips nothing.         *)
THEOREM NothingSkipped == Spec => []NoTaskSkipped
<1>1. IInv => NoTaskSkipped
  BY DEF IInv, PrefixInv
<1>. QED  BY Invariance, <1>1, PTL

(* The listener stops polling for good only after requests overlapped or   *)
(* latest_queried_task_id missed a write.                                  *)
THEOREM StallHasCause == Spec => []StallNeedsCause
<1>1. IInv => StallNeedsCause
  <2> SUFFICES ASSUME IInv, Stalled, ~overlapped, ~stale
               PROVE  FALSE
    BY DEF StallNeedsCause, IInv, TypeOK
  <2>1. Orderly /\ InFlight = {} /\ channel = <<>> /\ working = 0 /\ processed # queried
    BY DEF IInv, OrderInv, Stalled
  <2>2. processed \in Nat /\ queried \in Nat /\ Len(channel) = 0
    BY <2>1, ListenerAssumption DEF IInv, TypeOK
  <2>. QED  BY <2>1, <2>2 DEF Orderly, Base
<1>. QED  BY Invariance, <1>1, PTL

(* Without either cause the relayer is handed each task once, in the order *)
(* of the API.                                                             *)
THEOREM InLine == Spec => NextInLine
<1>1. IInv /\ IInv' /\ [Next]_vars
        => [working' \notin {0, working} /\ ~overlapped /\ ~stale
              => working' = processed + 1]_vars
  <2> SUFFICES ASSUME IInv, IInv', [Next]_vars, working' \notin {0, working},
                      ~overlapped, ~stale
               PROVE  working' = processed + 1
    OBVIOUS
  <2>1. TakeTask
    BY DEF Next, vars, CreateTask, RecordTask, Start, Tick, SkipPoll, Poll, Respond,
           RequestFails, SendTask, SaveQueried, SaveFails, ComponentStops, ProcessEnds, Crash,
           LoseMemory
  <2>2. Orderly' /\ working' # 0 /\ processed' = processed
    BY <2>1 DEF TakeTask, IInv, OrderInv
  <2>. QED  BY <2>2 DEF Orderly
<1>. QED  BY Invariance, <1>1, PTL DEF Spec, NextInLine

(* The listener and its relayer implement TaskRelay: a task is enqueued    *)
(* when the relayer records it, and the position moves with it.            *)
THEOREM Refinement == Spec => ImplementsRelaySafe
<1>1. Init => Relay!RelayInit
  BY DEF Init, Relay!RelayInit
<1>2. IInv /\ IInv' /\ [Next]_vars => [Relay!RelayNext]_Relay!relayVars
  <2> SUFFICES ASSUME IInv, IInv', [Next]_vars
               PROVE  [Relay!RelayNext]_Relay!relayVars
    OBVIOUS
  <2>1. CASE CreateTask
    BY <2>1 DEF CreateTask, Relay!RelayNext, Relay!Create
  <2>2. CASE RecordTask
    <3>1. working \in 1..created
      BY <2>2, ListenerAssumption DEF RecordTask, IInv, TypeOK
    <3>2. 1..processed' \subseteq done'
      BY DEF IInv, PrefixInv, NoTaskSkipped
    <3>3. Relay!Enqueue(working)
      BY <2>2, <3>2 DEF RecordTask, Relay!Enqueue
    <3>. QED  BY <3>1, <3>3 DEF Relay!RelayNext
  <2>3. CASE UNCHANGED <<created, done, processed>>
    BY <2>3 DEF Relay!relayVars
  <2>4. CreateTask \/ RecordTask \/ UNCHANGED <<created, done, processed>>
    BY DEF Next, vars, TakeTask, Start, Tick, SkipPoll, Poll, Respond, RequestFails, SendTask,
           SaveQueried, SaveFails, ComponentStops, ProcessEnds, Crash, LoseMemory
  <2>. QED  BY <2>1, <2>2, <2>3, <2>4
<1>. QED
  BY Invariance, <1>1, <1>2, PTL DEF Spec, ImplementsRelaySafe, Relay!RelaySafe
=============================================================================
