-------------------------- MODULE GcpIngesterProofs ---------------------------
(***************************************************************************)
(* For every set of messages, number of slots, of deliveries and of        *)
(* faults: the ingester over Google Pub/Sub posts an event once more only  *)
(* after a fault, and implements the safety part of EventRelay.            *)
(***************************************************************************)
EXTENDS GcpIngester, FiniteSetTheorems, TLAPS

\* Copies are numbered in the order they were delivered; one that does not
\* decode goes nowhere.
CopiesInv ==
  \A m \in Messages, k \in Copies :
    /\ stage[m][k] = "none" <=> k > deliveries[m]
    /\ m \in Poison => stage[m][k] \in {"none", "received", "ended"}

\* The delivery that holds message m is over, or is given up.
Spent(m) == lease[m] = 0 \/ stage[m][lease[m]] \in {"refused", "ended"}

\* A message is delivered once more only after a fault of its last delivery.
LeaseInv ==
  \A m \in Messages :
    /\ lease[m] \in {0, deliveries[m]}
    /\ m \notin Poison => deliveries[m] <= faults + 1
    /\ m \notin Poison /\ m \in backlog /\ Spent(m) => deliveries[m] <= faults
    /\ \A k \in Copies : stage[m][k] = "marking" => m \notin backlog

DoneStages == {"answered", "refused", "marking", "ended"}

\* The copies of m that will not be posted (again).
Done(m) == {k \in Copies : stage[m][k] \in DoneStages}

PostsInv == \A m \in Messages : posts[m] <= Cardinality(Done(m))

PoisonInv == \A m \in Poison : posts[m] = 0

\* What is acknowledged or marked was posted.
PostedInv ==
  /\ markers \subseteq Posted
  /\ \A m \in Messages, k \in Copies :
       /\ stage[m][k] \in {"answered", "marking"} => posts[m] > 0
       /\ stage[m][k] = "duplicate" => EventOf[m] \in Posted

IngesterInv ==
  /\ TypeOK /\ CopiesInv /\ LeaseInv /\ PostsInv /\ PoisonInv
  /\ PostedInv /\ DeadOnlyAfterFaults

-----------------------------------------------------------------------------
(* Copies                                                                  *)

\* There are finitely many copies of a message.
LEMMA CopiesFinite ==
  ASSUME NEW S, S \subseteq Copies
  PROVE  IsFiniteSet(S) /\ Cardinality(S) \in Nat
<1>1. IsFiniteSet(Copies)
  BY FS_Interval, IngesterAssumption DEF Copies
<1>2. QED BY <1>1, FS_Subset, FS_CardinalityType

\* The copies that are done are some of them ...
LEMMA DoneFinite ==
  ASSUME NEW m \in Messages
  PROVE  /\ IsFiniteSet(Done(m)) /\ Cardinality(Done(m)) \in Nat
         /\ IsFiniteSet(Done(m)') /\ Cardinality(Done(m)') \in Nat
<1>1. Done(m) \subseteq Copies /\ Done(m)' \subseteq Copies
  BY DEF Done
<1>2. QED BY <1>1, CopiesFinite

\* The numbers of the copies delivered are as many as the deliveries.
LEMMA UpTo == ASSUME NEW d \in Nat PROVE IsFiniteSet(1..d) /\ Cardinality(1..d) = d
BY FS_Interval

\* ... at most those delivered.
LEMMA DoneDelivered ==
  ASSUME TypeOK, CopiesInv, NEW m \in Messages
  PROVE  Cardinality(Done(m)) <= deliveries[m]
<1>1. deliveries[m] \in Nat /\ IsFiniteSet(1..deliveries[m]) /\ Cardinality(1..deliveries[m]) = deliveries[m]
  <2>1. deliveries[m] \in Nat
    BY IngesterAssumption DEF TypeOK
  <2>2. QED BY <2>1, UpTo
<1>2. Done(m) \subseteq 1..deliveries[m]
  BY <1>1 DEF Done, DoneStages, CopiesInv, Copies
<1>3. QED BY <1>1, <1>2, FS_Subset

\* Copies that are done stay so.
LEMMA DoneGrows ==
  ASSUME NEW m \in Messages,
         \A k \in Copies : stage[m][k] \in DoneStages => stage'[m][k] \in DoneStages
  PROVE  /\ Cardinality(Done(m)) <= Cardinality(Done(m)')
         /\ \A k \in Copies : stage[m][k] \notin DoneStages /\ stage'[m][k] \in DoneStages
              => Cardinality(Done(m)) + 1 <= Cardinality(Done(m)')
<1>1. IsFiniteSet(Done(m)') /\ IsFiniteSet(Done(m))
  BY DoneFinite
<1>2. Done(m) \subseteq Done(m)'
  BY DEF Done
<1>3. Cardinality(Done(m)) \in Nat /\ Cardinality(Done(m)') \in Nat
  BY DoneFinite
<1>4. Cardinality(Done(m)) <= Cardinality(Done(m)')
  BY <1>1, <1>2, FS_Subset
<1>5. ASSUME NEW k \in Copies, stage[m][k] \notin DoneStages, stage'[m][k] \in DoneStages
      PROVE  Cardinality(Done(m)) + 1 <= Cardinality(Done(m)')
  <2>1. k \notin Done(m) /\ Done(m) \union {k} \subseteq Done(m)'
    BY <1>2, <1>5 DEF Done
  <2>2. Cardinality(Done(m) \union {k}) = Cardinality(Done(m)) + 1
    BY <1>1, <2>1, FS_AddElement
  <2>3. QED BY <1>1, <2>1, <2>2, FS_Subset
<1>6. QED BY <1>4, <1>5

\* What was posted stays posted.
LEMMA PostedGrows ==
  ASSUME TypeOK, posts' \in [Messages -> Nat], \A m \in Messages : posts[m] <= posts'[m]
  PROVE  Posted \subseteq Posted' /\ \A m \in Messages : posts'[m] > 0 => EventOf[m] \in Posted'
<1>1. \A m \in Messages : posts[m] \in Nat /\ posts'[m] \in Nat
  BY IngesterAssumption DEF TypeOK
<1>2. QED BY <1>1 DEF Posted

-----------------------------------------------------------------------------
(* A step of one copy                                                      *)

\* Only copy k of message m moves, and it was delivered.
Moves(m, k) ==
  /\ stage' \in [Messages -> [Copies -> Stages]]
  /\ stage[m][k] # "none" /\ stage'[m][k] # "none"
  /\ \A n \in Messages, l \in Copies : <<n, l>> # <<m, k>> => stage'[n][l] = stage[n][l]

\* A Step of one copy changes that copy alone, from one of the stages named.
LEMMA StepMoves ==
  ASSUME TypeOK, NEW m \in Messages, NEW k \in Copies, NEW from, "none" \notin from,
         NEW to \in Stages \ {"none"}, Step(m, k, from, to)
  PROVE  Moves(m, k) /\ stage[m][k] \in from /\ stage'[m][k] = to
BY DEF TypeOK, Step, Moves

\* A copy is given up after a fault, or when another delivery or nobody holds
\* its message; what it posts is counted, and it acknowledges what was posted.
LEMMA CopyStep ==
  ASSUME IngesterInv, NEW m \in Messages, NEW k \in Copies, Moves(m, k),
         UNCHANGED <<dead, deliveries>>, backlog' \in {backlog, backlog \ {m}},
         \/ lease' = lease
         \/ lease[m] = k /\ lease' = [lease EXCEPT ![m] = 0] /\ stage[m][k] = "refused",
         \/ posts' = posts
         \/ /\ posts' = [posts EXCEPT ![m] = @ + 1]
            /\ stage[m][k] = "posting" /\ stage'[m][k] = "answered",
         markers' \subseteq Events, markers' \subseteq Posted,
         faults' \in 0..MaxFaults, faults <= faults',
         stage[m][k] \in DoneStages => stage'[m][k] \in DoneStages,
         stage'[m][k] \in {"refused", "ended"} =>
           \/ stage[m][k] \in {"refused", "ended"} \/ faults' = faults + 1
           \/ m \in Poison \/ lease[m] # k \/ m \notin backlog',
         stage'[m][k] = "marking" => m \notin backlog' /\ posts[m] > 0,
         stage'[m][k] = "answered" => posts' # posts,
         stage'[m][k] = "duplicate" => EventOf[m] \in Posted,
         m \in Poison => stage'[m][k] = "ended"
  PROVE  IngesterInv'
<1> USE DEF IngesterInv
<1>1. /\ stage' \in [Messages -> [Copies -> Stages]]
      /\ stage[m][k] # "none" /\ stage'[m][k] # "none"
      /\ \A n \in Messages, l \in Copies : <<n, l>> # <<m, k>> => stage'[n][l] = stage[n][l]
  BY DEF Moves
<1>2. /\ MaxFaults \in Nat /\ faults \in Nat /\ faults' \in Nat /\ MaxDeliveries \in Nat \ {0}
      /\ \A n \in Messages : posts[n] \in Nat /\ deliveries[n] \in 0..MaxDeliveries /\ deliveries[n] \in Nat
      /\ k \in Nat \ {0}
  BY IngesterAssumption DEF TypeOK, Copies
<1>3. lease' \in [Messages -> 0..MaxDeliveries] /\ \A n \in Messages : lease'[n] \in {lease[n], 0}
  BY <1>2 DEF TypeOK
<1>4. posts' \in [Messages -> Nat] /\ \A n \in Messages : posts[n] <= posts'[n]
  <2>1. posts \in [Messages -> Nat] /\ \A n \in Messages : posts[n] \in Nat
    BY DEF TypeOK
  <2>2. CASE posts' = posts
    BY <2>1, <2>2
  <2>3. CASE posts' = [posts EXCEPT ![m] = @ + 1]
    <3>1. posts' \in [Messages -> Nat]
      BY <2>1, <2>3
    <3>2. \A n \in Messages : posts'[n] = IF n = m THEN posts[n] + 1 ELSE posts[n]
      BY <2>1, <2>3
    <3>. QED BY <2>1, <3>1, <3>2
  <2>. QED BY <2>2, <2>3
<1>5. CopiesInv'
  BY <1>1 DEF CopiesInv
<1>6. PostsInv'
  <2> SUFFICES ASSUME NEW n \in Messages PROVE posts'[n] <= Cardinality(Done(n)')
    BY DEF PostsInv
  <2>1. \A l \in Copies : stage[n][l] \in DoneStages => stage'[n][l] \in DoneStages
    BY <1>1
  <2>2. /\ posts[n] <= Cardinality(Done(n)) /\ Cardinality(Done(n)) \in Nat
        /\ Cardinality(Done(n)) <= Cardinality(Done(n)')
    BY <2>1, DoneFinite, DoneGrows DEF PostsInv
  <2>3. Cardinality(Done(n)') \in Nat
    BY DoneFinite
  <2>4. CASE posts'[n] = posts[n]
    BY <1>2, <2>2, <2>3, <2>4
  <2>5. CASE posts'[n] # posts[n]
    <3>1. n = m /\ posts'[n] = posts[n] + 1 /\ stage[m][k] = "posting" /\ stage'[m][k] = "answered"
      BY <2>5 DEF TypeOK
    <3>2. Cardinality(Done(n)) + 1 <= Cardinality(Done(n)')
      BY <2>1, <3>1, DoneGrows DEF DoneStages
    <3>3. QED BY <1>2, <2>2, <2>3, <3>1, <3>2
  <2>6. QED BY <2>4, <2>5
<1>7. TypeOK'
  <2>1. \A n \in Messages : posts'[n] \in 0..MaxDeliveries
    <3> SUFFICES ASSUME NEW n \in Messages PROVE posts'[n] \in 0..MaxDeliveries
      OBVIOUS
    <3>1. \A l \in Copies : stage'[n][l] = "none" <=> l > deliveries'[n]
      BY <1>5 DEF CopiesInv
    <3>2. Done(n)' \subseteq 1..deliveries[n]
      BY <1>2, <3>1 DEF Done, DoneStages, Copies
    <3>3. Cardinality(Done(n)') \in Nat /\ Cardinality(Done(n)') <= deliveries[n]
      <4>1. IsFiniteSet(1..deliveries[n]) /\ Cardinality(1..deliveries[n]) = deliveries[n]
        <5>1. deliveries[n] \in Nat
          BY <1>2
        <5>2. QED BY <5>1, UpTo
      <4>2. Cardinality(Done(n)') \in Nat
        BY DoneFinite
      <4>3. Cardinality(Done(n)') <= Cardinality(1..deliveries[n])
        BY <3>2, <4>1, FS_Subset
      <4>4. QED BY <4>1, <4>2, <4>3
    <3>4. posts'[n] <= Cardinality(Done(n)') /\ posts'[n] \in Nat
      BY <1>4, <1>6 DEF PostsInv
    <3>5. QED BY <1>2, <3>3, <3>4
  <2>2. posts' \in [Messages -> 0..MaxDeliveries]
    BY <1>4, <2>1
  <2>3. backlog' \subseteq Messages
    BY DEF TypeOK
  <2>4. QED BY <1>1, <1>3, <2>2, <2>3 DEF TypeOK
<1>8. LeaseInv'
  <2> SUFFICES ASSUME NEW n \in Messages
               PROVE  /\ lease'[n] \in {0, deliveries[n]}
                      /\ n \notin Poison => deliveries[n] <= faults' + 1
                      /\ n \notin Poison /\ n \in backlog' /\ Spent(n)' => deliveries[n] <= faults'
                      /\ \A l \in Copies : stage'[n][l] = "marking" => n \notin backlog'
    BY DEF LeaseInv
  <2>1. lease[n] \in {0, deliveries[n]} /\ (n \notin Poison => deliveries[n] <= faults + 1)
    BY DEF LeaseInv
  <2>2. lease'[n] \in {0, deliveries[n]}
    BY <1>3, <2>1
  <2>3. n \notin Poison => deliveries[n] <= faults' + 1
    BY <1>2, <2>1
  <2>4. \A l \in Copies : stage'[n][l] = "marking" => n \notin backlog'
    <3>1. \A l \in Copies : stage[n][l] = "marking" => n \notin backlog
      BY DEF LeaseInv
    <3>2. QED BY <1>1, <3>1
  <2>5. ASSUME n \notin Poison, n \in backlog', Spent(n)'
        PROVE  deliveries[n] <= faults'
    <3>1. n \in backlog /\ (Spent(n) => deliveries[n] <= faults)
      BY <2>5 DEF LeaseInv
    <3>2. CASE Spent(n)
      BY <1>2, <3>1, <3>2
    <3>3. CASE ~Spent(n)
      <4>1. lease[n] # 0 /\ stage[n][lease[n]] \notin {"refused", "ended"} /\ lease[n] \in Copies
        BY <1>2, <3>3 DEF Spent, TypeOK, Copies
      <4>2. lease'[n] = lease[n]
        BY <4>1, <1>3 DEF TypeOK
      <4>3. stage'[n][lease[n]] \in {"refused", "ended"}
        BY <2>5, <4>1, <4>2 DEF Spent
      <4>4. n = m /\ lease[n] = k
        BY <1>1, <4>1, <4>3
      <4>5. faults' = faults + 1
        BY <2>5, <4>1, <4>3, <4>4
      <4>6. QED BY <1>2, <2>1, <2>5, <4>5
    <3>4. QED BY <3>2, <3>3
  <2>6. QED BY <2>2, <2>3, <2>4, <2>5
<1>9. PostedInv'
  <2>1. Posted \subseteq Posted' /\ \A n \in Messages : posts'[n] > 0 => EventOf[n] \in Posted'
    BY <1>4, PostedGrows
  <2>2. ASSUME NEW n \in Messages, NEW l \in Copies
        PROVE  /\ stage'[n][l] \in {"answered", "marking"} => posts'[n] > 0
               /\ stage'[n][l] = "duplicate" => EventOf[n] \in Posted'
    <3>1. CASE <<n, l>> = <<m, k>>
      <4>1. stage'[n][l] = "answered" => posts'[n] = posts[n] + 1
        BY <3>1 DEF TypeOK
      <4>2. QED BY <1>2, <1>4, <2>1, <3>1, <4>1
    <3>2. CASE <<n, l>> # <<m, k>>
      <4>1. /\ stage'[n][l] = stage[n][l] /\ posts[n] <= posts'[n] /\ posts[n] \in Nat /\ posts'[n] \in Nat
            /\ stage[n][l] \in {"answered", "marking"} => posts[n] > 0
            /\ stage[n][l] = "duplicate" => EventOf[n] \in Posted
        BY <1>1, <1>2, <1>4, <3>2 DEF PostedInv
      <4>2. QED BY <2>1, <4>1
    <3>3. QED BY <3>1, <3>2
  <2>3. QED BY <2>1, <2>2 DEF PostedInv
<1>10. DeadOnlyAfterFaults'
  BY <1>2 DEF DeadOnlyAfterFaults
<1>11. PoisonInv'
  <2>1. Poison \subseteq Messages /\ (m \in Poison => stage[m][k] # "posting")
    BY IngesterAssumption DEF CopiesInv
  <2>2. QED BY <2>1 DEF PoisonInv, TypeOK
<1>12. QED BY <1>5, <1>6, <1>7, <1>8, <1>9, <1>10, <1>11

-----------------------------------------------------------------------------
(* The ingester                                                            *)

\* The invariant holds before anything is delivered.
LEMMA Initially == ASSUME Init PROVE IngesterInv
<1>1. 0 \in 0..MaxDeliveries /\ 0 \in 0..MaxFaults
  BY IngesterAssumption
<1>2. TypeOK
  BY <1>1 DEF Init, TypeOK, Stages
<1>3. CopiesInv
  BY IngesterAssumption DEF Init, CopiesInv, Copies
<1>4. LeaseInv
  BY DEF Init, LeaseInv
<1>5. PostsInv
  <2>1. \A m \in Messages : posts[m] = 0
    BY DEF Init
  <2>2. QED BY <2>1, DoneFinite DEF PostsInv
<1>6. PostedInv /\ DeadOnlyAfterFaults
  BY DEF Init, PostedInv, DeadOnlyAfterFaults
<1>7. PoisonInv
  BY IngesterAssumption DEF Init, PoisonInv
<1>8. QED BY <1>2, <1>3, <1>4, <1>5, <1>6, <1>7 DEF IngesterInv

\* A message that nobody holds is delivered.
LEMMA DeliverStep ==
  ASSUME IngesterInv, NEW m \in Messages, Deliver(m) PROVE IngesterInv'
<1> USE DEF IngesterInv
<1> DEFINE d == deliveries[m]
<1>1. /\ d \in 0..(MaxDeliveries - 1) /\ d \in Nat /\ d + 1 \in Copies /\ d + 1 \in 1..MaxDeliveries
      /\ m \in backlog /\ lease[m] = 0
      /\ deliveries' = [deliveries EXCEPT ![m] = d + 1] /\ lease' = [lease EXCEPT ![m] = d + 1]
      /\ stage' = [stage EXCEPT ![m][d + 1] = "received"]
      /\ UNCHANGED <<backlog, dead, markers, posts, faults>> /\ faults \in Nat
      /\ \A n \in Messages : deliveries[n] \in Nat
  BY IngesterAssumption DEF Deliver, TypeOK, Copies
<1> HIDE DEF d
<1>2. stage[m][d + 1] = "none"
  BY <1>1 DEF CopiesInv, d
<1>3. /\ stage' \in [Messages -> [Copies -> Stages]] /\ stage'[m][d + 1] = "received"
      /\ \A n \in Messages, l \in Copies : <<n, l>> # <<m, d + 1>> => stage'[n][l] = stage[n][l]
  BY <1>1 DEF TypeOK, Stages
<1>4. TypeOK'
  <2>1. /\ deliveries' \in [Messages -> 0..MaxDeliveries] /\ lease' \in [Messages -> 0..MaxDeliveries]
    BY <1>1 DEF TypeOK
  <2>2. QED BY <1>1, <1>3, <2>1 DEF TypeOK
<1>5. CopiesInv'
  <2> SUFFICES ASSUME NEW n \in Messages, NEW l \in Copies
               PROVE  /\ stage'[n][l] = "none" <=> l > deliveries'[n]
                      /\ n \in Poison => stage'[n][l] \in {"none", "received", "ended"}
    BY DEF CopiesInv
  <2>1. CASE n = m
    <3>1. deliveries'[n] = d + 1 /\ (stage[n][l] = "none" <=> l > d) /\ l \in Nat
      BY <1>1, <2>1, IngesterAssumption DEF TypeOK, CopiesInv, Copies, d
    <3>2. QED BY <1>1, <1>2, <1>3, <2>1, <3>1 DEF CopiesInv
  <2>2. CASE n # m
    BY <1>1, <1>3, <2>2 DEF TypeOK, CopiesInv
  <2>3. QED BY <2>1, <2>2
<1>6. LeaseInv'
  <2> SUFFICES ASSUME NEW n \in Messages
               PROVE  /\ lease'[n] \in {0, deliveries'[n]}
                      /\ n \notin Poison => deliveries'[n] <= faults + 1
                      /\ n \notin Poison /\ n \in backlog /\ Spent(n)' => deliveries'[n] <= faults
                      /\ \A l \in Copies : stage'[n][l] = "marking" => n \notin backlog
    BY <1>1 DEF LeaseInv
  <2>1. \A l \in Copies : stage'[n][l] = "marking" => n \notin backlog
    BY <1>3 DEF LeaseInv
  <2>2. CASE n = m
    <3>1. lease'[n] = d + 1 /\ deliveries'[n] = d + 1 /\ d + 1 # 0
      BY <1>1, <2>2 DEF TypeOK
    <3>2. n \notin Poison => d <= faults
      BY <1>1, <2>2 DEF LeaseInv, Spent, d
    <3>3. ~Spent(n)'
      BY <1>3, <2>2, <3>1 DEF Spent
    <3>4. QED BY <1>1, <2>1, <3>1, <3>2, <3>3
  <2>3. CASE n # m
    <3>1. lease'[n] = lease[n] /\ deliveries'[n] = deliveries[n] /\ lease[n] \in 0..MaxDeliveries
      BY <1>1, <2>3 DEF TypeOK
    <3>2. lease[n] # 0 => lease[n] \in Copies
      BY <3>1, IngesterAssumption DEF Copies
    <3>3. Spent(n)' => Spent(n)
      BY <1>3, <2>3, <3>1, <3>2 DEF Spent
    <3>4. QED BY <2>1, <3>1, <3>3 DEF LeaseInv
  <2>4. QED BY <2>2, <2>3
<1>7. PostsInv'
  <2> SUFFICES ASSUME NEW n \in Messages PROVE posts[n] <= Cardinality(Done(n)')
    BY <1>1 DEF PostsInv
  <2>1. Done(n)' = Done(n)
    BY <1>2, <1>3 DEF Done, DoneStages
  <2>2. QED BY <2>1 DEF PostsInv
<1>8. PostedInv'
  <2>1. Posted' = Posted
    BY <1>1 DEF Posted
  <2>2. QED BY <1>1, <1>3, <2>1 DEF PostedInv
<1>9. DeadOnlyAfterFaults'
  BY <1>1 DEF DeadOnlyAfterFaults
<1>10. PoisonInv'
  BY <1>1 DEF PoisonInv
<1>11. QED BY <1>4, <1>5, <1>6, <1>7, <1>8, <1>9, <1>10

\* A step of the subscription or of Redis in which no copy moves.
LEMMA QuietStep ==
  ASSUME IngesterInv, UNCHANGED <<deliveries, stage, posts>>,
         backlog' \subseteq backlog, dead' \subseteq Messages, markers' \subseteq markers,
         lease' \in [Messages -> 0..MaxDeliveries], \A m \in Messages : lease'[m] \in {0, lease[m]},
         faults' \in 0..MaxFaults, faults <= faults',
         \A m \in Messages : m \notin Poison /\ m \in backlog' /\ lease'[m] # lease[m]
           => stage[m][lease[m]] = "ended" \/ faults' = faults + 1,
         \A m \in dead' \ Poison : faults' >= MaxDeliveries
  PROVE  IngesterInv'
<1> USE DEF IngesterInv
<1>1. /\ MaxFaults \in Nat /\ faults \in Nat /\ faults' \in Nat
      /\ \A m \in Messages : deliveries[m] \in Nat
  BY IngesterAssumption DEF TypeOK
<1>2. TypeOK' /\ CopiesInv' /\ DeadOnlyAfterFaults'
  BY DEF TypeOK, CopiesInv, DeadOnlyAfterFaults
<1>3. PostsInv' /\ PostedInv'
  BY DEF PostsInv, PostedInv, Posted, Done
<1>4. LeaseInv'
  <2> SUFFICES ASSUME NEW m \in Messages
               PROVE  /\ lease'[m] \in {0, deliveries[m]}
                      /\ m \notin Poison => deliveries[m] <= faults' + 1
                      /\ m \notin Poison /\ m \in backlog' /\ Spent(m)' => deliveries[m] <= faults'
                      /\ \A k \in Copies : stage[m][k] = "marking" => m \notin backlog'
    BY DEF LeaseInv
  <2>1. lease[m] \in {0, deliveries[m]} /\ (m \notin Poison => deliveries[m] <= faults + 1)
        /\ (m \notin Poison /\ m \in backlog /\ Spent(m) => deliveries[m] <= faults)
        /\ \A k \in Copies : stage[m][k] = "marking" => m \notin backlog
    BY DEF LeaseInv
  <2>2. ASSUME m \notin Poison, m \in backlog', Spent(m)' PROVE deliveries[m] <= faults'
    <3>1. CASE lease'[m] = lease[m]
      BY <1>1, <2>1, <2>2, <3>1 DEF Spent
    <3>2. CASE lease'[m] # lease[m]
      <4>1. Spent(m) \/ faults' = faults + 1
        BY <2>2, <3>2 DEF Spent
      <4>2. QED BY <1>1, <2>1, <2>2, <4>1
    <3>3. QED BY <3>1, <3>2
  <2>3. QED BY <1>1, <2>1, <2>2
<1>5. PoisonInv'
  BY DEF PoisonInv
<1>6. QED BY <1>2, <1>3, <1>4, <1>5

\* A crash ends every copy, and is a fault.
LEMMA CrashStep == ASSUME IngesterInv, Crash PROVE IngesterInv'
<1> USE DEF IngesterInv
<1>1. /\ stage' = [m \in Messages |-> [k \in Copies |->
                     IF stage[m][k] = "none" THEN "none" ELSE "ended"]]
      /\ faults' = faults + 1 /\ faults < MaxFaults
      /\ UNCHANGED <<queueVars, markers, posts>>
  BY DEF Crash, Fault
<1>2. /\ MaxFaults \in Nat /\ faults \in Nat /\ faults' \in 0..MaxFaults
      /\ \A m \in Messages : posts[m] \in Nat
  BY <1>1, IngesterAssumption DEF TypeOK
<1>3. TypeOK'
  <2>1. stage' \in [Messages -> [Copies -> Stages]]
    BY <1>1 DEF Stages
  <2>2. QED BY <1>1, <1>2, <2>1 DEF TypeOK, queueVars
<1>4. CopiesInv'
  BY <1>1 DEF CopiesInv, queueVars
<1>5. LeaseInv'
  <2>1. /\ UNCHANGED <<backlog, deliveries, lease>> /\ \A m \in Messages : deliveries[m] \in Nat
        /\ \A m \in Messages, k \in Copies : stage'[m][k] # "marking"
    BY <1>1, IngesterAssumption DEF queueVars, TypeOK
  <2>2. \A m \in Messages : m \notin Poison => deliveries'[m] <= faults'
    BY <1>1, <1>2, <2>1 DEF LeaseInv
  <2>3. QED BY <1>2, <2>1, <2>2 DEF LeaseInv
<1>6. PostsInv'
  <2> SUFFICES ASSUME NEW m \in Messages PROVE posts[m] <= Cardinality(Done(m)')
    BY <1>1 DEF PostsInv
  <2>1. \A k \in Copies : stage[m][k] \in DoneStages => stage'[m][k] \in DoneStages
    BY <1>1 DEF DoneStages
  <2>2. Cardinality(Done(m)) <= Cardinality(Done(m)')
    BY <2>1, DoneGrows
  <2>3. Cardinality(Done(m)') \in Nat
    BY DoneFinite
  <2>4. posts[m] <= Cardinality(Done(m)) /\ Cardinality(Done(m)) \in Nat
    BY DoneFinite DEF PostsInv
  <2>5. QED BY <1>2, <2>2, <2>3, <2>4
<1>7. PostedInv'
  <2>1. Posted' = Posted
    BY <1>1 DEF Posted
  <2>2. QED BY <1>1, <2>1 DEF PostedInv
<1>8. DeadOnlyAfterFaults'
  BY <1>1, <1>2, IngesterAssumption DEF DeadOnlyAfterFaults, queueVars
<1>9. PoisonInv'
  BY <1>1 DEF PoisonInv
<1>10. QED BY <1>3, <1>4, <1>5, <1>6, <1>7, <1>8, <1>9

\* What a copy does, with or without a failed call, keeps the invariant.
LEMMA CopySteps ==
  ASSUME IngesterInv, NEW m \in Messages, NEW k \in Copies,
         \/ CheckReceived(m, k) \/ AckDuplicate(m, k) \/ StartPost(m, k) \/ ApiAnswers(m, k)
         \/ Ack(m, k) \/ Mark(m, k) \/ Nak(m, k)
         \/ PostFails(m, k) \/ CallFails(m, k) \/ StaleCallFails(m, k)
  PROVE  IngesterInv'
<1> USE DEF IngesterInv
<1>1. /\ TypeOK /\ MaxFaults \in Nat /\ faults \in 0..MaxFaults /\ faults <= faults
      /\ markers \subseteq Events /\ markers \subseteq Posted
      /\ posts \in [Messages -> Nat] /\ EventOf \in [Messages -> Events]
      /\ m \in Poison => stage[m][k] \in {"none", "received", "ended"}
      /\ stage[m][k] = "marking" => m \notin backlog
      /\ stage[m][k] \in {"answered", "marking"} => posts[m] > 0
  BY IngesterAssumption DEF IngesterInv, TypeOK, PostedInv, CopiesInv, LeaseInv
<1> USE DEF DoneStages
<1>2. CASE CheckReceived(m, k)
  <2>1. /\ Moves(m, k) /\ stage[m][k] = "received" /\ stage'[m][k] = Verdict(m)
        /\ UNCHANGED <<queueVars, markers, posts, faults>>
    <3>1. Step(m, k, {"received"}, Verdict(m)) /\ Verdict(m) \in Stages \ {"none"} /\ "none" \notin {"received"}
      BY <1>2 DEF CheckReceived, Verdict, Stages
    <3>2. Moves(m, k) /\ stage[m][k] \in {"received"} /\ stage'[m][k] = Verdict(m)
      BY <3>1, StepMoves
    <3>3. QED BY <1>2, <3>2 DEF CheckReceived
  <2>2. /\ Verdict(m) \in {"ended", "duplicate", "queued"} /\ (Verdict(m) = "ended" <=> m \in Poison)
        /\ Verdict(m) = "duplicate" => EventOf[m] \in markers
    BY DEF Verdict
  <2>3. QED BY <1>1, <2>1, <2>2, CopyStep DEF queueVars
<1>3. CASE AckDuplicate(m, k)
  <2>1. /\ Moves(m, k) /\ stage[m][k] = "duplicate" /\ stage'[m][k] = "ended"
        /\ backlog' = backlog \ {m} /\ UNCHANGED <<dead, deliveries, lease, markers, posts, faults>>
    <3>1. Step(m, k, {"duplicate"}, "ended") /\ "ended" \in Stages \ {"none"} /\ "none" \notin {"duplicate"}
      BY <1>3 DEF AckDuplicate, Stages
    <3>2. Moves(m, k) /\ stage[m][k] = "duplicate" /\ stage'[m][k] = "ended"
      BY <3>1, StepMoves
    <3>3. QED BY <1>3, <3>2 DEF AckDuplicate
  <2>2. QED BY <1>1, <2>1, CopyStep
<1>4. CASE StartPost(m, k)
  <2>1. /\ Moves(m, k) /\ stage[m][k] = "queued" /\ stage'[m][k] = "posting"
        /\ UNCHANGED <<queueVars, markers, posts, faults>>
    <3>1. Step(m, k, {"queued"}, "posting") /\ "posting" \in Stages \ {"none"} /\ "none" \notin {"queued"}
      BY <1>4 DEF StartPost, Stages
    <3>2. Moves(m, k) /\ stage[m][k] \in {"queued"} /\ stage'[m][k] = "posting"
      BY <3>1, StepMoves
    <3>3. QED BY <1>4, <3>2 DEF StartPost
  <2>2. QED BY <1>1, <2>1, CopyStep DEF queueVars
<1>5. CASE ApiAnswers(m, k)
  <2>1. /\ Moves(m, k) /\ stage[m][k] = "posting" /\ stage'[m][k] = "answered"
        /\ posts' = [posts EXCEPT ![m] = @ + 1]
        /\ UNCHANGED <<queueVars, markers, faults>>
    <3>1. Step(m, k, {"posting"}, "answered") /\ "answered" \in Stages \ {"none"} /\ "none" \notin {"posting"}
      BY <1>5 DEF ApiAnswers, Stages
    <3>2. Moves(m, k) /\ stage[m][k] \in {"posting"} /\ stage'[m][k] = "answered"
      BY <3>1, StepMoves
    <3>3. QED BY <1>5, <3>2 DEF ApiAnswers
  <2>2. posts' # posts
    BY <1>1, <2>1
  <2>3. QED BY <1>1, <2>1, <2>2, CopyStep DEF queueVars
<1>6. CASE Ack(m, k)
  <2>1. /\ Moves(m, k) /\ stage[m][k] = "answered" /\ stage'[m][k] = "marking"
        /\ backlog' = backlog \ {m} /\ UNCHANGED <<dead, deliveries, lease, markers, posts, faults>>
    <3>1. Step(m, k, {"answered"}, "marking") /\ "marking" \in Stages \ {"none"} /\ "none" \notin {"answered"}
      BY <1>6 DEF Ack, AckFrom, Stages
    <3>2. Moves(m, k) /\ stage[m][k] \in {"answered"} /\ stage'[m][k] = "marking"
      BY <3>1, StepMoves
    <3>3. QED BY <1>6, <3>2 DEF Ack
  <2>2. QED BY <1>1, <2>1, CopyStep
<1>7. CASE Mark(m, k)
  <2>1. /\ Moves(m, k) /\ stage[m][k] = "marking" /\ stage'[m][k] = "ended"
        /\ markers' = markers \union {EventOf[m]} /\ UNCHANGED <<queueVars, posts, faults>>
    <3>1. Step(m, k, {"marking"}, "ended") /\ "ended" \in Stages \ {"none"} /\ "none" \notin {"marking"}
      BY <1>7 DEF Mark, Stages
    <3>2. Moves(m, k) /\ stage[m][k] = "marking" /\ stage'[m][k] = "ended"
      BY <3>1, StepMoves
    <3>3. QED BY <1>7, <3>2 DEF Mark
  <2>2. EventOf[m] \in Posted /\ EventOf[m] \in Events
    BY <1>1, <2>1 DEF Posted
  <2>3. markers' \subseteq Events /\ markers' \subseteq Posted
    BY <1>1, <2>1, <2>2
  <2>4. QED BY <1>1, <2>1, <2>3, CopyStep DEF queueVars
<1>8. CASE Nak(m, k)
  <2>1. /\ Moves(m, k) /\ stage[m][k] = "refused" /\ stage'[m][k] = "ended"
        /\ lease' = [lease EXCEPT ![m] = IF @ = k THEN 0 ELSE @]
        /\ UNCHANGED <<backlog, dead, deliveries, markers, posts, faults>>
    <3>1. Step(m, k, {"refused"}, "ended") /\ "ended" \in Stages \ {"none"} /\ "none" \notin {"refused"}
      BY <1>8 DEF Nak, Stages
    <3>2. Moves(m, k) /\ stage[m][k] = "refused" /\ stage'[m][k] = "ended"
      BY <3>1, StepMoves
    <3>3. QED BY <1>8, <3>2 DEF Nak
  <2>2. lease' = lease \/ (lease[m] = k /\ lease' = [lease EXCEPT ![m] = 0])
    BY <1>1, <2>1 DEF TypeOK
  <2>3. QED BY <1>1, <2>1, <2>2, CopyStep
<1>9. CASE PostFails(m, k)
  <2>1. /\ Moves(m, k) /\ stage[m][k] \in {"posting", "answered"} /\ stage'[m][k] = "refused"
        /\ faults' = faults + 1 /\ faults < MaxFaults /\ UNCHANGED <<queueVars, markers, posts>>
    <3>1. Step(m, k, {"posting", "answered"}, "refused") /\ "refused" \in Stages \ {"none"} /\ "none" \notin {"posting", "answered"}
      BY <1>9 DEF PostFails, Stages
    <3>2. Moves(m, k) /\ stage[m][k] \in {"posting", "answered"} /\ stage'[m][k] = "refused"
      BY <3>1, StepMoves
    <3>3. QED BY <1>9, <3>2 DEF PostFails, Fault
  <2>2. faults' \in 0..MaxFaults /\ faults <= faults'
    BY <1>1, <2>1
  <2>3. QED BY <1>1, <2>1, <2>2, CopyStep DEF queueVars
<1>10. CASE CallFails(m, k)
  <2>1. /\ Moves(m, k) /\ stage[m][k] \in {"received", "duplicate", "answered", "refused", "marking"}
        /\ stage'[m][k] = "ended"
        /\ faults' = faults + 1 /\ faults < MaxFaults /\ UNCHANGED <<queueVars, markers, posts>>
    <3>1. Step(m, k, {"received", "duplicate", "answered", "refused", "marking"}, "ended") /\ "ended" \in Stages \ {"none"} /\ "none" \notin {"received", "duplicate", "answered", "refused", "marking"}
      BY <1>10 DEF CallFails, Stages
    <3>2. Moves(m, k) /\ stage[m][k] \in {"received", "duplicate", "answered", "refused", "marking"} /\ stage'[m][k] = "ended"
      BY <3>1, StepMoves
    <3>3. QED BY <1>10, <3>2 DEF CallFails, Fault
  <2>2. faults' \in 0..MaxFaults /\ faults <= faults'
    BY <1>1, <2>1
  <2>3. QED BY <1>1, <2>1, <2>2, CopyStep DEF queueVars
<1>11. CASE StaleCallFails(m, k)
  <2>1. /\ Moves(m, k) /\ stage[m][k] \in {"duplicate", "answered", "refused"} /\ stage'[m][k] = "ended"
        /\ lease[m] # k /\ UNCHANGED <<queueVars, markers, posts, faults>>
    <3>1. Step(m, k, {"duplicate", "answered", "refused"}, "ended") /\ "ended" \in Stages \ {"none"} /\ "none" \notin {"duplicate", "answered", "refused"}
      BY <1>11 DEF StaleCallFails, Stages
    <3>2. Moves(m, k) /\ stage[m][k] \in {"duplicate", "answered", "refused"} /\ stage'[m][k] = "ended"
      BY <3>1, StepMoves
    <3>3. QED BY <1>11, <3>2 DEF StaleCallFails
  <2>2. QED BY <1>1, <2>1, CopyStep DEF queueVars
<1>12. QED
  BY <1>2, <1>3, <1>4, <1>5, <1>6, <1>7, <1>8, <1>9, <1>10, <1>11

\* What the subscription and Redis do keeps the invariant.
LEMMA OtherSteps ==
  ASSUME IngesterInv,
         \/ \E m \in Messages : LeaseEnds(m) \/ LeaseLost(m) \/ DeadLetter(m)
         \/ \E e \in Events : MarkerExpires(e)
         \/ UNCHANGED vars
  PROVE  IngesterInv'
<1> USE DEF IngesterInv
<1>1. /\ TypeOK /\ MaxFaults \in Nat /\ faults \in 0..MaxFaults /\ faults <= faults
      /\ DeadOnlyAfterFaults /\ 0 \in 0..MaxDeliveries
      /\ lease \in [Messages -> 0..MaxDeliveries] /\ dead \subseteq Messages
  BY IngesterAssumption DEF TypeOK
<1>2. ASSUME NEW m \in Messages, LeaseEnds(m) PROVE IngesterInv'
  <2>1. /\ lease' = [lease EXCEPT ![m] = 0] /\ stage[m][lease[m]] = "ended"
        /\ UNCHANGED <<backlog, dead, deliveries, stage, markers, posts, faults>>
    BY <1>2 DEF LeaseEnds
  <2>2. QED BY <1>1, <2>1, QuietStep DEF DeadOnlyAfterFaults
<1>3. ASSUME NEW m \in Messages, LeaseLost(m) PROVE IngesterInv'
  <2>1. /\ lease' = [lease EXCEPT ![m] = 0] /\ faults' = faults + 1 /\ faults < MaxFaults
        /\ UNCHANGED <<backlog, dead, deliveries, stage, markers, posts>>
    BY <1>3 DEF LeaseLost, Fault
  <2>2. faults' \in 0..MaxFaults /\ faults <= faults'
    BY <1>1, <2>1
  <2>3. \A n \in dead' \ Poison : faults' >= MaxDeliveries
    BY <1>1, <2>1, IngesterAssumption DEF DeadOnlyAfterFaults
  <2>4. QED BY <1>1, <2>1, <2>2, <2>3, QuietStep
<1>4. ASSUME NEW m \in Messages, DeadLetter(m) PROVE IngesterInv'
  <2>1. /\ m \in backlog /\ lease[m] = 0 /\ deliveries[m] = MaxDeliveries
        /\ backlog' = backlog \ {m} /\ dead' = dead \union {m}
        /\ UNCHANGED <<deliveries, lease, stage, markers, posts, faults>>
    BY <1>4 DEF DeadLetter
  <2>2. m \notin Poison => faults >= MaxDeliveries
    BY <1>1, <2>1, IngesterAssumption DEF LeaseInv, Spent
  <2>3. \A n \in dead' \ Poison : faults' >= MaxDeliveries
    BY <1>1, <2>1, <2>2 DEF DeadOnlyAfterFaults
  <2>4. QED BY <1>1, <2>1, <2>3, QuietStep
<1>5. ASSUME NEW e \in Events, MarkerExpires(e) PROVE IngesterInv'
  BY <1>1, <1>5, QuietStep DEF MarkerExpires, queueVars, DeadOnlyAfterFaults
<1>6. ASSUME UNCHANGED vars PROVE IngesterInv'
  BY <1>1, <1>6, QuietStep DEF vars, queueVars, DeadOnlyAfterFaults
<1>7. QED BY <1>2, <1>3, <1>4, <1>5, <1>6

\* The inductive invariant: each delivery but the first follows a fault, each
\* copy is posted once, and only what was posted is marked or acknowledged.
THEOREM Invariance == Spec => []IngesterInv
<1>1. IngesterInv /\ [Next]_vars => IngesterInv'
  BY DeliverStep, CopySteps, OtherSteps, CrashStep DEF Next, Progress
<1>2. QED BY Initially, <1>1, PTL DEF Spec

\* The state of the subscription, the copies, Redis and the API keep their types.
THEOREM TypeCorrect == Spec => []TypeOK
<1>1. IngesterInv => TypeOK
  BY DEF IngesterInv
<1>2. QED BY Invariance, <1>1, PTL

\* The event of a message is posted once and, beyond that, at most once for
\* each fault, however leases end and copies of it run beside each other.
THEOREM FewReposts == Spec => []RepostsNeedFaults
<1>1. IngesterInv => RepostsNeedFaults
  <2> SUFFICES ASSUME IngesterInv, NEW m \in Messages PROVE posts[m] <= 1 + faults
    BY DEF RepostsNeedFaults
  <2>1. /\ posts[m] \in Nat /\ deliveries[m] \in Nat /\ faults \in Nat
        /\ posts[m] <= Cardinality(Done(m)) /\ Cardinality(Done(m)) \in Nat
    BY DoneFinite, IngesterAssumption DEF IngesterInv, TypeOK, PostsInv
  <2>2. CASE m \notin Poison
    <3>1. Cardinality(Done(m)) <= deliveries[m] /\ deliveries[m] <= faults + 1
      BY <2>2, DoneDelivered DEF IngesterInv, LeaseInv
    <3>2. QED BY <2>1, <3>1
  <2>3. CASE m \in Poison
    <3>1. posts[m] = 0
      BY <2>1, <2>3 DEF IngesterInv, PoisonInv
    <3>2. QED BY <2>1, <3>1
  <2>4. QED BY <2>2, <2>3
<1>2. QED BY Invariance, <1>1, PTL

\* A message that decodes is dead-lettered only if every delivery met a fault.
THEOREM DeadHasCause == Spec => []DeadOnlyAfterFaults
<1>1. IngesterInv => DeadOnlyAfterFaults
  BY DEF IngesterInv
<1>2. QED BY Invariance, <1>1, PTL

\* While an event is marked, none of its messages is posted once more if no
\* copy of them was on its way to the API.
THEOREM MarkerKeepsQuiet == Spec => MarkedStaysQuiet
<1> DEFINE Keeps == \A e \in Events : e \in markers /\ e \in markers' /\ Quiet(e) => Quiet(e)'
<1>1. ASSUME IngesterInv, [Next]_vars PROVE Keeps
  <2> SUFFICES ASSUME NEW e \in Events, e \in markers, Quiet(e),
                      NEW m \in Messages, NEW k \in Copies, EventOf[m] = e
               PROVE  stage'[m][k] \in {"none", "received", "duplicate", "ended"}
    BY DEF Quiet
  <2> DEFINE Ok(st) == st \in {"none", "received", "duplicate", "ended"}
  <2>1. stage \in [Messages -> [Copies -> Stages]] /\ Ok(stage[m][k])
    <3>1. Ok(stage[m][k])
      BY DEF Quiet
    <3>2. QED BY <1>1, <3>1 DEF IngesterInv, TypeOK
  <2>2. ASSUME UNCHANGED stage PROVE Ok(stage'[m][k])
    BY <2>1, <2>2
  <2>3. ASSUME NEW n \in Messages, NEW l \in Copies, NEW from, NEW to, Step(n, l, from, to)
        PROVE  /\ stage[n][l] \in from
               /\ stage'[m][k] = stage[m][k] \/ (<<n, l>> = <<m, k>> /\ stage'[m][k] = to)
    BY <2>1, <2>3 DEF Step
  <2>4. ASSUME NEW n \in Messages, Deliver(n) PROVE Ok(stage'[m][k])
    <3>1. stage'[m][k] = stage[m][k] \/ stage'[m][k] = "received"
      BY <2>1, <2>4 DEF Deliver
    <3>2. QED BY <2>1, <3>1
  <2>5. ASSUME NEW n \in Messages, NEW l \in Copies, CheckReceived(n, l) PROVE Ok(stage'[m][k])
    <3>1. n = m => Ok(Verdict(n))
      BY DEF Verdict
    <3>2. QED BY <2>1, <2>3, <2>5, <3>1 DEF CheckReceived
  <2>6. ASSUME NEW n \in Messages, NEW l \in Copies,
               \/ AckDuplicate(n, l) \/ Mark(n, l) \/ Nak(n, l) \/ CallFails(n, l) \/ StaleCallFails(n, l)
        PROVE  Ok(stage'[m][k])
    <3>1. PICK from : Step(n, l, from, "ended")
      BY <2>6 DEF AckDuplicate, Mark, Nak, CallFails, StaleCallFails
    <3>2. stage'[m][k] = stage[m][k] \/ stage'[m][k] = "ended"
      BY <2>3, <3>1
    <3>3. QED BY <2>1, <3>2
  <2>7. ASSUME NEW n \in Messages, NEW l \in Copies,
               StartPost(n, l) \/ ApiAnswers(n, l) \/ Ack(n, l) \/ PostFails(n, l)
        PROVE  Ok(stage'[m][k])
    <3>1. PICK from, to : Step(n, l, from, to) /\ from \subseteq {"queued", "posting", "answered"}
      BY <2>7 DEF StartPost, ApiAnswers, Ack, AckFrom, PostFails
    <3>2. stage[n][l] \in {"queued", "posting", "answered"}
      BY <2>3, <3>1
    <3>3. stage'[m][k] = stage[m][k]
      BY <2>1, <2>3, <3>1, <3>2
    <3>4. QED BY <2>1, <3>3
  <2>8. CASE Crash
    BY <2>8 DEF Crash
  <2>9. ASSUME \/ \E n \in Messages : DeadLetter(n) \/ LeaseEnds(n) \/ LeaseLost(n)
               \/ \E f \in Events : MarkerExpires(f)
               \/ UNCHANGED vars
        PROVE  Ok(stage'[m][k])
    BY <2>2, <2>9 DEF DeadLetter, LeaseEnds, LeaseLost, MarkerExpires, vars
  <2>10. QED
    BY <1>1, <2>4, <2>5, <2>6, <2>7, <2>8, <2>9 DEF Next, Progress
<1>2. QED BY <1>1, Invariance, PTL DEF Spec, MarkedStaysQuiet

-----------------------------------------------------------------------------
(* The relay of events                                                     *)

\* A request that is answered posts the event of its message ...
LEMMA AnswerPosts ==
  ASSUME TypeOK, NEW m \in Messages, NEW k \in Copies, ApiAnswers(m, k)
  PROVE  Relay!Post(m)
<1>1. /\ posts' = [posts EXCEPT ![m] = @ + 1] /\ posts \in [Messages -> Nat]
      /\ UNCHANGED <<backlog, dead>>
  BY IngesterAssumption DEF ApiAnswers, TypeOK, queueVars
<1>2. \A n \in Messages : posts'[n] > 0 <=> posts[n] > 0 \/ n = m
  BY <1>1
<1>3. Posted' = Posted \union {EventOf[m]}
  BY <1>2 DEF Posted
<1>4. QED BY <1>1, <1>3 DEF Relay!Post

\* ... and every step of the ingester is one of the relay, or changes nothing
\* the relay knows of.
LEMMA StepRefines ==
  ASSUME IngesterInv, [Next]_vars
  PROVE  [Relay!RelayNext]_<<backlog, dead, Posted>>
<1>1. ASSUME UNCHANGED <<backlog, dead, posts>> PROVE UNCHANGED <<backlog, dead, Posted>>
  BY <1>1 DEF Posted
<1>2. ASSUME NEW m \in Messages, NEW k \in Copies, AckDuplicate(m, k) \/ Ack(m, k)
      PROVE  Relay!Settle(m)
  <2>1. /\ backlog' = backlog \ {m} /\ UNCHANGED <<dead, posts>>
        /\ stage[m][k] \in {"answered", "duplicate"}
    BY <1>2 DEF AckDuplicate, Ack, AckFrom, Step
  <2>2. EventOf[m] \in Posted
    BY <2>1 DEF IngesterInv, PostedInv, Posted
  <2>3. Posted' = Posted
    BY <2>1 DEF Posted
  <2>4. QED BY <2>1, <2>2, <2>3 DEF Relay!Settle
<1>3. ASSUME NEW m \in Messages, DeadLetter(m) PROVE Relay!GiveUp(m)
  BY <1>3 DEF DeadLetter, Relay!GiveUp, Posted
<1>4. ASSUME NEW m \in Messages, NEW k \in Copies, ApiAnswers(m, k) PROVE Relay!Post(m)
  BY <1>4, AnswerPosts DEF IngesterInv
<1>5. ASSUME \/ \E m \in Messages : Deliver(m) \/ LeaseEnds(m) \/ LeaseLost(m)
             \/ \E m \in Messages, k \in Copies :
                  \/ CheckReceived(m, k) \/ StartPost(m, k) \/ Mark(m, k) \/ Nak(m, k)
                  \/ PostFails(m, k) \/ CallFails(m, k) \/ StaleCallFails(m, k)
             \/ \E e \in Events : MarkerExpires(e)
             \/ Crash \/ UNCHANGED vars
      PROVE  UNCHANGED <<backlog, dead, posts>>
  BY <1>5 DEF Deliver, LeaseEnds, LeaseLost, CheckReceived, StartPost, Mark, Nak, PostFails, CallFails,
              StaleCallFails, MarkerExpires, Crash, vars, queueVars
<1>6. QED
  BY <1>1, <1>2, <1>3, <1>4, <1>5 DEF Next, Progress, Relay!RelayNext

\* The ingester over Pub/Sub implements the relay of events, safety part.
THEOREM Refinement == Spec => ImplementsRelaySafe
<1>1. Init => Relay!RelayInit
  BY DEF Init, Relay!RelayInit, Posted
<1>2. QED
  BY <1>1, StepRefines, Invariance, PTL DEF Spec, ImplementsRelaySafe, Relay!RelaySafe, Relay!relayVars
=============================================================================
