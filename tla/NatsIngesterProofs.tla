-------------------------- MODULE NatsIngesterProofs --------------------------
(***************************************************************************)
(* For every set of ingesters and any number of messages, slots,           *)
(* deliveries, faults and lost consumers: requests that an instance        *)
(* repeats over NATS JetStream are paid for by its faults, and the         *)
(* ingesters implement the safety part of EventRelay.                      *)
(***************************************************************************)
EXTENDS NatsIngester, FiniteSetTheorems, TLAPS

\* A consumer is behind the stream, waits for nothing once it is gone, and a
\* process has no copies once it died.
ConsumerInv ==
  \A i \in Instances :
    /\ start[i] <= published
    /\ \A m \in Messages :
         /\ deliveries[i][m] > 0 => m <= published
         /\ lease[i][m] <= deliveries[i][m]
         /\ i \notin consumers => lease[i][m] = 0
         /\ i \notin up => \A k \in Copies : stage[i][m][k] = "none"

\* The consumer of instance i will deliver m once more without a new fault.
Again(i, m) ==
  /\ i \in consumers /\ deliveries[i][m] > 0 /\ m \notin settled[i]
  /\ lease[i][m] = 0 \/ stage[i][m][lease[i][m]] \in {"refused", "ended"}

\* Requests that instance i may still make for m: for a copy that it has, and
\* (numbered 0) for one that it will get.
Claim(i, m, k) == IF k = 0 THEN Again(i, m) ELSE stage[i][m][k] \in {"received", "posting"}

Claims(i, m) == {k \in 0..MaxDeliver : Claim(i, m, k)}

\* The first delivery of m to instance i is behind it, or will never be.
First(i, m) == IF deliveries[i][m] > 0 \/ m <= start[i] THEN 1 ELSE 0

\* Every request an instance made or may still make is its first, or has a
\* fault of its own.
ClaimsInv ==
  \A i \in Instances, m \in Messages \ Poison :
    posts[i][m] + Cardinality(Claims(i, m)) <= First(i, m) + faults[i]

PoisonInv ==
  \A i \in Instances, m \in Poison :
    /\ posts[i][m] = 0
    /\ \A k \in Copies : stage[i][m][k] \in {"none", "received", "ended"}

\* What is acknowledged was posted.
AnsweredInv ==
  \A i \in Instances, m \in Messages, k \in Copies : stage[i][m][k] = "answered" => posts[i][m] > 0

IngesterInv == TypeOK /\ ConsumerInv /\ ClaimsInv /\ PoisonInv /\ AnsweredInv

-----------------------------------------------------------------------------
(* Counting                                                                *)

\* What one element more or less does to the size of a set.
LEMMA Recount ==
  ASSUME NEW S, NEW R, IsFiniteSet(S), IsFiniteSet(R), NEW x, NEW y
  PROVE  /\ Cardinality(S) \in Nat /\ Cardinality(R) \in Nat
         /\ R \subseteq S => Cardinality(R) <= Cardinality(S)
         /\ R \subseteq S \union {x} => Cardinality(R) <= Cardinality(S) + 1
         /\ x \in S /\ R \subseteq S \ {x} => Cardinality(R) + 1 <= Cardinality(S)
         /\ x \in S /\ R \subseteq (S \ {x}) \union {y} => Cardinality(R) <= Cardinality(S)
<1>1. Cardinality(S) \in Nat /\ Cardinality(R) \in Nat
  BY FS_CardinalityType
<1>2. ASSUME NEW T, IsFiniteSet(T), NEW z, NEW Q, IsFiniteSet(Q), Q \subseteq T \union {z}
      PROVE  Cardinality(Q) <= Cardinality(T) + 1
  <2>1. IsFiniteSet(T \union {z}) /\ Cardinality(T) \in Nat /\ Cardinality(Q) \in Nat
        /\ Cardinality(T \union {z}) \in {Cardinality(T), Cardinality(T) + 1}
    BY <1>2, FS_AddElement, FS_CardinalityType
  <2>2. Cardinality(Q) <= Cardinality(T \union {z})
    BY <1>2, <2>1, FS_Subset
  <2>3. QED BY <2>1, <2>2
<1>3. ASSUME x \in S
      PROVE  IsFiniteSet(S \ {x}) /\ Cardinality(S \ {x}) = Cardinality(S) - 1
  BY <1>3, FS_RemoveElement
<1>4. R \subseteq S => Cardinality(R) <= Cardinality(S)
  BY FS_Subset
<1>5. R \subseteq S \union {x} => Cardinality(R) <= Cardinality(S) + 1
  BY <1>2
<1>6. ASSUME x \in S, R \subseteq S \ {x} PROVE Cardinality(R) + 1 <= Cardinality(S)
  <2>1. Cardinality(R) <= Cardinality(S \ {x})
    BY <1>3, <1>6, FS_Subset
  <2>2. QED BY <1>1, <1>3, <1>6, <2>1
<1>7. ASSUME x \in S, R \subseteq (S \ {x}) \union {y} PROVE Cardinality(R) <= Cardinality(S)
  <2>1. Cardinality(R) <= Cardinality(S \ {x}) + 1
    BY <1>2, <1>3, <1>7
  <2>2. QED BY <1>1, <1>3, <1>7, <2>1
<1>8. QED BY <1>1, <1>4, <1>5, <1>6, <1>7

\* How many claims an instance has on a message is a number, and how it
\* changes with the claims.
LEMMA CountClaims ==
  ASSUME NEW i \in Instances, NEW m \in Messages, NEW x \in 0..MaxDeliver, NEW y \in 0..MaxDeliver
  PROVE  LET Old(k) == Claim(i, m, k)
             New(k) == Claim(i, m, k)'
         IN  /\ Cardinality(Claims(i, m)) \in Nat /\ Cardinality(Claims(i, m)') \in Nat
             /\ (\A k \in 0..MaxDeliver : New(k) => Old(k))
                  => Cardinality(Claims(i, m)') <= Cardinality(Claims(i, m))
             /\ (\A k \in 0..MaxDeliver : New(k) => Old(k) \/ k = y)
                  => Cardinality(Claims(i, m)') <= Cardinality(Claims(i, m)) + 1
             /\ Old(x) /\ (\A k \in 0..MaxDeliver : New(k) => Old(k) /\ k # x)
                  => Cardinality(Claims(i, m)') + 1 <= Cardinality(Claims(i, m))
             /\ Old(x) /\ (\A k \in 0..MaxDeliver : New(k) => (Old(k) /\ k # x) \/ k = y)
                  => Cardinality(Claims(i, m)') <= Cardinality(Claims(i, m))
<1> DEFINE Old(k) == Claim(i, m, k)
           New(k) == Claim(i, m, k)'
           S == Claims(i, m)
           R == Claims(i, m)'
<1>1. /\ S = {k \in 0..MaxDeliver : Old(k)} /\ R = {k \in 0..MaxDeliver : New(k)}
  BY DEF Claims
<1>2. IsFiniteSet(S) /\ IsFiniteSet(R)
  <2>1. IsFiniteSet(0..MaxDeliver) /\ S \subseteq 0..MaxDeliver /\ R \subseteq 0..MaxDeliver
    BY <1>1, FS_Interval, IngesterAssumption
  <2>2. QED BY <2>1, FS_Subset
<1> HIDE DEF Old, New, S, R
<1>3. /\ Cardinality(S) \in Nat /\ Cardinality(R) \in Nat
      /\ R \subseteq S => Cardinality(R) <= Cardinality(S)
      /\ R \subseteq S \union {y} => Cardinality(R) <= Cardinality(S) + 1
      /\ x \in S /\ R \subseteq S \ {x} => Cardinality(R) + 1 <= Cardinality(S)
      /\ x \in S /\ R \subseteq (S \ {x}) \union {y} => Cardinality(R) <= Cardinality(S)
  <2>1. \A x1, y1 :
          /\ Cardinality(S) \in Nat /\ Cardinality(R) \in Nat
          /\ R \subseteq S => Cardinality(R) <= Cardinality(S)
          /\ R \subseteq S \union {x1} => Cardinality(R) <= Cardinality(S) + 1
          /\ x1 \in S /\ R \subseteq S \ {x1} => Cardinality(R) + 1 <= Cardinality(S)
          /\ x1 \in S /\ R \subseteq (S \ {x1}) \union {y1} => Cardinality(R) <= Cardinality(S)
    BY <1>2, Recount
  <2>2. QED BY <2>1
<1>4. ASSUME \A k \in 0..MaxDeliver : New(k) => Old(k) PROVE R \subseteq S
  BY <1>1, <1>4
<1>5. ASSUME \A k \in 0..MaxDeliver : New(k) => Old(k) \/ k = y PROVE R \subseteq S \union {y}
  BY <1>1, <1>5
<1>6. ASSUME Old(x), \A k \in 0..MaxDeliver : New(k) => Old(k) /\ k # x
      PROVE  x \in S /\ R \subseteq S \ {x}
  BY <1>1, <1>6
<1>7. ASSUME Old(x), \A k \in 0..MaxDeliver : New(k) => (Old(k) /\ k # x) \/ k = y
      PROVE  x \in S /\ R \subseteq (S \ {x}) \union {y}
  BY <1>1, <1>7
<1>8. QED BY <1>3, <1>4, <1>5, <1>6, <1>7 DEF S, R, Old, New

-----------------------------------------------------------------------------
(* A step of one message at one instance                                   *)

\* Nothing but message m at the consumer and the process of instance i moves.
Elsewhere(i, m) ==
  /\ UNCHANGED <<published, up, consumers, start, losses>>
  /\ settled' \in [Instances -> SUBSET Messages]
  /\ deliveries' \in [Instances -> [Messages -> 0..MaxDeliver]]
  /\ lease' \in [Instances -> [Messages -> 0..MaxDeliver]]
  /\ stage' \in [Instances -> [Messages -> [Copies -> Stages]]]
  /\ \A j \in Instances, n \in Messages : <<j, n>> # <<i, m>> =>
       /\ n \in settled'[j] <=> n \in settled[j]
       /\ deliveries'[j][n] = deliveries[j][n] /\ lease'[j][n] = lease[j][n]
       /\ stage'[j][n] = stage[j][n]

\* Where nothing moves, nothing is claimed that was not before.
LEMMA ClaimsElsewhere ==
  ASSUME NEW i \in Instances, NEW m \in Messages, Elsewhere(i, m),
         NEW j \in Instances, NEW n \in Messages, <<j, n>> # <<i, m>>
  PROVE  Claims(j, n)' = Claims(j, n) /\ First(j, n)' = First(j, n)
<1>1. \A k \in 0..MaxDeliver : Claim(j, n, k)' <=> Claim(j, n, k)
  BY DEF Elsewhere, Claim, Again
<1>2. Claims(j, n)' = Claims(j, n)
  BY <1>1 DEF Claims
<1>3. First(j, n)' = First(j, n)
  BY DEF First, Elsewhere
<1>4. QED BY <1>2, <1>3

\* The consumer of i still fits the stream, and the bounds are kept.
Fits(i, m) ==
  /\ i \in up
  /\ deliveries'[i][m] > 0 => m <= published
  /\ lease'[i][m] <= deliveries'[i][m]
  /\ i \notin consumers => lease'[i][m] = 0
  /\ acked' \subseteq Messages
  /\ \/ faults' = faults
     \/ faults[i] < MaxFaults /\ faults' = [faults EXCEPT ![i] = @ + 1]

\* At most one more request for m, by a copy that decodes and was not answered.
Allowed(i, m) ==
  /\ posts' = posts \/ (m \notin Poison /\ posts' = [posts EXCEPT ![i][m] = @ + 1])
  /\ m \in Poison => \A k \in Copies : stage'[i][m][k] \in {"none", "received", "ended"}
  /\ \A k \in Copies : stage'[i][m][k] = "answered" => stage[i][m][k] = "answered" \/ posts' # posts

\* What is posted or claimed is the first of the instance, or follows a fault.
Paid(i, m) ==
  m \notin Poison =>
    posts'[i][m] + Cardinality(Claims(i, m)') + First(i, m) + faults[i]
      <= posts[i][m] + Cardinality(Claims(i, m)) + First(i, m)' + faults'[i]

\* A step of message m at instance i that makes no claim that is not paid for.
LEMMA MessageStep ==
  ASSUME IngesterInv, NEW i \in Instances, NEW m \in Messages,
         Elsewhere(i, m), Fits(i, m), Allowed(i, m), Paid(i, m)
  PROVE  IngesterInv'
<1> USE DEF IngesterInv, Fits, Allowed, Paid
<1>1. /\ posts \in [Instances -> [Messages -> Nat]] /\ posts' \in [Instances -> [Messages -> Nat]]
      /\ \A j \in Instances, n \in Messages :
           /\ posts[j][n] \in Nat /\ posts'[j][n] \in Nat /\ posts[j][n] <= posts'[j][n]
           /\ <<j, n>> # <<i, m>> => posts'[j][n] = posts[j][n]
      /\ posts' # posts => m \notin Poison /\ posts'[i][m] = posts[i][m] + 1
  <2>1. posts \in [Instances -> [Messages -> Nat]]
    BY DEF TypeOK
  <2>2. CASE posts' = posts
    BY <2>1, <2>2
  <2>3. CASE m \notin Poison /\ posts' = [posts EXCEPT ![i][m] = @ + 1]
    BY <2>1, <2>3
  <2>4. QED BY <2>2, <2>3
<1>2. /\ faults \in [Instances -> 0..MaxFaults] /\ faults' \in [Instances -> 0..MaxFaults]
      /\ \A j \in Instances : faults[j] \in Nat /\ faults'[j] \in Nat /\ faults[j] <= faults'[j]
  <2>1. MaxFaults \in Nat /\ faults \in [Instances -> 0..MaxFaults]
    BY IngesterAssumption DEF TypeOK
  <2>2. QED BY <2>1
<1>3. TypeOK'
  BY <1>1, <1>2 DEF TypeOK, Elsewhere
<1>4. ConsumerInv'
  <2> SUFFICES ASSUME NEW j \in Instances
               PROVE  /\ start[j] <= published
                      /\ \A n \in Messages :
                           /\ deliveries'[j][n] > 0 => n <= published
                           /\ lease'[j][n] <= deliveries'[j][n]
                           /\ j \notin consumers => lease'[j][n] = 0
                           /\ j \notin up => \A k \in Copies : stage'[j][n][k] = "none"
    BY DEF ConsumerInv, Elsewhere
  <2>1. start[j] <= published
    BY DEF ConsumerInv
  <2>2. ASSUME NEW n \in Messages
        PROVE  /\ deliveries'[j][n] > 0 => n <= published
               /\ lease'[j][n] <= deliveries'[j][n]
               /\ j \notin consumers => lease'[j][n] = 0
               /\ j \notin up => \A k \in Copies : stage'[j][n][k] = "none"
    <3>1. CASE j = i /\ n = m
      BY <3>1
    <3>2. CASE <<j, n>> # <<i, m>>
      <4>1. /\ deliveries[j][n] > 0 => n <= published
            /\ lease[j][n] <= deliveries[j][n]
            /\ j \notin consumers => lease[j][n] = 0
            /\ j \notin up => \A k \in Copies : stage[j][n][k] = "none"
        BY DEF ConsumerInv
      <4>2. /\ deliveries'[j][n] = deliveries[j][n] /\ lease'[j][n] = lease[j][n]
            /\ stage'[j][n] = stage[j][n]
        BY <3>2 DEF Elsewhere
      <4>3. QED BY <4>1, <4>2
    <3>3. QED BY <3>1, <3>2
  <2>3. QED BY <2>1, <2>2
<1>5. ClaimsInv'
  <2> SUFFICES ASSUME NEW j \in Instances, NEW n \in Messages \ Poison
               PROVE  posts'[j][n] + Cardinality(Claims(j, n)') <= First(j, n)' + faults'[j]
    BY DEF ClaimsInv
  <2>1. posts[j][n] + Cardinality(Claims(j, n)) <= First(j, n) + faults[j]
    BY DEF ClaimsInv
  <2>2. /\ Cardinality(Claims(j, n)) \in Nat /\ Cardinality(Claims(j, n)') \in Nat
        /\ First(j, n) \in Nat /\ First(j, n)' \in Nat
    <3>1. 0 \in 0..MaxDeliver
      BY IngesterAssumption
    <3>2. QED BY <3>1, CountClaims DEF First
  <2>3. posts[j][n] \in Nat /\ posts'[j][n] \in Nat /\ faults[j] \in Nat /\ faults'[j] \in Nat
    BY <1>1, <1>2
  <2>4. CASE j = i /\ n = m
    BY <2>1, <2>2, <2>3, <2>4
  <2>5. CASE <<j, n>> # <<i, m>>
    <3>1. Claims(j, n)' = Claims(j, n) /\ First(j, n)' = First(j, n) /\ posts'[j][n] = posts[j][n]
      BY <1>1, <2>5, ClaimsElsewhere
    <3>2. QED BY <1>2, <2>1, <2>2, <2>3, <3>1
  <2>6. QED BY <2>4, <2>5
<1>6. PoisonInv'
  <2> SUFFICES ASSUME NEW j \in Instances, NEW n \in Poison
               PROVE  posts'[j][n] = 0 /\ \A k \in Copies : stage'[j][n][k] \in {"none", "received", "ended"}
    BY DEF PoisonInv
  <2>1. n \in Messages
    BY IngesterAssumption
  <2>2. CASE <<j, n>> = <<i, m>>
    BY <1>1, <2>1, <2>2 DEF PoisonInv
  <2>3. CASE <<j, n>> # <<i, m>>
    <3>1. posts'[j][n] = posts[j][n] /\ stage'[j][n] = stage[j][n]
      BY <1>1, <2>1, <2>3 DEF Elsewhere
    <3>2. QED BY <3>1 DEF PoisonInv
  <2>4. QED BY <2>2, <2>3
<1>7. AnsweredInv'
  <2> SUFFICES ASSUME NEW j \in Instances, NEW n \in Messages, NEW k \in Copies,
                      stage'[j][n][k] = "answered"
               PROVE  posts'[j][n] > 0
    BY DEF AnsweredInv
  <2>1. posts[j][n] \in Nat /\ posts'[j][n] \in Nat /\ posts[j][n] <= posts'[j][n]
        /\ (stage[j][n][k] = "answered" => posts[j][n] > 0)
    BY <1>1 DEF AnsweredInv
  <2>2. CASE stage[j][n][k] = "answered"
    BY <2>1, <2>2
  <2>3. CASE stage[j][n][k] # "answered"
    <3>1. <<j, n>> = <<i, m>> /\ posts' # posts
      BY <2>3 DEF Elsewhere
    <3>2. posts'[j][n] = posts[j][n] + 1
      BY <1>1, <3>1
    <3>3. QED BY <2>1, <3>2
  <2>4. QED BY <2>2, <2>3
<1>8. QED BY <1>3, <1>4, <1>5, <1>6, <1>7

\* What a step of one copy does to the stages.
LEMMA StepMoves ==
  ASSUME TypeOK, NEW i \in Instances, NEW m \in Messages, NEW k \in Copies, NEW from,
         NEW to \in Stages, Step(i, m, k, from, to)
  PROVE  /\ stage' \in [Instances -> [Messages -> [Copies -> Stages]]]
         /\ stage[i][m][k] \in from /\ stage'[i][m][k] = to
         /\ \A l \in Copies : l # k => stage'[i][m][l] = stage[i][m][l]
         /\ \A j \in Instances, n \in Messages : <<j, n>> # <<i, m>> => stage'[j][n] = stage[j][n]
BY DEF TypeOK, Step

\* Without a delivery no request becomes the first of an instance.
LEMMA SameFirst ==
  ASSUME NEW i \in Instances, NEW m \in Messages, UNCHANGED <<deliveries, start>>
  PROVE  First(i, m)' = First(i, m) /\ First(i, m) \in Nat
BY DEF First

-----------------------------------------------------------------------------
(* The process                                                             *)

\* What the process does with a copy, with or without a failed call, keeps
\* the invariant.
LEMMA CopySteps ==
  ASSUME IngesterInv, NEW i \in Instances, NEW m \in Messages, NEW k \in Copies,
         \/ TakeItem(i, m, k) \/ ApiAnswers(i, m, k) \/ Ack(i, m, k) \/ Nak(i, m, k)
         \/ PostFails(i, m, k) \/ AckLost(i, m, k)
  PROVE  IngesterInv'
<1> USE DEF IngesterInv
<1>1. /\ TypeOK /\ MaxFaults \in Nat /\ faults[i] \in Nat
      /\ posts \in [Instances -> [Messages -> Nat]] /\ posts[i][m] \in Nat /\ acked \subseteq Messages
      /\ k \in Nat \ {0} /\ k \in 0..MaxDeliver /\ 0 \in 0..MaxDeliver /\ 0 \notin Copies
      /\ \A l \in 0..MaxDeliver : l = 0 \/ l \in Copies
      /\ deliveries[i][m] \in Nat /\ lease[i][m] \in 0..MaxDeliver /\ lease[i][m] \in Nat
  BY IngesterAssumption DEF TypeOK, Copies
<1>2. /\ deliveries[i][m] > 0 => m <= published
      /\ lease[i][m] <= deliveries[i][m]
      /\ i \notin consumers => lease[i][m] = 0
      /\ stage[i][m][k] # "none" => i \in up
      /\ m \in Poison => stage[i][m][k] \in {"none", "received", "ended"}
      /\ m \in Poison => \A l \in Copies : stage[i][m][l] \in {"none", "received", "ended"}
  BY DEF ConsumerInv, PoisonInv
<1> DEFINE Moved(to) ==
             /\ stage' \in [Instances -> [Messages -> [Copies -> Stages]]]
             /\ stage'[i][m][k] = to
             /\ \A l \in Copies : l # k => stage'[i][m][l] = stage[i][m][l]
             /\ \A j \in Instances, n \in Messages : <<j, n>> # <<i, m>> => stage'[j][n] = stage[j][n]
<1>3. CASE TakeItem(i, m, k)
  <2> DEFINE to == IF m \in Poison THEN "ended" ELSE "posting"
  <2>1. Step(i, m, k, {"received"}, to) /\ to \in Stages
    BY <1>3 DEF TakeItem, Stages
  <2>2. Moved(to) /\ stage[i][m][k] = "received"
    BY <2>1, StepMoves
  <2>3. UNCHANGED <<published, processVars, consumerVars, historyVars, boundVars>>
    BY <1>3 DEF TakeItem
  <2>4. Elsewhere(i, m)
    BY <1>1, <2>2, <2>3 DEF Elsewhere, TypeOK, processVars, consumerVars, boundVars
  <2>5. ASSUME m \notin Poison
        PROVE  Cardinality(Claims(i, m)') <= Cardinality(Claims(i, m))
               /\ Cardinality(Claims(i, m)) \in Nat /\ Cardinality(Claims(i, m)') \in Nat
    <3>1. \A l \in 0..MaxDeliver : Claim(i, m, l)' => Claim(i, m, l)
      BY <1>1, <2>2, <2>3, <2>5 DEF Claim, Again, processVars, consumerVars
    <3>2. QED BY <1>1, <2>4, <3>1, CountClaims
  <2>6. First(i, m)' = First(i, m) /\ First(i, m) \in Nat
    BY <2>3, SameFirst DEF processVars, consumerVars
  <2>7. Fits(i, m) /\ Allowed(i, m)
    BY <1>1, <1>2, <2>2, <2>3, <2>4 DEF Fits, Allowed, consumerVars, historyVars, boundVars
  <2>8. Paid(i, m)
    BY <1>1, <2>3, <2>5, <2>6 DEF Paid, consumerVars, historyVars, boundVars
  <2>9. QED BY <2>4, <2>7, <2>8, MessageStep
<1>4. CASE ApiAnswers(i, m, k)
  <2>1. Step(i, m, k, {"posting"}, "answered") /\ "answered" \in Stages
    BY <1>4 DEF ApiAnswers, Stages
  <2>2. Moved("answered") /\ stage[i][m][k] = "posting"
    BY <2>1, StepMoves
  <2>3. /\ UNCHANGED <<published, processVars, consumerVars, acked, boundVars>>
        /\ posts' = [posts EXCEPT ![i][m] = @ + 1] /\ posts'[i][m] = posts[i][m] + 1 /\ posts' # posts
    BY <1>1, <1>4 DEF ApiAnswers
  <2>4. Elsewhere(i, m)
    BY <1>1, <2>2, <2>3 DEF Elsewhere, TypeOK, processVars, consumerVars, boundVars
  <2>5. Cardinality(Claims(i, m)') + 1 <= Cardinality(Claims(i, m))
        /\ Cardinality(Claims(i, m)) \in Nat /\ Cardinality(Claims(i, m)') \in Nat
    <3>1. \A l \in 0..MaxDeliver : Claim(i, m, l)' => Claim(i, m, l) /\ l # k
      BY <1>1, <2>2, <2>3 DEF Claim, Again, processVars, consumerVars
    <3>2. Claim(i, m, k)
      BY <1>1, <2>2 DEF Claim
    <3>3. QED BY <1>1, <2>4, <3>1, <3>2, CountClaims
  <2>6. First(i, m)' = First(i, m) /\ First(i, m) \in Nat
    BY <2>3, SameFirst DEF processVars, consumerVars
  <2>7. Fits(i, m) /\ Allowed(i, m)
    BY <1>1, <1>2, <2>2, <2>3, <2>4 DEF Fits, Allowed, consumerVars, boundVars
  <2>8. Paid(i, m)
    BY <1>1, <2>3, <2>5, <2>6 DEF Paid, consumerVars, boundVars
  <2>9. QED BY <2>4, <2>7, <2>8, MessageStep
<1>5. CASE Ack(i, m, k)
  <2>1. Step(i, m, k, {"answered"}, "ended") /\ "ended" \in Stages
    BY <1>5 DEF Ack, AckFrom, Stages
  <2>2. Moved("ended") /\ stage[i][m][k] = "answered"
    BY <2>1, StepMoves
  <2>3. /\ UNCHANGED <<published, processVars, deliveries, posts, boundVars>>
        /\ lease' = [lease EXCEPT ![i][m] = 0]
        /\ settled' = [settled EXCEPT ![i] = @ \union {m}] \/ (settled' = settled /\ i \notin consumers)
        /\ acked' = acked \union {m} \/ acked' = acked
    BY <1>5 DEF Ack
  <2>4. /\ lease'[i][m] = 0 /\ (i \in consumers => m \in settled'[i])
        /\ settled' \in [Instances -> SUBSET Messages]
        /\ \A j \in Instances, n \in Messages : <<j, n>> # <<i, m>> =>
             (n \in settled'[j] <=> n \in settled[j])
    <3>1. settled \in [Instances -> SUBSET Messages] /\ lease \in [Instances -> [Messages -> 0..MaxDeliver]]
      BY DEF TypeOK
    <3>2. lease'[i][m] = 0
      BY <2>3, <3>1
    <3>3. CASE settled' = settled /\ i \notin consumers
      BY <3>1, <3>2, <3>3
    <3>4. CASE settled' = [settled EXCEPT ![i] = @ \union {m}]
      <4>1. \A j \in Instances : settled'[j] = IF j = i THEN settled[j] \union {m} ELSE settled[j]
        BY <3>1, <3>4
      <4>2. settled' \in [Instances -> SUBSET Messages]
        BY <3>1, <3>4
      <4>3. QED BY <3>2, <4>1, <4>2
    <3>5. QED BY <2>3, <3>3, <3>4
  <2>10. Elsewhere(i, m) /\ UNCHANGED consumers
    BY <1>1, <2>2, <2>3, <2>4 DEF Elsewhere, TypeOK, processVars, boundVars
  <2>5. Cardinality(Claims(i, m)') <= Cardinality(Claims(i, m))
        /\ Cardinality(Claims(i, m)) \in Nat /\ Cardinality(Claims(i, m)') \in Nat
    <3>1. \A l \in 0..MaxDeliver : Claim(i, m, l)' => Claim(i, m, l)
      BY <1>1, <2>2, <2>3, <2>4, <2>10 DEF Claim, Again
    <3>2. QED BY <1>1, <3>1, CountClaims
  <2>6. First(i, m)' = First(i, m) /\ First(i, m) \in Nat
    BY <2>3, SameFirst DEF processVars
  <2>7. Fits(i, m) /\ Allowed(i, m)
    <3>1. acked' \subseteq Messages /\ posts' = posts /\ UNCHANGED <<deliveries, faults>>
      BY <1>1, <2>3 DEF boundVars
    <3>2. i \in up /\ lease'[i][m] <= deliveries[i][m]
      BY <1>1, <1>2, <2>2, <2>4
    <3>3. QED BY <1>2, <2>2, <2>4, <3>1, <3>2 DEF Fits, Allowed
  <2>8. Paid(i, m)
    BY <1>1, <2>3, <2>5, <2>6 DEF Paid, boundVars
  <2>9. QED BY <2>7, <2>8, <2>10, MessageStep
<1>6. CASE Nak(i, m, k)
  <2>1. Step(i, m, k, {"refused"}, "ended") /\ "ended" \in Stages
    BY <1>6 DEF Nak, Stages
  <2>2. Moved("ended") /\ stage[i][m][k] = "refused"
    BY <2>1, StepMoves
  <2>3. /\ UNCHANGED <<published, processVars, settled, deliveries, historyVars, boundVars>>
        /\ lease' = [lease EXCEPT ![i][m] = IF @ = k THEN 0 ELSE @]
    BY <1>6 DEF Nak
  <2>4. Elsewhere(i, m) /\ lease'[i][m] = IF lease[i][m] = k THEN 0 ELSE lease[i][m]
    BY <1>1, <2>2, <2>3 DEF Elsewhere, TypeOK, processVars, boundVars
  <2>5. Cardinality(Claims(i, m)') <= Cardinality(Claims(i, m))
        /\ Cardinality(Claims(i, m)) \in Nat /\ Cardinality(Claims(i, m)') \in Nat
    <3>1. \A l \in 0..MaxDeliver : Claim(i, m, l)' => Claim(i, m, l)
      BY <1>1, <2>2, <2>3, <2>4 DEF Claim, Again, processVars
    <3>2. QED BY <1>1, <2>4, <3>1, CountClaims
  <2>6. First(i, m)' = First(i, m) /\ First(i, m) \in Nat
    BY <2>3, SameFirst DEF processVars
  <2>7. Fits(i, m) /\ Allowed(i, m)
    <3>1. lease'[i][m] <= deliveries'[i][m] /\ (i \notin consumers => lease'[i][m] = 0)
      BY <1>1, <1>2, <2>3, <2>4
    <3>2. posts' = posts /\ UNCHANGED <<acked, faults, deliveries>> /\ i \in up
      BY <1>2, <2>2, <2>3 DEF historyVars, boundVars
    <3>3. QED BY <1>1, <1>2, <2>2, <3>1, <3>2 DEF Fits, Allowed
  <2>8. Paid(i, m)
    BY <1>1, <2>3, <2>5, <2>6 DEF Paid, historyVars, boundVars
  <2>9. QED BY <2>4, <2>7, <2>8, MessageStep
<1>7. ASSUME NEW from \in SUBSET {"posting", "answered", "refused"}, NEW to \in {"refused", "ended"},
             Step(i, m, k, from, to), Fault(i),
             UNCHANGED <<published, processVars, consumerVars, historyVars>>
      PROVE  IngesterInv'
  <2>1. Step(i, m, k, from, to) /\ to \in Stages
    BY <1>7 DEF Stages
  <2>2. Moved(to) /\ stage[i][m][k] \in {"posting", "answered", "refused"}
    <3>1. Moved(to) /\ stage[i][m][k] \in from
      BY <2>1, StepMoves
    <3>2. stage[i][m][k] \in {"posting", "answered", "refused"}
      BY <3>1
    <3>3. QED BY <3>1, <3>2
  <2>3. /\ faults' = [faults EXCEPT ![i] = @ + 1] /\ faults[i] < MaxFaults
        /\ faults'[i] = faults[i] + 1 /\ UNCHANGED losses
    BY <1>1, <1>7 DEF Fault, TypeOK
  <2>4. Elsewhere(i, m)
    BY <1>1, <1>7, <2>2, <2>3 DEF Elsewhere, TypeOK, processVars, consumerVars
  <2>5. Cardinality(Claims(i, m)') <= Cardinality(Claims(i, m)) + 1
        /\ Cardinality(Claims(i, m)) \in Nat /\ Cardinality(Claims(i, m)') \in Nat
    <3>1. \A l \in 0..MaxDeliver : Claim(i, m, l)' => Claim(i, m, l) \/ l = 0
      BY <1>1, <1>7, <2>2 DEF Claim
    <3>2. QED BY <1>1, <2>4, <3>1, CountClaims
  <2>6. First(i, m)' = First(i, m) /\ First(i, m) \in Nat
    BY <1>7, SameFirst DEF processVars, consumerVars
  <2>7. Fits(i, m) /\ Allowed(i, m)
    BY <1>1, <1>2, <1>7, <2>2, <2>3, <2>4 DEF Fits, Allowed, consumerVars, historyVars
  <2>8. Paid(i, m)
    BY <1>1, <1>7, <2>3, <2>5, <2>6 DEF Paid, consumerVars, historyVars
  <2>9. QED BY <2>4, <2>7, <2>8, MessageStep
<1>8. CASE PostFails(i, m, k)
  BY <1>7, <1>8 DEF PostFails
<1>9. CASE AckLost(i, m, k)
  BY <1>7, <1>9 DEF AckLost
<1>10. QED BY <1>3, <1>4, <1>5, <1>6, <1>8, <1>9

-----------------------------------------------------------------------------
(* The stream and its consumers                                            *)

\* A message is handed out: for the first time by this consumer, or again.
LEMMA DeliverStep ==
  ASSUME IngesterInv, NEW i \in Instances, NEW m \in Messages, Deliver(i, m)
  PROVE  IngesterInv'
<1> USE DEF IngesterInv
<1> DEFINE d == deliveries[i][m]
<1>1. /\ d \in Nat /\ d + 1 \in Copies /\ d + 1 \in 0..MaxDeliver /\ d + 1 # 0 /\ 0 \in 0..MaxDeliver
      /\ \A l \in 0..MaxDeliver : l = 0 \/ l \in Copies
      /\ i \in consumers /\ i \in up /\ lease[i][m] = 0 /\ m > start[i] /\ m <= published /\ m \notin settled[i]
      /\ deliveries' = [deliveries EXCEPT ![i][m] = d + 1] /\ lease' = [lease EXCEPT ![i][m] = d + 1]
      /\ stage' = [stage EXCEPT ![i][m][d + 1] = "received"]
      /\ UNCHANGED <<published, processVars, settled, historyVars, boundVars>>
  BY IngesterAssumption DEF Deliver, MayDeliver, TypeOK, Copies
<1> HIDE DEF d
<1>2. /\ deliveries'[i][m] = d + 1 /\ lease'[i][m] = d + 1
      /\ stage' \in [Instances -> [Messages -> [Copies -> Stages]]]
      /\ stage'[i][m][d + 1] = "received"
      /\ \A l \in Copies : l # d + 1 => stage'[i][m][l] = stage[i][m][l]
      /\ \A j \in Instances, n \in Messages : <<j, n>> # <<i, m>> => stage'[j][n] = stage[j][n]
  BY <1>1 DEF TypeOK, Stages
<1>3. Elsewhere(i, m)
  <2>1. deliveries' \in [Instances -> [Messages -> 0..MaxDeliver]] /\ lease' \in [Instances -> [Messages -> 0..MaxDeliver]]
    BY <1>1 DEF TypeOK
  <2>2. \A j \in Instances, n \in Messages : <<j, n>> # <<i, m>> =>
          deliveries'[j][n] = deliveries[j][n] /\ lease'[j][n] = lease[j][n]
    BY <1>1 DEF TypeOK
  <2>3. QED BY <1>1, <1>2, <2>1, <2>2 DEF Elsewhere, TypeOK, processVars, boundVars
<1>4. Fits(i, m)
  BY <1>1, <1>2, IngesterAssumption DEF Fits, TypeOK, historyVars, boundVars
<1>5. Allowed(i, m)
  <2>1. m \in Poison => \A l \in Copies : stage[i][m][l] \in {"none", "received", "ended"}
    BY DEF PoisonInv
  <2>2. posts' = posts
    BY <1>1 DEF historyVars
  <2>3. QED BY <1>2, <2>1, <2>2 DEF Allowed
<1>6. /\ faults[i] \in Nat /\ faults' = faults /\ posts[i][m] \in Nat /\ posts' = posts
      /\ Cardinality(Claims(i, m)) \in Nat /\ Cardinality(Claims(i, m)') \in Nat
  <2>1. faults[i] \in Nat /\ posts[i][m] \in Nat
    BY IngesterAssumption DEF TypeOK
  <2>2. faults' = faults /\ posts' = posts
    BY <1>1 DEF historyVars, boundVars
  <2>3. Cardinality(Claims(i, m)) \in Nat /\ Cardinality(Claims(i, m)') \in Nat
    BY <1>1, CountClaims
  <2>4. QED BY <2>1, <2>2, <2>3
<1>7. First(i, m)' = 1
  BY <1>1, <1>2 DEF First
<1>8. ~Claim(i, m, 0)'
  BY <1>1, <1>2 DEF Claim, Again
<1>9. \A l \in 0..MaxDeliver : Claim(i, m, l)' => (Claim(i, m, l) /\ l # 0) \/ l = d + 1
  BY <1>1, <1>2, <1>8 DEF Claim
<1>10. CASE d = 0
  <2>1. Cardinality(Claims(i, m)') <= Cardinality(Claims(i, m)) + 1
    BY <1>1, <1>9, CountClaims
  <2>2. First(i, m) = 0
    <3>1. m \in Nat /\ start[i] \in Nat
      BY IngesterAssumption DEF TypeOK, Messages
    <3>2. QED BY <1>1, <1>10, <3>1 DEF First, d
  <2>3. Paid(i, m)
    BY <1>6, <1>7, <2>1, <2>2 DEF Paid
  <2>4. QED BY <1>3, <1>4, <1>5, <2>3, MessageStep
<1>11. CASE d # 0
  <2>1. Claim(i, m, 0) /\ First(i, m) = 1
    BY <1>1, <1>11 DEF Claim, Again, First, d
  <2>2. Cardinality(Claims(i, m)') <= Cardinality(Claims(i, m))
    BY <1>1, <1>9, <2>1, CountClaims
  <2>3. Paid(i, m)
    BY <1>6, <1>7, <2>1, <2>2 DEF Paid
  <2>4. QED BY <1>3, <1>4, <1>5, <2>3, MessageStep
<1>12. QED BY <1>10, <1>11

\* The server stops to wait for a copy: one that ended, or, as a fault, one
\* that the process still has.
LEMMA AckWaitSteps ==
  ASSUME IngesterInv, NEW i \in Instances, NEW m \in Messages,
         AckWaitEnds(i, m) \/ AckWaitTooShort(i, m)
  PROVE  IngesterInv'
<1> USE DEF IngesterInv
<1>1. /\ lease[i][m] # 0 /\ lease' = [lease EXCEPT ![i][m] = 0]
      /\ UNCHANGED <<published, processVars, settled, deliveries, stage, historyVars, losses>>
      /\ \/ faults' = faults /\ stage[i][m][lease[i][m]] = "ended"
         \/ faults[i] < MaxFaults /\ faults' = [faults EXCEPT ![i] = @ + 1]
  BY DEF AckWaitEnds, AckWaitTooShort, Fault, boundVars
<1>2. /\ faults[i] \in Nat /\ posts[i][m] \in Nat /\ deliveries[i][m] \in Nat /\ 0 \in 0..MaxDeliver
      /\ faults' = [faults EXCEPT ![i] = @ + 1] => faults'[i] = faults[i] + 1
      /\ \A l \in 0..MaxDeliver : l = 0 \/ l \in Copies
  BY IngesterAssumption DEF TypeOK, Copies
<1>3. Elsewhere(i, m)
  BY <1>1, <1>2 DEF Elsewhere, TypeOK, processVars
<1>4. lease'[i][m] = 0 /\ i \in up
  BY <1>1 DEF TypeOK, ConsumerInv
<1>5. Fits(i, m)
  BY <1>1, <1>2, <1>4 DEF Fits, TypeOK, ConsumerInv, historyVars
<1>6. Allowed(i, m)
  BY <1>1 DEF Allowed, PoisonInv, historyVars
<1>7. Paid(i, m)
  <2>1. First(i, m)' = First(i, m) /\ First(i, m) \in Nat
    BY <1>1, SameFirst DEF processVars
  <2>2. Cardinality(Claims(i, m)) \in Nat /\ Cardinality(Claims(i, m)') \in Nat
    BY <1>2, CountClaims
  <2>3. CASE faults' = faults /\ stage[i][m][lease[i][m]] = "ended"
    <3>1. \A l \in 0..MaxDeliver : Claim(i, m, l)' => Claim(i, m, l)
      <4>1. deliveries[i][m] > 0
        BY <1>1, <1>2 DEF ConsumerInv, TypeOK
      <4>2. QED BY <1>1, <1>2, <2>3, <4>1 DEF Claim, Again, processVars
    <3>2. Cardinality(Claims(i, m)') <= Cardinality(Claims(i, m))
      BY <1>2, <3>1, CountClaims
    <3>3. QED BY <1>1, <1>2, <2>1, <2>2, <2>3, <3>2 DEF Paid, historyVars
  <2>4. CASE faults' = [faults EXCEPT ![i] = @ + 1]
    <3>1. \A l \in 0..MaxDeliver : Claim(i, m, l)' => Claim(i, m, l) \/ l = 0
      BY <1>1, <1>2 DEF Claim
    <3>2. Cardinality(Claims(i, m)') <= Cardinality(Claims(i, m)) + 1
      BY <1>2, <3>1, CountClaims
    <3>3. QED BY <1>1, <1>2, <2>1, <2>2, <2>4, <3>2 DEF Paid, historyVars
  <2>5. QED BY <1>1, <2>3, <2>4
<1>8. QED BY <1>3, <1>5, <1>6, <1>7, MessageStep

\* A step that makes no claim, and after which no request becomes a first one.
LEMMA WideStep ==
  ASSUME IngesterInv, TypeOK', ConsumerInv', UNCHANGED <<posts, faults>>,
         \A i \in Instances, m \in Messages, k \in 0..MaxDeliver : Claim(i, m, k)' => Claim(i, m, k),
         \A i \in Instances, m \in Messages : First(i, m) <= First(i, m)',
         \A i \in Instances, m \in Messages, k \in Copies : stage'[i][m][k] \in {stage[i][m][k], "none"}
  PROVE  IngesterInv'
<1> USE DEF IngesterInv
<1>1. ClaimsInv'
  <2> SUFFICES ASSUME NEW i \in Instances, NEW m \in Messages \ Poison
               PROVE  posts[i][m] + Cardinality(Claims(i, m)') <= First(i, m)' + faults[i]
    BY DEF ClaimsInv
  <2>1. /\ posts[i][m] \in Nat /\ faults[i] \in Nat /\ 0 \in 0..MaxDeliver
        /\ First(i, m) \in Nat /\ First(i, m)' \in Nat
    BY IngesterAssumption DEF TypeOK, First
  <2>2. /\ Cardinality(Claims(i, m)) \in Nat /\ Cardinality(Claims(i, m)') \in Nat
        /\ Cardinality(Claims(i, m)') <= Cardinality(Claims(i, m))
    BY <2>1, CountClaims
  <2>3. First(i, m) <= First(i, m)'
    OBVIOUS
  <2>4. posts[i][m] + Cardinality(Claims(i, m)) <= First(i, m) + faults[i]
    BY DEF ClaimsInv
  <2>5. QED BY <2>1, <2>2, <2>3, <2>4
<1>2. PoisonInv'
  <2>1. Poison \subseteq Messages
    BY IngesterAssumption
  <2>2. QED BY <2>1 DEF PoisonInv
<1>3. AnsweredInv'
  BY DEF AnsweredInv
<1>4. QED BY <1>1, <1>2, <1>3

\* What ConsumerInv says of one instance.
ConsumerFits(j) ==
  /\ start[j] <= published
  /\ \A m \in Messages :
       /\ deliveries[j][m] > 0 => m <= published
       /\ lease[j][m] <= deliveries[j][m]
       /\ j \notin consumers => lease[j][m] = 0
       /\ j \notin up => \A k \in Copies : stage[j][m][k] = "none"

\* A consumer, or a process with its consumer, that is lost leaves nothing
\* behind that could be delivered.
LEMMA LossSteps ==
  ASSUME IngesterInv, NEW i \in Instances, ConsumerRemoved(i) \/ Crash(i)
  PROVE  IngesterInv'
<1> USE DEF IngesterInv
<1>1. /\ losses < MaxLosses /\ losses' = losses + 1
      /\ consumers' = consumers \ {i} /\ lease' = [lease EXCEPT ![i] = NoDeliveries]
      /\ \/ up' = up /\ stage' = stage
         \/ up' = up \ {i} /\ stage' = [stage EXCEPT ![i] = NoCopies]
      /\ UNCHANGED <<published, start, settled, deliveries, acked, posts, faults>>
  BY DEF ConsumerRemoved, Crash, Loss, historyVars
<1>2. /\ NoDeliveries \in [Messages -> 0..MaxDeliver] /\ NoCopies \in [Messages -> [Copies -> Stages]]
      /\ losses' \in 0..MaxLosses
      /\ \A m \in Messages : deliveries[i][m] \in Nat
      /\ \A l \in 0..MaxDeliver : l = 0 \/ l \in Copies
  BY <1>1, IngesterAssumption DEF NoDeliveries, NoCopies, Stages, TypeOK, Copies
<1>3. TypeOK'
  <2>1. stage' \in [Instances -> [Messages -> [Copies -> Stages]]]
    BY <1>1, <1>2 DEF TypeOK
  <2>2. lease' \in [Instances -> [Messages -> 0..MaxDeliver]]
    BY <1>1, <1>2 DEF TypeOK
  <2>3. up' \subseteq Instances /\ consumers' \subseteq up'
    BY <1>1 DEF TypeOK
  <2>4. QED BY <1>1, <1>2, <2>1, <2>2, <2>3 DEF TypeOK
<1>4. /\ \A m \in Messages : lease'[i][m] = 0
      /\ i \notin consumers'
      /\ \A m \in Messages, k \in Copies : stage'[i][m][k] \in {stage[i][m][k], "none"}
      /\ i \notin up' => i \notin up \/ \A m \in Messages, k \in Copies : stage'[i][m][k] = "none"
      /\ \A j \in Instances : j # i =>
           lease'[j] = lease[j] /\ stage'[j] = stage[j] /\ (j \in up' <=> j \in up)
           /\ (j \in consumers' <=> j \in consumers)
  BY <1>1 DEF TypeOK, NoDeliveries, NoCopies
<1>5. ConsumerInv'
  <2> SUFFICES ASSUME NEW j \in Instances PROVE ConsumerFits(j)'
    BY DEF ConsumerInv, ConsumerFits
  <2>1. ConsumerFits(j)
    BY DEF ConsumerInv, ConsumerFits
  <2>2. CASE j = i
    BY <1>1, <1>2, <1>4, <2>1, <2>2 DEF ConsumerFits
  <2>3. CASE j # i
    BY <1>1, <1>4, <2>1, <2>3 DEF ConsumerFits
  <2>4. QED BY <2>2, <2>3
<1>6. ASSUME NEW j \in Instances, NEW m \in Messages, NEW k \in 0..MaxDeliver, Claim(j, m, k)'
      PROVE  Claim(j, m, k)
  <2>1. CASE j = i
    BY <1>1, <1>2, <1>4, <1>6, <2>1 DEF Claim, Again
  <2>2. CASE j # i
    BY <1>1, <1>4, <1>6, <2>2 DEF Claim, Again
  <2>3. QED BY <2>1, <2>2
<1>7. /\ \A j \in Instances, m \in Messages : First(j, m) <= First(j, m)'
      /\ \A j \in Instances, m \in Messages, k \in Copies : stage'[j][m][k] \in {stage[j][m][k], "none"}
  BY <1>1, <1>4 DEF First
<1>8. QED BY <1>1, <1>3, <1>5, <1>6, <1>7, WideStep

\* Publications, and consumers of processes that start.
LEMMA ProcessSteps ==
  ASSUME IngesterInv,
         \/ Publish \/ UNCHANGED vars
         \/ \E i \in Instances : CreateConsumer(i)
  PROVE  IngesterInv'
<1> USE DEF IngesterInv
<1>1. /\ MaxMessages \in Nat /\ published \in 0..MaxMessages /\ published \in Nat /\ MaxDeliver \in Nat
      /\ \A l \in 0..MaxDeliver : l = 0 \/ l \in Copies
      /\ \A i \in Instances : start[i] \in Nat /\ start[i] <= published
      /\ \A m \in Messages : m \in Nat
      /\ \A i \in Instances, m \in Messages : deliveries[i][m] \in Nat /\ (deliveries[i][m] > 0 => m <= published)
  BY IngesterAssumption DEF TypeOK, Copies, ConsumerInv, Messages
<1>2. CASE Publish
  <2>1. /\ published < MaxMessages /\ published' = published + 1
        /\ UNCHANGED <<up, consumers, start, settled, deliveries, lease, stage, acked, posts, faults, losses>>
    BY <1>2 DEF Publish, processVars, consumerVars, historyVars, boundVars
  <2>2. TypeOK'
    BY <1>1, <2>1 DEF TypeOK
  <2>3. ConsumerInv'
    BY <1>1, <2>1 DEF ConsumerInv
  <2>4. /\ \A i \in Instances, m \in Messages, k \in 0..MaxDeliver : Claim(i, m, k)' => Claim(i, m, k)
        /\ \A i \in Instances, m \in Messages : First(i, m) <= First(i, m)'
    BY <2>1 DEF Claim, Again, First
  <2>5. QED BY <2>1, <2>2, <2>3, <2>4, WideStep
<1>3. ASSUME NEW i \in Instances, CreateConsumer(i) PROVE IngesterInv'
  <2>1. /\ i \notin up /\ up' = up \union {i} /\ consumers' = consumers \union {i}
        /\ start' = [start EXCEPT ![i] = published]
        /\ settled' = [settled EXCEPT ![i] = {}]
        /\ deliveries' = [deliveries EXCEPT ![i] = NoDeliveries]
        /\ lease' = [lease EXCEPT ![i] = NoDeliveries]
        /\ UNCHANGED <<published, stage, acked, posts, faults, losses>>
    BY <1>3 DEF CreateConsumer, historyVars, boundVars
  <2>2. NoDeliveries \in [Messages -> 0..MaxDeliver]
    BY <1>1 DEF NoDeliveries
  <2>3. TypeOK'
    BY <1>1, <2>1, <2>2 DEF TypeOK
  <2>4. /\ start'[i] = published /\ \A m \in Messages : deliveries'[i][m] = 0 /\ lease'[i][m] = 0
        /\ i \in up' /\ i \in consumers'
        /\ \A j \in Instances : j # i =>
             /\ start'[j] = start[j] /\ settled'[j] = settled[j]
             /\ deliveries'[j] = deliveries[j] /\ lease'[j] = lease[j]
             /\ (j \in up' <=> j \in up) /\ (j \in consumers' <=> j \in consumers)
    BY <2>1 DEF TypeOK, NoDeliveries
  <2>5. ConsumerInv'
    <3> SUFFICES ASSUME NEW j \in Instances PROVE ConsumerFits(j)'
      BY DEF ConsumerInv, ConsumerFits
    <3>1. CASE j = i
      BY <1>1, <2>1, <2>4, <3>1 DEF ConsumerFits
    <3>2. CASE j # i
      BY <2>1, <2>4, <3>2 DEF ConsumerInv, ConsumerFits
    <3>3. QED BY <3>1, <3>2
  <2>6. ASSUME NEW j \in Instances, NEW m \in Messages, NEW k \in 0..MaxDeliver, Claim(j, m, k)'
        PROVE  Claim(j, m, k)
    <3>1. CASE j = i
      BY <2>1, <2>4, <2>6, <3>1 DEF Claim, Again
    <3>2. CASE j # i
      BY <2>1, <2>4, <2>6, <3>2 DEF Claim, Again
    <3>3. QED BY <3>1, <3>2
  <2>7. ASSUME NEW j \in Instances, NEW m \in Messages PROVE First(j, m) <= First(j, m)'
    <3>1. CASE j = i
      BY <1>1, <2>4, <3>1 DEF First
    <3>2. CASE j # i
      BY <2>4, <3>2 DEF First
    <3>3. QED BY <3>1, <3>2
  <2>8. QED BY <2>1, <2>3, <2>5, <2>6, <2>7, WideStep
<1>4. CASE UNCHANGED vars
  <2>1. UNCHANGED <<published, up, consumers, start, settled, deliveries, lease, stage, acked, posts, faults, losses>>
    BY <1>4 DEF vars, processVars, consumerVars, historyVars, boundVars
  <2>2. TypeOK' /\ ConsumerInv'
    BY <2>1 DEF TypeOK, ConsumerInv
  <2>3. /\ \A i \in Instances, m \in Messages, k \in 0..MaxDeliver : Claim(i, m, k)' => Claim(i, m, k)
        /\ \A i \in Instances, m \in Messages : First(i, m) <= First(i, m)'
    BY <2>1 DEF Claim, Again, First
  <2>4. QED BY <2>1, <2>2, <2>3, WideStep
<1>5. QED BY <1>2, <1>3, <1>4

-----------------------------------------------------------------------------
(* The ingesters                                                           *)

\* The invariant holds before any instance has a consumer.
LEMMA Initially == ASSUME Init PROVE IngesterInv
<1>1. 0 \in 0..MaxMessages /\ 0 \in 0..MaxDeliver /\ 0 \in 0..MaxFaults /\ 0 \in 0..MaxLosses
      /\ \A l \in 0..MaxDeliver : l = 0 \/ l \in Copies
  BY IngesterAssumption DEF Copies
<1>2. TypeOK
  <2>1. /\ NoDeliveries \in [Messages -> 0..MaxDeliver] /\ NoDeliveries \in [Messages -> Nat]
        /\ NoCopies \in [Messages -> [Copies -> Stages]]
    BY <1>1 DEF NoDeliveries, NoCopies, Stages
  <2>2. settled \in [Instances -> SUBSET Messages]
    BY DEF Init
  <2>3. QED BY <1>1, <2>1, <2>2 DEF Init, TypeOK
<1>3. /\ \A i \in Instances, m \in Messages : deliveries[i][m] = 0 /\ lease[i][m] = 0 /\ posts[i][m] = 0
      /\ \A i \in Instances, m \in Messages, k \in Copies : stage[i][m][k] = "none"
  BY DEF Init, NoDeliveries, NoCopies
<1>4. ConsumerInv
  BY <1>1, <1>3 DEF Init, ConsumerInv
<1>5. ClaimsInv
  <2> SUFFICES ASSUME NEW i \in Instances, NEW m \in Messages
               PROVE  posts[i][m] + Cardinality(Claims(i, m)) <= First(i, m) + faults[i]
    BY DEF ClaimsInv
  <2>1. Claims(i, m) = {}
    BY <1>1, <1>3 DEF Claims, Claim, Again, Init
  <2>2. Cardinality(Claims(i, m)) = 0
    BY <2>1, FS_EmptySet
  <2>3. posts[i][m] = 0 /\ faults[i] = 0 /\ First(i, m) \in Nat
    BY <1>3 DEF Init, First
  <2>4. QED BY <2>2, <2>3
<1>6. PoisonInv /\ AnsweredInv
  BY <1>3, IngesterAssumption DEF PoisonInv, AnsweredInv
<1>7. QED BY <1>2, <1>4, <1>5, <1>6 DEF IngesterInv

\* The inductive invariant: requests made and claimed are covered by the
\* first one and the faults of the instance, also over lost consumers.
THEOREM Invariance == Spec => []IngesterInv
<1>1. IngesterInv /\ [Next]_vars => IngesterInv'
  BY DeliverStep, AckWaitSteps, CopySteps, LossSteps, ProcessSteps DEF Next, Progress, Failure
<1>2. QED BY Initially, <1>1, PTL DEF Spec

\* The state of the stream, the consumers and the processes keep their types.
THEOREM TypeCorrect == Spec => []TypeOK
<1>1. IngesterInv => TypeOK
  BY DEF IngesterInv
<1>2. QED BY Invariance, <1>1, PTL

\* Requests that an instance repeats for one message are paid for by its
\* faults, and lost consumers cost none.
THEOREM FewReposts == Spec => []RepostsNeedFaults
<1>1. IngesterInv => RepostsNeedFaults
  <2> SUFFICES ASSUME IngesterInv, NEW i \in Instances, NEW m \in Messages
               PROVE  posts[i][m] <= 1 + faults[i]
    BY DEF RepostsNeedFaults
  <2>1. /\ posts[i][m] \in Nat /\ faults[i] \in Nat /\ Cardinality(Claims(i, m)) \in Nat
        /\ First(i, m) \in {0, 1}
    <3>1. 0 \in 0..MaxDeliver
      BY IngesterAssumption
    <3>2. posts[i][m] \in Nat /\ faults[i] \in Nat
      BY IngesterAssumption DEF IngesterInv, TypeOK
    <3>3. Cardinality(Claims(i, m)) \in Nat
      BY <3>1, CountClaims
    <3>4. QED BY <3>2, <3>3 DEF First
  <2>2. CASE m \in Poison
    BY <2>1, <2>2 DEF IngesterInv, PoisonInv
  <2>3. CASE m \notin Poison
    <3>1. posts[i][m] + Cardinality(Claims(i, m)) <= First(i, m) + faults[i]
      BY <2>3 DEF IngesterInv, ClaimsInv
    <3>2. QED BY <2>1, <3>1
  <2>4. QED BY <2>2, <2>3
<1>2. QED BY Invariance, <1>1, PTL

-----------------------------------------------------------------------------
(* The relay of events                                                     *)

Backlog == Messages \ acked
PostedNow == {m \in Messages : \E i \in Instances : posts[i][m] > 0}

\* Every step of the ingesters is one of the relay, or changes nothing it
\* knows of.
LEMMA StepRefines ==
  ASSUME IngesterInv, [Next]_vars
  PROVE  [Relay!RelayNext]_<<Backlog, {}, PostedNow>>
<1>1. ASSUME UNCHANGED <<acked, posts>> PROVE UNCHANGED <<Backlog, {}, PostedNow>>
  BY <1>1 DEF Backlog, PostedNow
<1>2. ASSUME NEW i \in Instances, NEW m \in Messages, NEW k \in Copies, Ack(i, m, k)
      PROVE  Relay!Settle(m) \/ UNCHANGED <<acked, posts>>
  <2>1. /\ acked' = acked \union {m} \/ acked' = acked
        /\ posts' = posts /\ stage[i][m][k] = "answered"
    BY <1>2 DEF Ack, AckFrom, Step
  <2>2. posts[i][m] > 0
    BY <2>1 DEF IngesterInv, AnsweredInv
  <2>3. QED BY <2>1, <2>2 DEF Relay!Settle
<1>3. ASSUME NEW i \in Instances, NEW m \in Messages, NEW k \in Copies, ApiAnswers(i, m, k)
      PROVE  Relay!Post(m)
  <2>1. acked' = acked /\ posts' = [posts EXCEPT ![i][m] = @ + 1] /\ posts \in [Instances -> [Messages -> Nat]]
    BY <1>3 DEF ApiAnswers, IngesterInv, TypeOK
  <2>2. /\ posts'[i][m] > 0
        /\ \A j \in Instances, n \in Messages : <<j, n>> # <<i, m>> => posts'[j][n] = posts[j][n]
    BY <2>1
  <2>3. \A n \in Messages : (\E j \in Instances : posts'[j][n] > 0) <=> (\E j \in Instances : posts[j][n] > 0) \/ n = m
    BY <2>2
  <2>4. QED BY <2>1, <2>3 DEF Relay!Post
<1>4. ASSUME \/ Publish \/ UNCHANGED vars
             \/ \E i \in Instances : CreateConsumer(i) \/ ConsumerRemoved(i) \/ Crash(i)
             \/ \E i \in Instances, m \in Messages :
                  Deliver(i, m) \/ AckWaitEnds(i, m) \/ AckWaitTooShort(i, m)
             \/ \E i \in Instances, m \in Messages, k \in Copies :
                  TakeItem(i, m, k) \/ Nak(i, m, k) \/ PostFails(i, m, k) \/ AckLost(i, m, k)
      PROVE  UNCHANGED <<acked, posts>>
  BY <1>4 DEF Publish, CreateConsumer, ConsumerRemoved, Crash, Deliver, AckWaitEnds, AckWaitTooShort,
              TakeItem, Nak, PostFails, AckLost, vars, historyVars
<1>5. QED
  BY <1>1, <1>2, <1>3, <1>4 DEF Next, Progress, Failure, Relay!RelayNext

\* The ingesters over JetStream implement the relay of events, safety part.
THEOREM Refinement == Spec => ImplementsRelaySafe
<1>1. Init => Relay!RelayInit
  BY DEF Init, NoDeliveries, Relay!RelayInit
<1>2. QED
  BY <1>1, StepRefines, Invariance, PTL
     DEF Spec, ImplementsRelaySafe, Relay!RelaySafe, Relay!relayVars, Backlog, PostedNow
=============================================================================
