--------------------------- MODULE LibrariesProofs ---------------------------
(***************************************************************************)
(* The parts below the services and the component beside them, each for    *)
(* every value of its constants.                                           *)
(*   Stores: no update of a store that compares revisions is lost, and     *)
(*     every failed operation of Redis is counted.                         *)
(*   Throughput tracking: the gauge subtracts no larger number from a      *)
(*     smaller one, and no message is in two rates.                        *)
(*   Retry: the wait before a call fits the last answer of its path, and   *)
(*     the retry aborts exactly when all of its paths did.                 *)
(*   API calls: no answer but one of the API to this very request          *)
(*     acknowledges an event or moves the subscriber past a task, and no   *)
(*     task is passed that was not decoded.                                *)
(*   Amplifier component: no event is sent twice, and no request outlives  *)
(*     the component or the engine.                                        *)
(*   Messages: what a message was encoded from is what is decoded, from    *)
(*     Borsh always, from JSON but for the fields it has under one name.   *)
(***************************************************************************)
EXTENDS Stores, ThroughputTracker, Retry, ApiCalls, AmplifierComponent, Messages,
        SequenceTheorems, FiniteSetTheorems, WellFoundedInduction, TLAPS

-----------------------------------------------------------------------------
(* Stores                                                                  *)

Revisions == [value : Nat, revision : Nat, version : Nat, known : BOOLEAN]

StoresType ==
  /\ stored \in Nat /\ revision \in Nat /\ effects \in Nat /\ failures \in Nat
  /\ metrics \in [reads : Nat, writes : Nat, errors : Nat]
  /\ held \in [Clients -> Revisions]

\* Nobody is ahead of the store, and who is not behind has its value.
HeldInv ==
  \A c \in Clients :
    held[c].known =>
      /\ held[c].version <= revision
      /\ held[c].version = revision => held[c].value = stored
      /\ backend = "nats" => held[c].revision = held[c].version

StoresInv == StoresType /\ HeldInv /\ NoLostUpdate /\ FailuresCounted

\* An empty store and idle clients satisfy the invariant of the stores.
LEMMA StoresInitInv == StoresInit => StoresInv
BY DEF StoresInit, StoresInv, StoresType, Revisions, HeldInv, Nothing, NoLostUpdate, FailuresCounted

\* What every operation does to the metrics: a failed one counts an error.
LEMMA MetricsKept ==
  ASSUME StoresInv, NEW r \in Nat, NEW w \in Nat, NEW e \in Nat, Recorded(r, w, e),
         UNCHANGED backend, failures' = failures \/ (failures' = failures + 1 /\ e >= 1)
  PROVE  /\ metrics' \in [reads : Nat, writes : Nat, errors : Nat]
         /\ failures' \in Nat /\ FailuresCounted'
BY DEF StoresInv, StoresType, Recorded, FailuresCounted

\* A client that learns the stored value, or nothing at all, changes nothing.
LEMMA ReadKept ==
  ASSUME StoresInv, NoWrite, UNCHANGED <<backend, blind>>,
         \/ UNCHANGED held
         \/ \E c \in Clients : held' = [held EXCEPT ![c] = WithRevision(stored, revision)]
  PROVE  held' \in [Clients -> Revisions] /\ HeldInv' /\ NoLostUpdate'
<1>1. CASE UNCHANGED held
  BY <1>1 DEF StoresInv, StoresType, HeldInv, NoWrite, NoLostUpdate
<1>2. ASSUME NEW c \in Clients, held' = [held EXCEPT ![c] = WithRevision(stored, revision)]
      PROVE  held' \in [Clients -> Revisions] /\ HeldInv' /\ NoLostUpdate'
  <2>1. WithRevision(stored, revision) \in Revisions
    BY DEF StoresInv, StoresType, WithRevision, Revisions
  <2>2. held' \in [Clients -> Revisions]
    BY <1>2, <2>1 DEF StoresInv, StoresType
  <2>3. HeldInv'
    BY <1>2 DEF StoresInv, StoresType, HeldInv, WithRevision, NoWrite
  <2>4. NoLostUpdate'
    BY DEF StoresInv, NoWrite, NoLostUpdate
  <2>5. QED BY <2>2, <2>3, <2>4
<1>3. QED BY <1>1, <1>2

\* A write that is accepted and not blind is based on the stored value.
LEMMA WriteKept ==
  ASSUME StoresInv, NEW c \in Clients, NEW operation \in {"update", "put"},
         held[c].known, TakesEffect(c, operation), UNCHANGED backend,
         \/ UNCHANGED held
         \/ held' = [held EXCEPT ![c] = WithRevision(@.value + 1, revision + 1)]
  PROVE  /\ stored' \in Nat /\ revision' \in Nat /\ effects' \in Nat
         /\ held' \in [Clients -> Revisions] /\ HeldInv' /\ NoLostUpdate'
<1>1. held[c] \in Revisions
  BY DEF StoresInv, StoresType
<1>2. stored' \in Nat /\ revision' \in Nat /\ effects' \in Nat
  BY <1>1 DEF StoresInv, StoresType, TakesEffect, Write, Revisions
<1>3. NoLostUpdate'
  <2>1. CASE Compares(operation)
    <3>1. held[c].version = revision
      BY <2>1 DEF StoresInv, HeldInv, TakesEffect, Accepted, Compares
    <3>2. held[c].value = stored
      BY <3>1 DEF StoresInv, HeldInv
    <3>3. ~blind' => ~blind
      BY DEF TakesEffect
    <3>4. QED BY <3>2, <3>3 DEF StoresInv, NoLostUpdate, TakesEffect, Write
  <2>2. CASE ~Compares(operation)
    <3>1. SUFFICES ASSUME ~blind' PROVE stored' = effects'
      BY DEF NoLostUpdate
    <3>2. ~blind /\ held[c].version = revision
      BY <2>2, <3>1 DEF TakesEffect
    <3>3. held[c].value = stored
      BY <3>2 DEF StoresInv, HeldInv
    <3>4. QED BY <3>2, <3>3 DEF StoresInv, NoLostUpdate, TakesEffect, Write
  <2>3. QED BY <2>1, <2>2
<1>4. CASE UNCHANGED held
  BY <1>2, <1>3, <1>4 DEF StoresInv, StoresType, Revisions, HeldInv, TakesEffect, Write
<1>5. CASE held' = [held EXCEPT ![c] = WithRevision(@.value + 1, revision + 1)]
  <2>1. WithRevision(held[c].value + 1, revision + 1) \in Revisions
    BY <1>1 DEF StoresInv, StoresType, WithRevision, Revisions
  <2>2. held' \in [Clients -> Revisions]
    BY <1>5, <2>1 DEF StoresInv, StoresType
  <2>3. HeldInv'
    BY <1>5 DEF StoresInv, StoresType, Revisions, HeldInv, TakesEffect, Write, WithRevision
  <2>4. QED BY <1>2, <1>3, <2>2, <2>3
<1>6. QED BY <1>4, <1>5

\* Each call of a client of either store keeps it.
LEMMA StoresNextInv == StoresInv /\ [StoresNext]_storesVars => StoresInv'
<1> SUFFICES ASSUME StoresInv, [StoresNext]_storesVars PROVE StoresInv'
  OBVIOUS
<1>1. ASSUME NEW c \in Clients, Get(c) PROVE StoresInv'
  <2>1. PICK n \in {0, 1} : Recorded(n, 0, 1)
    BY <1>1 DEF Get
  <2>2. metrics' \in [reads : Nat, writes : Nat, errors : Nat] /\ failures' \in Nat /\ FailuresCounted'
    BY <1>1, <2>1, MetricsKept DEF Get
  <2>3. held' \in [Clients -> Revisions] /\ HeldInv' /\ NoLostUpdate'
    BY <1>1, ReadKept DEF Get
  <2>4. QED BY <1>1, <2>2, <2>3 DEF Get, NoWrite, StoresInv, StoresType
<1>2. ASSUME NEW c \in Clients, GetFails(c) \/ DecodeFails(c) PROVE StoresInv'
  <2>1. PICK e \in {1, 2} : Recorded(0, 0, e)
    BY <1>2 DEF GetFails, DecodeFails
  <2>2. metrics' \in [reads : Nat, writes : Nat, errors : Nat] /\ failures' \in Nat /\ FailuresCounted'
    BY <1>2, <2>1, MetricsKept DEF GetFails, DecodeFails
  <2>3. held' \in [Clients -> Revisions] /\ HeldInv' /\ NoLostUpdate'
    BY <1>2, ReadKept DEF GetFails, DecodeFails
  <2>4. QED BY <1>2, <2>2, <2>3 DEF GetFails, DecodeFails, NoWrite, StoresInv, StoresType
<1>3. ASSUME NEW c \in Clients, NEW operation \in {"update", "put"}, Succeed(c, operation)
      PROVE  StoresInv'
  <2>1. metrics' \in [reads : Nat, writes : Nat, errors : Nat] /\ failures' \in Nat /\ FailuresCounted'
    BY <1>3, MetricsKept DEF Succeed
  <2>2. QED BY <1>3, <2>1, WriteKept DEF Succeed, StoresInv, StoresType
<1>4. ASSUME NEW c \in Clients, NEW operation \in {"update", "put"}, Fail(c, operation)
      PROVE  StoresInv'
  <2>1. metrics' \in [reads : Nat, writes : Nat, errors : Nat] /\ failures' \in Nat /\ FailuresCounted'
    BY <1>4, MetricsKept DEF Fail
  <2>2. CASE TakesEffect(c, operation)
    BY <1>4, <2>1, <2>2, WriteKept DEF Fail, StoresInv, StoresType
  <2>3. CASE NoWrite /\ UNCHANGED blind
    BY <1>4, <2>1, <2>3, ReadKept DEF Fail, NoWrite, StoresInv, StoresType
  <2>4. QED BY <1>4, <2>2, <2>3 DEF Fail
<1>5. ASSUME PingFails PROVE StoresInv'
  <2>1. metrics' \in [reads : Nat, writes : Nat, errors : Nat] /\ failures' \in Nat /\ FailuresCounted'
    BY <1>5, MetricsKept DEF PingFails
  <2>2. QED BY <1>5, <2>1, ReadKept DEF PingFails, NoWrite, StoresInv, StoresType
<1>6. CASE UNCHANGED storesVars
  BY <1>6 DEF storesVars, StoresInv, StoresType, HeldInv, NoLostUpdate, FailuresCounted
<1>7. QED BY <1>1, <1>2, <1>3, <1>4, <1>5, <1>6 DEF StoresNext

(* No increment of a client is lost or applied twice, with any number of   *)
(* clients on either store (update and put of gcp/kv_store.rs and          *)
(* nats/kv_store.rs), unless a write that names no revision met a newer    *)
(* value.                                                                  *)
THEOREM UpdatesKept == StoresSpec => []NoLostUpdate
<1>1. StoresInv => NoLostUpdate
  BY DEF StoresInv
<1>2. QED BY <1>1, StoresInitInv, StoresNextInv, PTL DEF StoresSpec

(* Every failed operation of RedisClient (gcp/kv_store.rs) is in its error *)
(* counter.                                                                *)
THEOREM ErrorsCounted == StoresSpec => []FailuresCounted
<1>1. StoresInv => FailuresCounted
  BY DEF StoresInv
<1>2. QED BY <1>1, StoresInitInv, StoresNextInv, PTL DEF StoresSpec

-----------------------------------------------------------------------------
(* ThroughputTracker                                                       *)

TrackerType ==
  /\ {clock, processed, lastCount, lastTimestamp, count, prev, now, last, reported, dropped} \subseteq Nat
  /\ gauge \in {"load", "swap_count", "read_clock", "swap_time", "rate"}

\* The reader alone writes lastCount and lastTimestamp, so what it loads is
\* never less than what it finds there.
CountInv ==
  /\ lastCount <= count /\ count <= processed
  /\ gauge \in {"read_clock", "swap_time", "rate"} => prev <= count
  /\ gauge \in {"load", "read_clock", "swap_time", "rate"} => lastCount = count
  /\ reported + dropped =
       IF gauge \in {"read_clock", "swap_time", "rate"} THEN prev ELSE lastCount

ClockInv ==
  /\ lastTimestamp <= now /\ now <= clock
  /\ gauge = "rate" => last <= now

TrackerInv == TrackerType /\ CountInv /\ ClockInv

\* Each atomic operation, and the clock, keeps the invariant of the gauge.
LEMMA TrackerNextInv == TrackerInv /\ [TrackerNext]_trackerVars => TrackerInv'
<1> SUFFICES ASSUME TrackerInv, [TrackerNext]_trackerVars PROVE TrackerInv'
  OBVIOUS
<1> USE DEF TrackerInv, TrackerType, CountInv, ClockInv
<1>1. CASE Tick
  BY <1>1 DEF Tick
<1>2. CASE RecordProcessed
  BY <1>2 DEF RecordProcessed
<1>3. CASE LoadCount
  BY <1>3 DEF LoadCount
<1>4. CASE SwapCount
  BY <1>4 DEF SwapCount
<1>5. CASE ReadClock
  BY <1>5 DEF ReadClock
<1>6. CASE SwapTime
  BY <1>6 DEF SwapTime
<1>7. CASE Rate
  BY <1>7 DEF Rate
<1>8. CASE UNCHANGED trackerVars
  BY <1>8 DEF trackerVars
<1>9. QED BY <1>1, <1>2, <1>3, <1>4, <1>5, <1>6, <1>7, <1>8 DEF TrackerNext, Observe

\* So it holds in every state between two atomic operations.
LEMMA TrackerAlways == TrackerSpec => []TrackerInv
<1>1. TrackerInit => TrackerInv
  BY DEF TrackerInit, TrackerInv, TrackerType, CountInv, ClockInv
<1>2. QED BY <1>1, TrackerNextInv, PTL DEF TrackerSpec

(* Neither u64 subtraction of update_and_get_rate (tracking.rs) wraps,     *)
(* whatever handlers and clock do between its steps.                       *)
THEOREM Subtractions == TrackerSpec => []NoUnderflow
<1>1. TrackerInv => NoUnderflow
  BY DEF TrackerInv, CountInv, ClockInv, NoUnderflow
<1>2. QED BY <1>1, TrackerAlways, PTL

(* Every acknowledged message is in exactly one rate, or in a reading      *)
(* without elapsed time (update_and_get_rate, tracking.rs).                *)
THEOREM Rates == TrackerSpec => []EachMessageInOneRate
<1>1. TrackerInv => EachMessageInOneRate
  BY DEF TrackerInv, CountInv, EachMessageInOneRate
<1>2. QED BY <1>1, TrackerAlways, PTL

-----------------------------------------------------------------------------
(* Retry                                                                   *)

BothPaths == {"first", "second"}

Called == PathOf(attempt - 1)

\* RetryTypeOK without the bound on calls, which AttemptsInv gives.
BaseType ==
  /\ kind \in {"single", "pair"}
  /\ attempt \in 0..MaxAttempts
  /\ backoff \in [first : 0..U64Max, second : 0..U64Max]
  /\ aborted \subseteq Paths /\ limited \subseteq Paths
  /\ wait \in Nat
  /\ retry \in {"waiting", "calling"} \cup Results
  /\ heard \in [BothPaths -> AnswersOf \cup {"none"}]
  /\ calls \in [BothPaths -> Nat]

\* A call is made by an attempt.
AttemptsInv ==
  /\ calls["first"] + calls["second"] + (IF retry = "calling" THEN 1 ELSE 0) <= attempt

\* What the retry remembers of each path is its last answer.
AbortInv ==
  /\ retry = "calling" => Called \in Paths \ aborted
  /\ \A p \in Paths : p \in aborted <=> heard[p] = "aborted"
  /\ retry = "aborted" <=> aborted = Paths

LimitInv ==
  /\ \A p \in Paths :
       p \in limited <=> kind = "pair" /\ heard[p] = "limited" /\ ~(retry = "calling" /\ p = Called)
  /\ retry = "waiting" =>
       wait = IF kind = "single" /\ heard["first"] = "limited" THEN RateLimitWait ELSE 0

RetryInv == BaseType /\ AttemptsInv /\ AbortInv /\ LimitInv /\ WaitFits

-----------------------------------------------------------------------------
(* The backoff                                                             *)

\* Every turn belongs to one of the paths of the retry.
LEMMA PathIsPath ==
  ASSUME BaseType, NEW n \in Nat PROVE PathOf(n) \in Paths /\ Paths \subseteq BothPaths
BY DEF PathOf, Paths, BothPaths, BaseType

\* A saturated number is at most its limit.
LEMMA AtMostBounds ==
  ASSUME NEW limit \in Nat, NEW n \in Nat
  PROVE  AtMost(limit, n) \in 0..limit
BY DEF AtMost

\* A delay after jitter still fits the width of the code's integer.
LEMMA JitterBounds ==
  ASSUME NEW n \in Nat, NEW delay \in Jitter(n) PROVE delay \in 0..U64Max
<1>1. CASE n = 0
  BY <1>1, RetryAssumption DEF Jitter
<1>2. CASE n # 0
  <2>1. PICK m \in (n \div 2)..((3 * n - 1) \div 2) : delay = AtMost(U64Max, m)
    BY <1>2 DEF Jitter
  <2>2. m \in Nat
    OBVIOUS
  <2>3. QED BY <2>1, <2>2, AtMostBounds, RetryAssumption
<1>3. QED BY <1>1, <1>2

\* A fact of arithmetic, cited where the provers lose sight of it.
LEMMA ProductIsNat == ASSUME NEW a \in Nat, NEW b \in Nat PROVE a * b \in Nat
OBVIOUS

\* The delay slept, before or after the iterator stores the next one.
LEMMA DelayBounds ==
  ASSUME BaseType, NEW path \in BothPaths PROVE Delay(path) \in 0..MaxDelay
<1>1. backoff.first * Factor \in Nat
  BY ProductIsNat, RetryAssumption DEF BaseType
<1>2. backoff[path] \in Nat
  <2>1. CASE path = "first"
    BY <2>1, RetryAssumption DEF BaseType
  <2>2. CASE path = "second"
    BY <2>2, RetryAssumption DEF BaseType
  <2>3. QED BY <2>1, <2>2 DEF BothPaths
<1>3. MaxDelay \in Nat
  BY RetryAssumption
<1>4. CASE kind = "pair"
  BY <1>2, <1>3, <1>4, AtMostBounds DEF Delay
<1>5. CASE kind # "pair"
  BY <1>1, <1>3, <1>5, AtMostBounds DEF Delay
<1>6. QED BY <1>4, <1>5

\* The stored delays saturate.
LEMMA BackoffKept ==
  ASSUME BaseType, NEW path \in BothPaths,
         IF kind = "pair" THEN NextPairBackoff(path) ELSE NextSingleBackoff
  PROVE  backoff' \in [first : 0..U64Max, second : 0..U64Max]
<1>1. backoff.first * Factor \in Nat /\ backoff.first * InitialDelay \in Nat
  BY ProductIsNat, RetryAssumption DEF BaseType
<1>2. U64Max \in Nat
  BY RetryAssumption
<1>3. CASE kind = "pair"
  <2>1. Grown(path) \in Nat
    <3>1. Grown(path) \in 0..U64Max
      BY <1>1, <1>2, AtMostBounds DEF Grown
    <3>2. QED BY <1>2, <3>1
  <2>2. PICK delay \in Jitter(Grown(path)) : backoff' = [backoff EXCEPT ![path] = delay]
    BY <1>3 DEF NextPairBackoff
  <2>3. delay \in 0..U64Max
    BY <2>1, JitterBounds
  <2>4. CASE path = "first"
    BY <2>2, <2>3, <2>4 DEF BaseType
  <2>5. CASE path = "second"
    BY <2>2, <2>3, <2>5 DEF BaseType
  <2>6. QED BY <2>4, <2>5 DEF BothPaths
<1>4. CASE kind # "pair"
  <2>1. AtMost(U64Max, backoff.first * InitialDelay) \in 0..U64Max
    BY <1>1, <1>2, AtMostBounds
  <2>2. QED BY <1>4, <2>1 DEF NextSingleBackoff, BaseType
<1>5. QED BY <1>3, <1>4

-----------------------------------------------------------------------------
(* The iterations                                                          *)

\* A retry before its first call satisfies the invariant.
LEMMA RetryInitInv == RetryInit => RetryInv
<1> SUFFICES ASSUME RetryInit PROVE RetryInv
  OBVIOUS
<1>1. BaseType
  BY RetryAssumption DEF RetryInit, BackoffInit, BaseType, Paths, BothPaths, AnswersOf
<1>2. AttemptsInv
  BY DEF RetryInit, AttemptsInv
<1>3. Paths # {} /\ Paths \subseteq BothPaths
  BY DEF Paths, BothPaths
<1>4. AbortInv /\ LimitInv /\ WaitFits
  BY <1>3 DEF RetryInit, AbortInv, LimitInv, WaitFits, BothPaths
<1>5. QED BY <1>1, <1>2, <1>4 DEF RetryInv

\* The path called is that of the iteration just taken.
LEMMA IterateKept ==
  ASSUME RetryInv, Iterate PROVE RetryInv'
<1> DEFINE path == PathOf(attempt)
<1>1. attempt \in Nat /\ attempt + 1 \in 0..MaxAttempts /\ attempt' = attempt + 1
  BY RetryAssumption DEF RetryInv, BaseType, Iterate
<1>2. path \in Paths /\ Paths \subseteq BothPaths /\ Paths' = Paths
  BY <1>1, PathIsPath DEF RetryInv, Iterate, Paths
<1>3. Called' = path
  BY <1>1 DEF Called, PathOf, Iterate
<1>4. backoff' \in [first : 0..U64Max, second : 0..U64Max]
  BY <1>2, BackoffKept DEF RetryInv, Iterate
<1>5. Delay(path) \in 0..MaxDelay /\ {MaxDelay, RateLimitWait} \subseteq Nat
  BY <1>2, DelayBounds, RetryAssumption DEF RetryInv
<1>6. CASE path \in aborted
  <2>1. UNCHANGED <<retry, wait, limited, kind, aborted, heard, calls>> /\ retry = "waiting"
    BY <1>6 DEF Iterate
  <2>2. BaseType'
    BY <1>1, <1>2, <1>4, <2>1 DEF RetryInv, BaseType
  <2>3. AttemptsInv'
    BY <1>1, <2>1 DEF RetryInv, AttemptsInv, BaseType, BothPaths
  <2>4. AbortInv' /\ LimitInv' /\ WaitFits'
    BY <1>2, <2>1 DEF RetryInv, AbortInv, LimitInv, WaitFits
  <2>5. QED BY <2>2, <2>3, <2>4 DEF RetryInv
<1>7. CASE path \notin aborted
  <2>1. /\ UNCHANGED <<kind, aborted, heard, calls>>
        /\ retry = "waiting" /\ retry' = "calling"
        /\ wait' = IF path \in limited THEN RateLimitWait ELSE wait + Delay(path)
        /\ limited' = limited \ {path}
    BY <1>7 DEF Iterate, Slept
  <2>2. BaseType'
    BY <1>1, <1>2, <1>4, <1>5, <2>1 DEF RetryInv, BaseType
  <2>3. AttemptsInv'
    BY <1>1, <2>1 DEF RetryInv, AttemptsInv, BaseType, BothPaths
  <2>4. AbortInv'
    BY <1>2, <1>3, <1>7, <2>1 DEF RetryInv, AbortInv
  <2>5. LimitInv'
    BY <1>2, <1>3, <2>1 DEF RetryInv, LimitInv
  <2>6. WaitFits'
    <3>1. Called' = PathOf(attempt' - 1)
      BY <1>1, <1>3 DEF PathOf, Called
    <3>2. heard'[path] = heard[path]
      BY <2>1
    <3>3. CASE path \in limited
      BY <1>2, <1>3, <1>5, <2>1, <3>2, <3>3 DEF RetryInv, LimitInv, WaitFits, Called
    <3>4. CASE path \notin limited
      <4>1. heard[path] = "limited" => kind = "single" /\ path = "first"
        BY <1>2, <2>1, <3>4 DEF RetryInv, LimitInv, BaseType, Paths
      <4>2. kind = "single" => path = "first"
        BY <1>2 DEF Paths
      <4>3. wait = IF heard[path] = "limited" THEN RateLimitWait ELSE 0
        BY <2>1, <4>1, <4>2 DEF RetryInv, LimitInv
      <4>4. wait' = wait + Delay(path)
        BY <2>1, <3>4
      <4>5. QED BY <1>3, <1>5, <3>2, <4>3, <4>4 DEF WaitFits, Called
    <3>5. QED BY <3>3, <3>4
  <2>7. QED BY <2>2, <2>3, <2>4, <2>5, <2>6 DEF RetryInv
<1>8. QED BY <1>6, <1>7

-----------------------------------------------------------------------------
(* The answers                                                             *)

\* An answer of any kind is one call, and does not touch the other path.
LEMMA HeardKept ==
  ASSUME RetryInv, NEW answer \in AnswersOf, Heard(Called, answer), retry' # "calling"
  PROVE  /\ heard' \in [BothPaths -> AnswersOf \cup {"none"}]
         /\ calls' \in [BothPaths -> Nat]
         /\ AttemptsInv'
         /\ Called \in Paths \ aborted /\ Paths \subseteq BothPaths /\ Paths' = Paths
         /\ heard'[Called] = answer /\ \A p \in Paths \ {Called} : heard'[p] = heard[p]
<1>1. Called \in Paths \ aborted /\ Paths \subseteq BothPaths /\ Paths' = Paths
  BY DEF RetryInv, AbortInv, Heard, Paths, BothPaths
<1>2. Called \in BothPaths
  BY <1>1
<1>3. /\ retry = "calling" /\ UNCHANGED <<kind, attempt, backoff>>
      /\ heard' = [heard EXCEPT ![Called] = answer]
      /\ calls' = [calls EXCEPT ![Called] = @ + 1]
  BY DEF Heard
<1>4. /\ heard' \in [BothPaths -> AnswersOf \cup {"none"}]
      /\ heard'[Called] = answer /\ \A p \in Paths \ {Called} : heard'[p] = heard[p]
  BY <1>1, <1>2, <1>3 DEF RetryInv, BaseType
<1>5. calls' \in [BothPaths -> Nat] /\ AttemptsInv'
  <2>1. calls \in [BothPaths -> Nat] /\ attempt \in Nat
    BY RetryAssumption DEF RetryInv, BaseType
  <2>2. calls["first"] + calls["second"] + 1 <= attempt
    BY <1>3 DEF RetryInv, AttemptsInv
  <2>3. CASE Called = "first"
    BY <1>3, <2>1, <2>2, <2>3 DEF AttemptsInv, BothPaths
  <2>4. CASE Called = "second"
    BY <1>3, <2>1, <2>2, <2>4 DEF AttemptsInv, BothPaths
  <2>5. QED BY <1>2, <2>3, <2>4 DEF BothPaths
<1>6. QED BY <1>1, <1>4, <1>5

\* Whatever a closure answers, the invariant is kept.
LEMMA AnswerKept ==
  ASSUME RetryInv, Succeeds \/ Aborts \/ RateLimited \/ Fails PROVE RetryInv'
<1>1. PICK answer \in AnswersOf :
        /\ Heard(Called, answer)
        /\ aborted' = IF answer = "aborted" THEN aborted \cup {Called} ELSE aborted
        /\ limited' = IF answer = "limited" /\ kind = "pair" THEN limited \cup {Called} ELSE limited
        /\ retry' = IF answer = "ok" THEN "ok" ELSE IF aborted' = Paths THEN "aborted" ELSE "waiting"
        /\ answer # "ok" => wait' = IF answer = "limited" /\ kind = "single" THEN RateLimitWait ELSE 0
        /\ answer = "ok" => wait' = wait
  <2>1. CASE Succeeds
    BY <2>1 DEF Succeeds, Called, AnswersOf
  <2>2. CASE Aborts
    BY <2>2 DEF Aborts, Called, AnswersOf
  <2>3. aborted # Paths
    BY DEF Succeeds, Aborts, RateLimited, Fails, Heard, RetryInv, AbortInv
  <2>4. CASE RateLimited
    BY <2>3, <2>4 DEF RateLimited, Called, AnswersOf, RetryInv, BaseType
  <2>5. CASE Fails
    BY <2>3, <2>5 DEF Fails, Called, AnswersOf
  <2>6. QED BY <2>1, <2>2, <2>4, <2>5
<1>2. retry = "calling" /\ retry' # "calling" /\ UNCHANGED <<kind, attempt, backoff>>
  BY <1>1 DEF Heard
<1>3. /\ heard' \in [BothPaths -> AnswersOf \cup {"none"}]
      /\ calls' \in [BothPaths -> Nat]
      /\ AttemptsInv'
      /\ Called \in Paths \ aborted /\ Paths \subseteq BothPaths /\ Paths' = Paths
      /\ heard'[Called] = answer /\ \A p \in Paths \ {Called} : heard'[p] = heard[p]
  BY <1>1, <1>2, HeardKept
<1>4. BaseType'
  BY <1>1, <1>2, <1>3, RetryAssumption DEF RetryInv, BaseType, Results
<1>5. AbortInv'
  <2>1. \A p \in Paths : p \in aborted' <=> heard'[p] = "aborted"
    BY <1>1, <1>3 DEF RetryInv, AbortInv
  <2>2. retry' = "aborted" <=> aborted' = Paths
    BY <1>1, <1>3 DEF RetryInv, AbortInv
  <2>3. QED BY <1>2, <1>3, <2>1, <2>2 DEF AbortInv
<1>6. LimitInv'
  <2>1. Called' = Called
    BY <1>2 DEF Called, PathOf
  <2>2. \A p \in Paths : p \in limited' <=> kind = "pair" /\ heard'[p] = "limited"
    BY <1>1, <1>2, <1>3 DEF RetryInv, LimitInv
  <2>3. retry' = "waiting" =>
          wait' = IF kind = "single" /\ heard'["first"] = "limited" THEN RateLimitWait ELSE 0
    <3>1. kind = "single" => Called = "first"
      BY <1>3 DEF Paths
    <3>2. QED BY <1>1, <1>3, <3>1
  <2>4. QED BY <1>2, <1>3, <2>2, <2>3 DEF LimitInv
<1>7. WaitFits'
  BY <1>2 DEF WaitFits
<1>8. QED BY <1>3, <1>4, <1>5, <1>6, <1>7 DEF RetryInv

\* Both kinds of steps, turns and answers, keep it.
LEMMA RetryNextInv == RetryInv /\ [RetryNext]_retryVars => RetryInv'
<1> SUFFICES ASSUME RetryInv, [RetryNext]_retryVars PROVE RetryInv'
  OBVIOUS
<1>1. CASE GiveUp
  <2>1. Paths' = Paths /\ Called' = Called
    BY <1>1 DEF GiveUp, Paths, Called, PathOf
  <2>2. BaseType'
    BY <1>1, <2>1 DEF GiveUp, RetryInv, BaseType, Results
  <2>3. AttemptsInv' /\ AbortInv' /\ LimitInv' /\ WaitFits'
    BY <1>1, <2>1 DEF GiveUp, RetryInv, AttemptsInv, AbortInv, LimitInv, WaitFits
  <2>4. QED BY <2>2, <2>3 DEF RetryInv
<1>2. CASE UNCHANGED retryVars
  <2>1. Paths' = Paths /\ Called' = Called
    BY <1>2 DEF retryVars, Paths, Called, PathOf
  <2>2. BaseType'
    BY <1>2, <2>1 DEF retryVars, RetryInv, BaseType
  <2>3. AttemptsInv' /\ AbortInv' /\ LimitInv'
    BY <1>2, <2>1 DEF retryVars, RetryInv, AttemptsInv, AbortInv, LimitInv
  <2>4. WaitFits'
    BY <1>2, <2>1 DEF retryVars, RetryInv, WaitFits, Called
  <2>5. QED BY <2>2, <2>3, <2>4 DEF RetryInv
<1>3. QED BY <1>1, <1>2, IterateKept, AnswerKept DEF RetryNext

\* So it holds between any two awaits of the retry.
LEMMA RetryAlways == RetrySpec => []RetryInv
BY RetryInitInv, RetryNextInv, PTL DEF RetrySpec

(* Every variable keeps its type; the delays of both iterators saturate    *)
(* (backoff_pair_iterator.rs) and no path is called more often than there  *)
(* are attempts.                                                           *)
THEOREM RetryTypeCorrect == RetrySpec => []RetryTypeOK
<1>1. RetryInv => RetryTypeOK
  <2> SUFFICES ASSUME RetryInv PROVE RetryTypeOK
    OBVIOUS
  <2>1. calls \in [BothPaths -> Nat] /\ attempt \in 0..MaxAttempts /\ MaxAttempts \in Nat
    BY RetryAssumption DEF RetryInv, BaseType
  <2>2. calls["first"] + calls["second"] <= attempt
    BY <2>1 DEF RetryInv, AttemptsInv, BothPaths
  <2>3. \A p \in BothPaths : calls[p] \in 0..MaxAttempts
    BY <2>1, <2>2 DEF BothPaths
  <2>4. calls \in [BothPaths -> 0..MaxAttempts]
    BY <2>1, <2>3
  <2>5. QED BY <2>4 DEF RetryInv, BaseType, RetryTypeOK, BothPaths
<1>2. QED BY <1>1, RetryAlways, PTL

(* A path that answered with a rate limit is called again after the rate   *)
(* limit's wait, any other after at most the maximal delay (retry_fn.rs,   *)
(* retry_pair_fn.rs).                                                      *)
THEOREM WaitsFit == RetrySpec => []WaitFits
<1>1. RetryInv => WaitFits
  BY DEF RetryInv
<1>2. QED BY <1>1, RetryAlways, PTL

(* Aborted is returned exactly when the last answer of every path was not  *)
(* recoverable (retry_fn.rs, retry_pair_fn.rs).                            *)
THEOREM AbortsTogether == RetrySpec => []AbortedIffAllAborted
<1>1. RetryInv => AbortedIffAllAborted
  BY DEF RetryInv, BaseType, AbortInv, AbortedIffAllAborted
<1>2. QED BY <1>1, RetryAlways, PTL

\* The turns a path had among the first n attempts.
Turns(n, path) == Cardinality({m \in 0..(n - 1) : PathOf(m) = path})

\* A path that did not abort was called on each of its turns.
TurnsInv ==
  /\ \A p \in Paths \ aborted :
       Turns(attempt, p) = calls[p] + (IF retry = "calling" /\ p = Called THEN 1 ELSE 0)
  /\ retry = "max_attempts" => attempt = MaxAttempts

\* One more turn of the iterator is one more of the path it belongs to.
LEMMA NextTurn ==
  ASSUME NEW n \in Nat, NEW path
  PROVE  /\ Turns(n, path) \in Nat
         /\ Turns(n + 1, path) = Turns(n, path) + (IF path = PathOf(n) THEN 1 ELSE 0)
<1> DEFINE past == {m \in 0..(n - 1) : PathOf(m) = path}
           next == {m \in 0..n : PathOf(m) = path}
<1>1. IsFiniteSet(past)
  <2>1. IsFiniteSet(0..(n - 1))
    BY FS_Interval
  <2>. QED BY <2>1, FS_Subset
<1>2. Turns(n, path) = Cardinality(past) /\ Turns(n + 1, path) = Cardinality(next)
  BY DEF Turns
<1>3. Cardinality(past) \in Nat
  BY <1>1, FS_CardinalityType
<1>4. CASE path = PathOf(n)
  <2>1. next = past \cup {n} /\ n \notin past
    BY <1>4
  <2> HIDE DEF past, next
  <2>2. Cardinality(next) = Cardinality(past) + 1
    BY <1>1, <2>1, FS_AddElement
  <2>. QED BY <1>2, <1>3, <1>4, <2>2
<1>5. CASE path # PathOf(n)
  <2>1. next = past
    BY <1>5
  <2> HIDE DEF past, next
  <2>. QED BY <1>2, <1>3, <1>5, <2>1
<1>. QED BY <1>4, <1>5

\* Before the first turn nothing was called.
LEMMA TurnsInit == RetryInit => TurnsInv
<1> SUFFICES ASSUME RetryInit PROVE TurnsInv
  OBVIOUS
<1>1. ASSUME NEW p \in Paths PROVE Turns(0, p) = 0 /\ calls[p] = 0
  <2>1. {m \in 0..(0 - 1) : PathOf(m) = p} = {}
    OBVIOUS
  <2>2. calls[p] = 0
    BY DEF RetryInit, Paths
  <2>. QED BY <2>1, <2>2, FS_EmptySet DEF Turns
<1>. QED BY <1>1 DEF RetryInit, TurnsInv

\* Every turn and every answer keeps the calls equal to the turns.
LEMMA TurnsNext == RetryInv /\ TurnsInv /\ [RetryNext]_retryVars => TurnsInv'
<1> SUFFICES ASSUME RetryInv, TurnsInv, [RetryNext]_retryVars PROVE TurnsInv'
  OBVIOUS
<1>0. /\ attempt \in Nat /\ Paths \subseteq BothPaths
      /\ \A p \in Paths : calls[p] \in Nat
  BY RetryAssumption DEF RetryInv, BaseType, Paths, BothPaths
<1>1. CASE Iterate
  <2> DEFINE path == PathOf(attempt)
  <2>1. /\ attempt' = attempt + 1 /\ UNCHANGED <<kind, aborted, calls>> /\ Paths' = Paths
        /\ retry = "waiting"
        /\ retry' = IF path \in aborted THEN "waiting" ELSE "calling"
    BY <1>1 DEF Iterate, Paths
  <2>2. Called' = path
    BY <1>0, <2>1 DEF Called, PathOf
  <2>3. ASSUME NEW p \in Paths \ aborted
        PROVE  Turns(attempt + 1, p) = calls[p] + (IF p = path THEN 1 ELSE 0)
    BY <1>0, <2>1, NextTurn DEF TurnsInv
  <2>4. ASSUME NEW p \in Paths \ aborted
        PROVE  Turns(attempt, p)' = calls[p] + (IF retry' = "calling" /\ p = path THEN 1 ELSE 0)
    <3>1. Turns(attempt, p)' = Turns(attempt + 1, p)
      BY <2>1 DEF Turns, PathOf
    <3>2. p = path => retry' = "calling"
      BY <2>1
    <3>. QED BY <2>3, <3>1, <3>2
  <2>. QED BY <2>1, <2>2, <2>4 DEF TurnsInv
<1>2. CASE Succeeds \/ Aborts \/ RateLimited \/ Fails
  <2>1. PICK answer \in AnswersOf :
          /\ Heard(Called, answer) /\ retry' \notin {"calling", "max_attempts"}
          /\ aborted \subseteq aborted'
    <3>1. CASE Succeeds
      BY <3>1 DEF Succeeds, Called, AnswersOf
    <3>2. CASE Aborts
      BY <3>2 DEF Aborts, Called, AnswersOf
    <3>3. CASE RateLimited
      BY <3>3 DEF RateLimited, Called, AnswersOf
    <3>4. CASE Fails
      BY <3>4 DEF Fails, Called, AnswersOf
    <3>. QED BY <1>2, <3>1, <3>2, <3>3, <3>4
  <2>2. /\ retry = "calling" /\ UNCHANGED <<kind, attempt>>
        /\ calls' = [calls EXCEPT ![Called] = @ + 1] /\ Paths' = Paths
    BY <2>1 DEF Heard, Paths
  <2>3. ASSUME NEW p \in Paths
        PROVE  calls'[p] = calls[p] + (IF p = Called THEN 1 ELSE 0)
    BY <1>0, <2>2 DEF RetryInv, BaseType
  <2>4. ASSUME NEW p \in Paths \ aborted PROVE Turns(attempt, p)' = calls'[p]
    <3>1. Turns(attempt, p)' = Turns(attempt, p)
      BY <2>2 DEF Turns, PathOf
    <3>. QED BY <2>2, <2>3, <3>1 DEF TurnsInv
  <2>5. \A p \in Paths : calls'[p] + 0 = calls'[p]
    BY <1>0, <2>3
  <2>. QED BY <2>1, <2>2, <2>4, <2>5 DEF TurnsInv
<1>3. CASE GiveUp
  <2>1. /\ UNCHANGED <<kind, attempt, aborted, calls>> /\ Paths' = Paths
        /\ retry = "waiting" /\ retry' = "max_attempts" /\ attempt = MaxAttempts
    BY <1>3 DEF GiveUp, Paths
  <2>2. ASSUME NEW p PROVE Turns(attempt, p)' = Turns(attempt, p)
    BY <2>1 DEF Turns, PathOf
  <2>. QED BY <2>1, <2>2 DEF TurnsInv
<1>4. CASE UNCHANGED retryVars
  <2>1. Paths' = Paths /\ Called' = Called /\ UNCHANGED <<attempt, aborted, calls, retry>>
    BY <1>4 DEF retryVars, Paths, Called, PathOf
  <2>2. ASSUME NEW p PROVE Turns(attempt, p)' = Turns(attempt, p)
    BY <1>4 DEF retryVars, Turns, PathOf
  <2>. QED BY <2>1, <2>2 DEF TurnsInv
<1>. QED BY <1>1, <1>2, <1>3, <1>4 DEF RetryNext

(* Giving up means that every path that did not abort was called on each   *)
(* of its turns (retry_pair_fn.rs: an aborted path still takes its turn,   *)
(* and the other one does not get it).                                     *)
THEOREM TurnsTaken == RetrySpec => []EachPathGetsItsTurns
<1>1. RetryInv /\ TurnsInv => EachPathGetsItsTurns
  <2> SUFFICES ASSUME RetryInv, TurnsInv, retry = "max_attempts",
                      NEW p \in Paths, heard[p] # "aborted"
               PROVE  calls[p] = Cardinality({n \in 0..(MaxAttempts - 1) : PathOf(n) = p})
    BY DEF EachPathGetsItsTurns
  <2>1. p \in Paths \ aborted /\ calls[p] \in Nat
    BY DEF RetryInv, BaseType, AbortInv, Paths, BothPaths
  <2>2. Turns(MaxAttempts, p) = calls[p]
    BY <2>1 DEF TurnsInv
  <2>. QED BY <2>2 DEF Turns
<1>. QED BY <1>1, RetryInitInv, RetryNextInv, TurnsInit, TurnsNext, PTL DEF RetrySpec

-----------------------------------------------------------------------------
(* API calls                                                               *)

Kinds == {"known", "unknown"}
Replies ==
  [status : {"none", "success", "error"},
   body : {"none", "page", "accepted", "refused", "ok", "error_response", "garbage"},
   page : Seq(Kinds)]

CallsType ==
  /\ tasks \in Seq(Kinds) /\ published \in 0..Len(tasks)
  /\ event \in {"queued", "acked", "naked"}
  /\ taken \in {"no", "accepted", "refused"}
  /\ request \in {"none", "tasks", "event", "health"}
  /\ reply \in Replies
  /\ callCount \in Nat

\* The page under way are the tasks after those published, which new tasks
\* do not move.
PageInv ==
  request = "tasks" =>
    /\ published + Len(reply.page) <= Len(tasks)
    /\ \A i \in 1..Len(reply.page) : reply.page[i] = tasks[published + i]

\* A readable answer to an event comes from the API, which looked at it.
TakenInv ==
  request = "event" /\ reply.status = "success" /\ reply.body # "garbage" => taken # "no"

ReplyInv ==
  /\ reply.status = "none" => reply = NoReply
  /\ request = "none" => reply = NoReply

CallsInv ==
  CallsType /\ PageInv /\ TakenInv /\ ReplyInv /\ NothingPassesUnknown /\ AckedWasServed

\* The absence of an answer is stored as a reply with an empty page.
LEMMA NoReplyType == NoReply \in Replies /\ Len(NoReply.page) = 0
BY DEF NoReply, Replies

\* Every answer but a page of tasks has an empty page.
LEMMA ReplyType ==
  ASSUME NEW status \in {"success", "error"},
         NEW body \in {"accepted", "refused", "ok", "page", "error_response", "garbage"}
  PROVE  /\ Reply(status, body) \in Replies /\ Len(Reply(status, body).page) = 0
         /\ Reply(status, body).status = status /\ Reply(status, body).body = body
BY DEF Reply, Replies

\* What a request after the published tasks returns.
LEMMA PageIsNext ==
  ASSUME CallsType
  PROVE  /\ PageAt(published) \in Seq(Kinds)
         /\ published + Len(PageAt(published)) <= Len(tasks)
         /\ \A i \in 1..Len(PageAt(published)) : PageAt(published)[i] = tasks[published + i]
<1> DEFINE end == Minimum(published + Limit, Len(tasks))
<1>1. /\ published \in Nat /\ Len(tasks) \in Nat /\ end \in Nat
      /\ published <= end /\ end <= Len(tasks)
  BY CallsAssumption DEF CallsType, Minimum
<1>2. PageAt(published) = SubSeq(tasks, published + 1, end)
  BY DEF PageAt
<1>3. /\ PageAt(published) \in Seq(Kinds)
      /\ Len(PageAt(published)) = end - published
      /\ \A i \in 1..Len(PageAt(published)) : PageAt(published)[i] = tasks[published + i]
  <2>1. tasks \in Seq(Kinds) /\ published + 1 \in 1..(Len(tasks) + 1) /\ end \in published..Len(tasks)
    BY <1>1 DEF CallsType
  <2>2. CASE end = published
    BY <1>1, <1>2, <2>1, <2>2, SubSeqProperties
  <2>3. CASE end # published
    BY <1>1, <1>2, <2>1, <2>3, SubSeqProperties
  <2>4. QED BY <2>2, <2>3
<1>4. QED BY <1>1, <1>3

\* A client before its first call satisfies the invariant.
LEMMA CallsInitInv == CallsInit => CallsInv
BY NoReplyType
DEF CallsInit, CallsInv, CallsType, Kinds, PageInv, TakenInv, ReplyInv, NoReply,
    NothingPassesUnknown, AckedWasServed

\* Each request, each kind of answer and each loss keeps it.
LEMMA CallsNextInv == CallsInv /\ [CallsNext]_callVars => CallsInv'
<1> SUFFICES ASSUME CallsInv, [CallsNext]_callVars PROVE CallsInv'
  OBVIOUS
<1> USE DEF CallsInv
<1>1. CASE CreateTask
  <2>1. PICK what \in Kinds : tasks' = Append(tasks, what)
    BY <1>1 DEF CreateTask, Kinds
  <2>2. /\ tasks' \in Seq(Kinds) /\ Len(tasks') = Len(tasks) + 1
        /\ \A i \in 1..Len(tasks) : tasks'[i] = tasks[i]
    BY <2>1 DEF CallsType
  <2>3. UNCHANGED <<published, event, taken, request, reply, health, callCount>>
    BY <1>1 DEF CreateTask
  <2>4. CallsType'
    BY <2>2, <2>3 DEF CallsType
  <2>5. PageInv'
    <3>1. SUFFICES ASSUME request = "tasks" PROVE PageInv'
      BY <2>3 DEF PageInv
    <3>2. published \in Nat /\ Len(tasks) \in Nat /\ Len(reply.page) \in Nat
      BY DEF CallsType, Replies
    <3>3. published + Len(reply.page) <= Len(tasks)
      BY <3>1 DEF PageInv
    <3>4. ASSUME NEW i \in 1..Len(reply.page) PROVE reply.page[i] = tasks'[published + i]
      <4>1. published + i \in 1..Len(tasks)
        BY <3>2, <3>3
      <4>2. reply.page[i] = tasks[published + i]
        BY <3>1 DEF PageInv
      <4>3. QED BY <2>2, <4>1, <4>2
    <3>5. published + Len(reply.page) <= Len(tasks')
      BY <2>2, <3>2, <3>3
    <3>6. QED BY <2>3, <3>4, <3>5 DEF PageInv
  <2>6. NothingPassesUnknown'
    BY <2>2, <2>3 DEF NothingPassesUnknown, CallsType
  <2>7. QED BY <2>3, <2>4, <2>5, <2>6 DEF TakenInv, ReplyInv, AckedWasServed, NoReply
<1>2. ASSUME NEW what \in {"tasks", "event", "health"}, SendRequest(what) PROVE CallsInv'
  <2>1. reply = NoReply /\ reply' = NoReply
    BY <1>2 DEF SendRequest, ReplyInv
  <2>2. CallsType'
    BY <1>2 DEF SendRequest, CallsType
  <2>3. PageInv'
    BY <1>2, <2>1, NoReplyType DEF SendRequest, CallsType, PageInv
  <2>4. TakenInv' /\ ReplyInv'
    BY <1>2, <2>1 DEF TakenInv, ReplyInv, NoReply, SendRequest
  <2>5. NothingPassesUnknown' /\ AckedWasServed'
    BY <1>2 DEF SendRequest, NothingPassesUnknown, AckedWasServed
  <2>6. QED BY <2>2, <2>3, <2>4, <2>5
<1>3. CASE Answer
  <2>1. /\ request # "none"
        /\ UNCHANGED <<tasks, published, event, request, health, callCount>> /\ Served
    BY <1>3 DEF Answer
  <2>2. /\ taken' \in {"no", "accepted", "refused"} /\ reply' \in Replies
        /\ taken # "no" => taken' # "no" /\ reply'.status = "success"
        /\ reply'.status = "success"
    <3>1. CASE request = "tasks"
      BY <2>1, <3>1, PageIsNext, ReplyType DEF Served, CallsType, Reply, Replies
    <3>2. CASE request = "event"
      BY <2>1, <3>2, ReplyType DEF Served, CallsType
    <3>3. CASE request = "health"
      BY <2>1, <3>3, ReplyType DEF Served, CallsType
    <3>4. QED BY <2>1, <3>1, <3>2, <3>3 DEF CallsType
  <2>3. CallsType'
    BY <2>1, <2>2 DEF CallsType
  <2>4. PageInv'
    <3>1. SUFFICES ASSUME request = "tasks" PROVE PageInv'
      BY <2>1 DEF PageInv
    <3>2. reply'.page = PageAt(published)
      BY <2>1, <3>1 DEF Served, Reply
    <3>3. QED BY <2>1, <3>2, PageIsNext DEF PageInv
  <2>5. TakenInv'
    BY <2>1, <2>2 DEF TakenInv, Served, CallsType
  <2>6. ReplyInv' /\ NothingPassesUnknown' /\ AckedWasServed'
    BY <2>1, <2>2 DEF ReplyInv, NothingPassesUnknown, AckedWasServed
  <2>7. QED BY <2>3, <2>4, <2>5, <2>6
<1>4. CASE AnswerError \/ AnswerGarbled
  <2>1. PICK status \in {"success", "error"}, body \in {"error_response", "garbage"} :
          reply' = Reply(status, body) /\ (status = "success" => body = "garbage")
    BY <1>4 DEF AnswerError, AnswerGarbled
  <2>2. UNCHANGED <<tasks, published, event, taken, request, health, callCount>> /\ request # "none"
    BY <1>4 DEF AnswerError, AnswerGarbled
  <2>3. /\ reply' \in Replies /\ Len(reply'.page) = 0
        /\ reply'.status = status /\ reply'.body = body
    BY <2>1, ReplyType
  <2>4. CallsType'
    BY <2>2, <2>3 DEF CallsType
  <2>5. PageInv'
    BY <2>2, <2>3 DEF PageInv, CallsType
  <2>6. TakenInv' /\ ReplyInv' /\ NothingPassesUnknown' /\ AckedWasServed'
    BY <2>1, <2>2, <2>3 DEF TakenInv, ReplyInv, NothingPassesUnknown, AckedWasServed
  <2>7. QED BY <2>4, <2>5, <2>6
<1>5. CASE TasksAnswered
  <2>1. Over /\ UNCHANGED <<tasks, event, taken, health, callCount>>
    BY <1>5 DEF TasksAnswered
  <2>2. published' \in 0..Len(tasks) /\ NothingPassesUnknown'
    <3>1. CASE Parsed = "value"
      <4>1. published' = published + Len(reply.page)
        BY <1>5, <3>1 DEF TasksAnswered
      <4>2. \A i \in 1..Len(reply.page) : reply.page[i] = "known"
        <5>1. Decodes
          BY <3>1 DEF Parsed
        <5>2. DOMAIN reply.page = 1..Len(reply.page)
          BY DEF CallsType, Replies
        <5>3. QED BY <5>1, <5>2 DEF Decodes
      <4>3. \A i \in 1..Len(reply.page) : tasks[published + i] = "known"
        BY <1>5, <4>2 DEF PageInv, TasksAnswered
      <4>4. published \in Nat /\ Len(reply.page) \in Nat /\ Len(tasks) \in Nat
        BY DEF CallsType, Replies
      <4>5. ASSUME NEW i \in 1..published' PROVE tasks[i] = "known"
        <5>1. CASE i \in 1..published
          BY <5>1 DEF NothingPassesUnknown
        <5>2. CASE i \notin 1..published
          <6>1. i - published \in 1..Len(reply.page) /\ published + (i - published) = i
            BY <4>1, <4>4, <4>5, <5>2
          <6>2. QED BY <4>3, <6>1
        <5>3. QED BY <5>1, <5>2
      <4>6. QED BY <1>5, <2>1, <4>1, <4>4, <4>5 DEF NothingPassesUnknown, PageInv, TasksAnswered
    <3>2. CASE Parsed # "value"
      BY <1>5, <2>1, <3>2 DEF TasksAnswered, CallsType, NothingPassesUnknown
    <3>3. QED BY <3>1, <3>2
  <2>3. CallsType'
    BY <2>1, <2>2, NoReplyType DEF CallsType, Over
  <2>4. PageInv' /\ TakenInv' /\ ReplyInv' /\ AckedWasServed'
    BY <2>1 DEF PageInv, TakenInv, ReplyInv, AckedWasServed, Over
  <2>5. QED BY <2>2, <2>3, <2>4
<1>6. CASE EventAnswered
  <2>1. Over /\ UNCHANGED <<tasks, published, taken, health, callCount>>
    BY <1>6 DEF EventAnswered
  <2>2. event' \in {"acked", "naked"} /\ (event' = "acked" => Parsed = "value")
    BY <1>6 DEF EventAnswered
  <2>3. Parsed = "value" => reply.status = "success" /\ reply.body # "garbage"
    BY DEF Parsed, Decodes
  <2>4. AckedWasServed'
    BY <1>6, <2>1, <2>2, <2>3 DEF AckedWasServed, TakenInv, EventAnswered
  <2>5. CallsType'
    BY <2>1, <2>2, NoReplyType DEF CallsType, Over
  <2>6. PageInv' /\ TakenInv' /\ ReplyInv' /\ NothingPassesUnknown'
    BY <2>1 DEF PageInv, TakenInv, ReplyInv, NothingPassesUnknown, Over
  <2>7. QED BY <2>4, <2>5, <2>6
<1>7. CASE HealthAnswered \/ RequestLost
  <2>1. /\ Over /\ UNCHANGED <<tasks, published, taken, callCount>>
        /\ event' = event \/ event' = "naked"
    BY <1>7 DEF HealthAnswered, RequestLost
  <2>2. CallsType'
    BY <2>1, NoReplyType DEF CallsType, Over
  <2>3. PageInv' /\ TakenInv' /\ ReplyInv' /\ NothingPassesUnknown' /\ AckedWasServed'
    BY <2>1 DEF PageInv, TakenInv, ReplyInv, NothingPassesUnknown, AckedWasServed, Over
  <2>4. QED BY <2>2, <2>3
<1>8. CASE UNCHANGED callVars
  BY <1>8 DEF callVars, CallsType, PageInv, TakenInv, ReplyInv, NoReply,
              NothingPassesUnknown, AckedWasServed
<1>9. QED BY <1>1, <1>2, <1>3, <1>4, <1>5, <1>6, <1>7, <1>8 DEF CallsNext

\* So it holds before and after every call of the client.
LEMMA CallsAlways == CallsSpec => []CallsInv
BY CallsInitInv, CallsNextInv, PTL DEF CallsSpec

(* The subscriber never moves past a task it cannot decode, however many   *)
(* tasks the API creates between an answer and its use (GetChains in       *)
(* amplifier-subscriber/src/lib.rs, json in amplifier-api/src/client.rs).  *)
THEOREM UnknownStops == CallsSpec => []NothingPassesUnknown
<1>1. CallsInv => NothingPassesUnknown
  BY DEF CallsInv
<1>2. QED BY <1>1, CallsAlways, PTL

(* An acknowledged event was served by the API: no error status, foreign   *)
(* or unreadable answer and no lost one acknowledges it (process_queue_msg *)
(* in amplifier-ingester/src/lib.rs).                                      *)
THEOREM AckMeansServed == CallsSpec => []AckedWasServed
<1>1. CallsInv => AckedWasServed
  BY DEF CallsInv
<1>2. QED BY <1>1, CallsAlways, PTL

-----------------------------------------------------------------------------
(* The Amplifier component                                                 *)

\* The channel holds each event that waits in it, once.
ChannelInv ==
  /\ \A i, j \in 1..Len(commands) : commands[i] = commands[j] => i = j
  /\ \A i \in 1..Len(commands) : stage[commands[i]] = "queued"

\* Requests run only under a component that runs, and that under an engine;
\* while the component runs, a failed check still has room to be counted.
PartsInv ==
  /\ amplifier # "running" => Posting = {}
  /\ amplifier = "running" => current_failures <= MaxInvalid
  /\ engine = "down" => amplifier # "running" /\ other # "running"

ComponentInv == ComponentTypeOK /\ ChannelInv /\ PartsInv

\* The component as the engine spawns it satisfies the invariant.
LEMMA ComponentInitial == ComponentInit => ComponentInv
<1> SUFFICES ASSUME ComponentInit PROVE ComponentInv
  OBVIOUS
<1>1. ComponentTypeOK
  <2>1. ctrlc \in BOOLEAN
    BY DEF ComponentInit
  <2>2. /\ current_failures \in 0..MaxInvalid + 1 /\ changes \in 0..MaxChanges
        /\ amplifier = "running" /\ MaxInvalid > 0 => current_failures < MaxInvalid
    BY ComponentAssumption DEF ComponentInit
  <2>3. stage \in [Events -> EventStages] /\ commands \in Seq(Events)
    BY DEF ComponentInit, EventStages
  <2>. QED BY <2>1, <2>2, <2>3 DEF ComponentInit, ComponentTypeOK
<1>2. ChannelInv /\ PartsInv
  BY ComponentAssumption DEF ComponentInit, ChannelInv, PartsInv
<1>. QED BY <1>1, <1>2 DEF ComponentInv

\* Ending the requests touches no event that waits in the channel.
LEMMA AbortKept ==
  ASSUME ComponentInv, AbortPosts, UNCHANGED commands
  PROVE  /\ stage' \in [Events -> EventStages] /\ Posting' = {} /\ ChannelInv'
         /\ \A e \in Events : stage'[e] = "posting" => stage[e] = "posting"
<1>1. /\ stage' \in [Events -> EventStages]
      /\ \A e \in Events : stage'[e] = IF stage[e] = "posting" THEN "aborted" ELSE stage[e]
  BY DEF ComponentInv, ComponentTypeOK, AbortPosts, Posting, EventStages
<1>2. commands \in Seq(Events)
  BY DEF ComponentInv, ComponentTypeOK
<1>3. ChannelInv'
  BY <1>1, <1>2 DEF ComponentInv, ChannelInv
<1>. QED BY <1>1, <1>3 DEF Posting

\* A step of one event that leaves the channel as it is.
LEMMA EventKept ==
  ASSUME ComponentInv, NEW e \in Events, stage[e] = "posting",
         NEW to \in {"answered", "failed"}, stage' = [stage EXCEPT ![e] = to],
         UNCHANGED <<commands, current_failures, amplifier, other, engine>>
  PROVE  stage' \in [Events -> EventStages] /\ ChannelInv' /\ PartsInv'
<1>1. /\ stage' \in [Events -> EventStages]
      /\ \A d \in Events : stage'[d] = IF d = e THEN to ELSE stage[d]
  BY DEF ComponentInv, ComponentTypeOK, EventStages
<1>2. commands \in Seq(Events)
  BY DEF ComponentInv, ComponentTypeOK
<1>3. ChannelInv'
  BY <1>1, <1>2 DEF ComponentInv, ChannelInv
<1>4. PartsInv'
  BY <1>1 DEF ComponentInv, PartsInv, Posting
<1>. QED BY <1>1, <1>3, <1>4

\* The sender, the health check, their race and the engine keep it.
LEMMA ComponentStep == ComponentInv /\ [ComponentNext]_componentVars => ComponentInv'
<1> SUFFICES ASSUME ComponentInv, [ComponentNext]_componentVars PROVE ComponentInv'
  OBVIOUS
<1> USE DEF ComponentInv
<1>1. ASSUME NEW e \in Events, SendCommand(e) PROVE ComponentInv'
  <2>1. /\ stage' = [stage EXCEPT ![e] = "queued"] /\ stage[e] = "none" /\ amplifier = "running"
        /\ commands' = Append(commands, e) /\ engine = "up"
        /\ UNCHANGED <<api, client, check, current_failures, amplifier, other, ctrlc, engine, changes>>
    BY <1>1 DEF SendCommand
  <2>2. /\ stage' \in [Events -> EventStages]
        /\ \A d \in Events : stage'[d] = IF d = e THEN "queued" ELSE stage[d]
    BY <2>1 DEF ComponentTypeOK, EventStages
  <2>3. /\ commands' \in Seq(Events) /\ Len(commands') = Len(commands) + 1 /\ Len(commands) \in Nat
        /\ \A i \in 1..Len(commands) : commands'[i] = commands[i] /\ commands[i] \in Events
        /\ commands'[Len(commands) + 1] = e
    BY <2>1 DEF ComponentTypeOK
  <2>4. ComponentTypeOK'
    BY <2>1, <2>2, <2>3 DEF ComponentTypeOK
  <2>5. \A i \in 1..Len(commands') : i \in 1..Len(commands) \/ i = Len(commands) + 1
    BY <2>3
  <2>6. \A i \in 1..Len(commands) : commands[i] # e
    BY <2>1 DEF ChannelInv
  <2>7. ChannelInv'
    BY <2>2, <2>3, <2>5, <2>6 DEF ChannelInv
  <2>. QED BY <2>1, <2>4, <2>7 DEF PartsInv
<1>2. CASE SpawnPost
  <2> DEFINE e == Head(commands)
  <2>1. /\ stage' = [stage EXCEPT ![e] = "posting"] /\ amplifier = "running"
        /\ commands # <<>> /\ commands' = Tail(commands)
        /\ UNCHANGED <<api, client, check, current_failures, amplifier, other, ctrlc, engine, changes>>
    BY <1>2 DEF SpawnPost
  <2>2. /\ e \in Events /\ e = commands[1] /\ Len(commands) \in Nat \ {0}
        /\ commands' \in Seq(Events) /\ Len(commands') = Len(commands) - 1
        /\ \A i \in 1..Len(commands') : commands'[i] = commands[i + 1]
        /\ \A i \in 1..Len(commands) : commands[i] \in Events
    BY <2>1 DEF ComponentTypeOK
  <2>3. /\ stage' \in [Events -> EventStages]
        /\ \A d \in Events : stage'[d] = IF d = e THEN "posting" ELSE stage[d]
    BY <2>1, <2>2 DEF ComponentTypeOK, EventStages
  <2>4. ComponentTypeOK'
    BY <2>1, <2>2, <2>3 DEF ComponentTypeOK
  <2>5. \A i \in 1..Len(commands') : i + 1 \in 1..Len(commands) /\ i + 1 # 1
    BY <2>2
  <2>6. ASSUME NEW i \in 1..Len(commands') PROVE stage'[commands'[i]] = "queued"
    <3>1. commands[i + 1] # e /\ commands[i + 1] \in Events /\ stage[commands[i + 1]] = "queued"
      BY <2>2, <2>5 DEF ChannelInv
    <3>. QED BY <2>2, <2>3, <3>1
  <2>7. ASSUME NEW i \in 1..Len(commands'), NEW j \in 1..Len(commands'), commands'[i] = commands'[j]
        PROVE  i = j
    <3>1. i + 1 = j + 1
      BY <2>2, <2>5, <2>7 DEF ChannelInv
    <3>. QED BY <3>1
  <2>8. ChannelInv'
    BY <2>6, <2>7 DEF ChannelInv
  <2>. QED BY <2>1, <2>4, <2>8 DEF PartsInv
<1>3. ASSUME NEW e \in Events, PostAnswered(e) \/ PostFails(e) PROVE ComponentInv'
  <2>1. PICK to \in {"answered", "failed"} :
          /\ stage' = [stage EXCEPT ![e] = to] /\ stage[e] = "posting"
          /\ UNCHANGED <<api, client, commands, check, current_failures, amplifier, other, ctrlc,
                         engine, changes>>
    BY <1>3 DEF PostAnswered, PostFails, Posting
  <2>2. stage' \in [Events -> EventStages] /\ ChannelInv' /\ PartsInv'
    BY <2>1, EventKept
  <2>. QED BY <2>1, <2>2 DEF ComponentTypeOK
<1>4. CASE ChannelCloses
  <2>1. AbortPosts /\ UNCHANGED <<api, client, commands, check, current_failures, amplifier, other,
                                  ctrlc, engine, changes>>
    BY <1>4 DEF ChannelCloses
  <2>2. stage' \in [Events -> EventStages] /\ Posting' = {} /\ ChannelInv'
    BY <2>1, AbortKept
  <2>. QED BY <2>1, <2>2 DEF ComponentTypeOK, PartsInv
<1>5. CASE SenderEnds \/ CheckUnreachable
  <2>1. /\ AbortPosts /\ amplifier' = "failed"
        /\ UNCHANGED <<api, client, commands, check, current_failures, other, ctrlc, engine, changes>>
    BY <1>5 DEF SenderEnds, CheckUnreachable, AmplifierEnds
  <2>2. stage' \in [Events -> EventStages] /\ Posting' = {} /\ ChannelInv'
    BY <2>1, AbortKept
  <2>. QED BY <2>1, <2>2 DEF ComponentTypeOK, PartsInv
<1>6. CASE CheckInvalid
  <2>1. /\ current_failures' = current_failures + 1 /\ check' = "waiting" /\ amplifier = "running"
        /\ UNCHANGED <<api, client, commands, other, ctrlc, engine, changes>>
    BY <1>6 DEF CheckInvalid
  <2>2. current_failures \in Nat /\ MaxInvalid \in Nat
    BY ComponentAssumption DEF ComponentTypeOK
  <2>3. CASE TooMany(current_failures + 1)
    <3>1. AbortPosts /\ amplifier' = "failed"
      BY <1>6, <2>3 DEF CheckInvalid, AmplifierEnds
    <3>2. stage' \in [Events -> EventStages] /\ Posting' = {} /\ ChannelInv'
      BY <2>1, <3>1, AbortKept
    <3>3. current_failures' \in 0..MaxInvalid + 1
      <4>1. current_failures <= MaxInvalid
        BY <2>1 DEF PartsInv
      <4>. QED BY <2>1, <2>2, <4>1
    <3>. QED BY <2>1, <3>1, <3>2, <3>3 DEF ComponentTypeOK, PartsInv
  <2>4. CASE ~TooMany(current_failures + 1)
    <3>1. UNCHANGED <<amplifier, stage>>
      BY <1>6, <2>4 DEF CheckInvalid
    <3>2. current_failures' \in 0..MaxInvalid + 1 /\ current_failures' < MaxInvalid
      BY <2>1, <2>2, <2>4 DEF TooMany
    <3>3. ComponentTypeOK' /\ ChannelInv'
      BY <2>1, <3>1, <3>2 DEF ComponentTypeOK, ChannelInv
    <3>4. current_failures' <= MaxInvalid
      BY <2>2, <3>2
    <3>5. PartsInv'
      BY <2>1, <3>1, <3>4 DEF PartsInv, Posting
    <3>. QED BY <3>3, <3>5
  <2>. QED BY <2>3, <2>4
<1>7. CASE Shutdown
  <2>1. /\ AbortPosts /\ engine' = "down"
        /\ amplifier' \in {amplifier, "aborted"} /\ amplifier' # "running"
        /\ other' \in {other, "aborted"} /\ other' # "running"
        /\ UNCHANGED <<api, client, commands, check, current_failures, ctrlc, changes>>
    BY <1>7 DEF Shutdown
  <2>2. stage' \in [Events -> EventStages] /\ Posting' = {} /\ ChannelInv'
    BY <2>1, AbortKept
  <2>. QED BY <2>1, <2>2 DEF ComponentTypeOK, PartsInv
<1>8. CASE CheckOk
  <2>1. 0 \in 0..MaxInvalid + 1 /\ (MaxInvalid > 0 => 0 < MaxInvalid) /\ 0 <= MaxInvalid
    BY ComponentAssumption
  <2>. QED BY <1>8, <2>1 DEF CheckOk, ComponentTypeOK, ChannelInv, PartsInv, Posting
<1>9. CASE ApiChanges
  <2>1. changes' \in 0..MaxChanges
    BY <1>9, ComponentAssumption DEF ApiChanges, ComponentTypeOK
  <2>. QED BY <1>9, <2>1 DEF ApiChanges, ComponentTypeOK, ChannelInv, PartsInv, Posting
<1>10. CASE DropClients \/ SpawnCheck \/ CheckHangs \/ OtherEnds
  BY <1>10 DEF DropClients, SpawnCheck, CheckHangs, OtherEnds, ComponentTypeOK, ChannelInv, PartsInv, Posting
<1>11. CASE ReceiveCtrlC
  <2>1. ctrlc' \in BOOLEAN
    BY <1>11 DEF ReceiveCtrlC
  <2>. QED BY <1>11, <2>1 DEF ReceiveCtrlC, ComponentTypeOK, ChannelInv, PartsInv, Posting
<1>12. CASE UNCHANGED componentVars
  BY <1>12 DEF componentVars, ComponentTypeOK, ChannelInv, PartsInv, Posting
<1>. QED
  BY <1>1, <1>2, <1>3, <1>4, <1>5, <1>6, <1>7, <1>8, <1>9, <1>10, <1>11, <1>12 DEF ComponentNext

\* So it holds for the whole life of the process.
LEMMA ComponentAlways == ComponentSpec => []ComponentInv
BY ComponentInitial, ComponentStep, PTL DEF ComponentSpec

(* Every variable keeps its type, and while the component runs its failed  *)
(* health checks are fewer than the limit (healthcheck.rs).                *)
THEOREM ComponentTypeCorrect == ComponentSpec => []ComponentTypeOK
<1>1. ComponentInv => ComponentTypeOK
  BY DEF ComponentInv
<1>. QED BY <1>1, ComponentAlways, PTL

(* No request outlives the component or the engine: whichever part ends    *)
(* the race, and whoever shuts the engine down, the join set with the      *)
(* requests is dropped (component.rs, relayer-engine).                     *)
THEOREM RequestsEnd == ComponentSpec => []NoRequestOutlives
<1>1. ComponentInv => NoRequestOutlives
  BY DEF ComponentInv, PartsInv, NoRequestOutlives
<1>. QED BY <1>1, ComponentAlways, PTL

(* An event is requested at most once (to_amplifier.rs): the channel holds *)
(* each event that waits in it once, and nothing puts one back.            *)
THEOREM SentOnce == ComponentSpec => PostedOnce
<1>1. ComponentInv /\ [ComponentNext]_componentVars =>
        [\A e \in Events : stage'[e] = "posting" => stage[e] \in {"queued", "posting"}]_componentVars
  <2> SUFFICES ASSUME ComponentInv, [ComponentNext]_componentVars, NEW e \in Events, stage'[e] = "posting"
               PROVE  stage[e] \in {"queued", "posting"}
    OBVIOUS
  <2> USE DEF ComponentInv
  <2>0. stage \in [Events -> EventStages]
    BY DEF ComponentTypeOK
  <2>1. ASSUME NEW d \in Events, SendCommand(d) \/ PostAnswered(d) \/ PostFails(d)
        PROVE  stage[e] = "posting"
    BY <2>0, <2>1 DEF SendCommand, PostAnswered, PostFails
  <2>2. CASE SpawnPost
    <3>1. stage' = [stage EXCEPT ![Head(commands)] = "posting"] /\ commands # <<>>
      BY <2>2 DEF SpawnPost
    <3>2. Head(commands) = commands[1] /\ 1 \in 1..Len(commands)
      BY <3>1 DEF ComponentTypeOK
    <3>3. stage[Head(commands)] = "queued"
      BY <3>2 DEF ChannelInv
    <3>. QED BY <2>0, <3>1, <3>3
  <2>3. CASE AbortPosts
    BY <2>3 DEF AbortPosts
  <2>4. CASE stage' = stage
    BY <2>4
  <2>5. CASE ChannelCloses \/ SenderEnds \/ CheckUnreachable \/ CheckInvalid \/ Shutdown
    BY <2>3, <2>4, <2>5
    DEF ChannelCloses, SenderEnds, CheckUnreachable, CheckInvalid, Shutdown, AmplifierEnds
  <2>6. CASE DropClients \/ ApiChanges \/ SpawnCheck \/ CheckHangs \/ CheckOk \/ OtherEnds \/ ReceiveCtrlC \/ UNCHANGED componentVars
    BY <2>4, <2>6 DEF DropClients, ApiChanges, SpawnCheck, CheckHangs, CheckOk, OtherEnds, ReceiveCtrlC, componentVars
  <2>. QED BY <2>1, <2>2, <2>5, <2>6 DEF ComponentNext
<1>. QED BY <1>1, ComponentAlways, PTL DEF ComponentSpec, PostedOnce

-----------------------------------------------------------------------------
(* Induction over numbers                                                  *)

\* A set of numbers that is not empty has a least one: what every induction
\* below rests on.
LEMMA LeastNumber ==
  ASSUME NEW set, set \subseteq Nat, set # {}
  PROVE  \E m \in set : \A k \in set : ~(k < m)
<1>1. \E m \in set : \A k \in set : <<k, m>> \notin OpToRel(<, Nat)
  BY NatLessThanWellFounded, WFMin
<1>2. \A k, m \in Nat : k < m => <<k, m>> \in OpToRel(<, Nat)
  BY DEF OpToRel
<1>. QED BY <1>1, <1>2

\* Induction from 0 up to n, over the set of the numbers that have a property.
LEMMA InductionUp ==
  ASSUME NEW set, NEW n \in Nat, 0 \in set, \A i \in 1..n : i - 1 \in set => i \in set
  PROVE  0..n \subseteq set
<1> DEFINE missing == {i \in 0..n : i \notin set}
<1>1. SUFFICES ASSUME missing # {} PROVE FALSE
  OBVIOUS
<1>2. PICK m \in missing : \A k \in missing : ~(k < m)
  <2>1. missing \subseteq Nat
    OBVIOUS
  <2> HIDE DEF missing
  <2>. QED BY <1>1, <2>1, LeastNumber
<1>3. m \in 1..n /\ m - 1 \in 0..n /\ m - 1 < m
  BY <1>2
<1>. QED BY <1>2, <1>3

\* Induction from n down to 0.
LEMMA InductionDown ==
  ASSUME NEW set, NEW n \in Nat, n \in set, \A i \in 1..n : i \in set => i - 1 \in set
  PROVE  0..n \subseteq set
<1> DEFINE missing == {i \in 0..n : n - i \notin set}
<1>1. SUFFICES ASSUME missing # {} PROVE FALSE
  <2>1. \A i \in 0..n : n - i \in 0..n /\ n - (n - i) = i
    OBVIOUS
  <2>. QED BY <2>1
<1>2. PICK m \in missing : \A k \in missing : ~(k < m)
  <2>1. missing \subseteq Nat
    OBVIOUS
  <2> HIDE DEF missing
  <2>. QED BY <1>1, <2>1, LeastNumber
<1>3. m \in 1..n /\ m - 1 \in 0..n /\ m - 1 < m /\ n - (m - 1) \in 1..n /\ (n - (m - 1)) - 1 = n - m
  BY <1>2
<1>. QED BY <1>2, <1>3

\* f is the recursive function with this first value and these steps.
Recurs(f, n, base, step) == f[0] = base /\ \A i \in 1..n : f[i] = step[i][f[i - 1]]

\* A function that is defined by recursion up to n exists.
LEMMA Recursion ==
  ASSUME NEW n \in Nat, NEW S, NEW base \in S, NEW step \in [1..n -> [S -> S]]
  PROVE  \E f \in [0..n -> S] : Recurs(f, n, base, step)
<1> DEFINE set == {m \in 0..n : \E f \in [0..m -> S] : Recurs(f, m, base, step)}
<1>1. 0 \in set
  <2> DEFINE f == [i \in 0..0 |-> base]
  <2>1. f \in [0..0 -> S] /\ Recurs(f, 0, base, step)
    BY DEF Recurs
  <2>. QED BY <2>1
<1>2. ASSUME NEW m \in 1..n, m - 1 \in set PROVE m \in set
  <2>1. PICK f \in [0..(m - 1) -> S] : Recurs(f, m - 1, base, step)
    BY <1>2
  <2> DEFINE g == [i \in 0..m |-> IF i = m THEN step[m][f[m - 1]] ELSE f[i]]
  <2>2. m - 1 \in 0..(m - 1) /\ step[m] \in [S -> S]
    OBVIOUS
  <2>3. f[m - 1] \in S /\ step[m][f[m - 1]] \in S
    BY <2>2
  <2>4. \A i \in 0..m : i # m => i \in 0..(m - 1)
    OBVIOUS
  <2>5. g \in [0..m -> S]
    BY <2>3, <2>4
  <2>6. \A i \in 0..(m - 1) : g[i] = f[i]
    OBVIOUS
  <2>7. g[m] = step[m][g[m - 1]]
    BY <2>2, <2>6
  <2>8. ASSUME NEW i \in 1..m, i # m PROVE g[i] = step[i][g[i - 1]]
    <3>1. i \in 1..(m - 1) /\ i \in 0..(m - 1) /\ i - 1 \in 0..(m - 1)
      BY <2>8
    <3>. QED BY <2>1, <2>6, <3>1 DEF Recurs
  <2>9. 0 \in 0..(m - 1)
    OBVIOUS
  <2> HIDE DEF g
  <2>10. Recurs(g, m, base, step)
    BY <2>1, <2>6, <2>7, <2>8, <2>9 DEF Recurs
  <2>. QED BY <2>5, <2>10
<1>3. n \in set
  <2> HIDE DEF set
  <2>1. \A m \in 1..n : m - 1 \in set => m \in set
    BY <1>2
  <2>2. 0..n \subseteq set
    BY <1>1, <2>1, InductionUp
  <2>. QED BY <2>2
<1>. QED BY <1>3

-----------------------------------------------------------------------------
(* Messages: Borsh                                                         *)

\* A list of fields as the derived and the hand-written encodings take it: only
\* an optional object is a flag, and it stands before the fields it is for, as a
\* struct before its own fields, for these are read only once it was.
Layout(fields) ==
  /\ Len(fields) \in Nat /\ DOMAIN fields = 1..Len(fields)
  /\ \A i \in DOMAIN fields :
       /\ fields[i].need \in {"required", "optional"}
       /\ fields[i].kind = "object" => fields[i].need = "optional" /\ fields[i].at # "meta"
       /\ \A j \in DOMAIN fields : fields[i].kind = "object" /\ fields[j].at = "meta" => i < j

\* A message of these fields: a value for each that has to be there, one at most
\* for each, and none for a flag but its number.
IsMessage(fields, message) ==
  /\ WellFormed(fields, message)
  /\ \A e \in message : e[1] \in DOMAIN fields /\ e = <<e[1], e[2]>>
  /\ \A e \in message : fields[e[1]].kind = "object" => e[2] = e[1]
  /\ \A e, f \in message : e[1] = f[1] => e = f

\* The bytes that can be written of a message.
BytesOf(message) ==
  {"seconds", "nanoseconds", "text", "value", "option"} \X ({e[2] : e \in message} \cup {0, 1})

\* The entries of the fields before i.
Before(message, i) == {e \in message : e[1] < i}

\* The state of a decoder that has read the fields before i, and up to i.
Reading(message, i, rest) == [result |-> "ok", rest |-> rest, got |-> Before(message, i)]
ReadTo(message, i, rest) == [result |-> "ok", rest |-> rest, got |-> Before(message, i + 1)]

\* A message has one value of each field it has.
LEMMA TheValue ==
  ASSUME NEW fields, NEW message, IsMessage(fields, message), NEW i \in Numbers(message)
  PROVE  /\ <<i, ValueOf(message, i)>> \in message
         /\ \A e \in message : e[1] = i => e = <<i, ValueOf(message, i)>>
         /\ i \in DOMAIN fields
<1>1. PICK e \in message : e[1] = i
  BY DEF Numbers
<1> DEFINE c == CHOOSE entry \in message : entry[1] = i
<1>2. c \in message /\ c[1] = i
  BY <1>1
<1>3. ValueOf(message, i) = c[2]
  BY DEF ValueOf
<1> HIDE DEF c
<1>4. c = <<i, ValueOf(message, i)>>
  BY <1>2, <1>3 DEF IsMessage
<1>. QED BY <1>2, <1>4 DEF IsMessage

\* What is read before a field tells whether its object is there.
LEMMA ScopeKnown ==
  ASSUME NEW fields, Layout(fields), NEW message, IsMessage(fields, message), NEW i \in DOMAIN fields
  PROVE  InScope(fields, i, Before(message, i)) <=> InScope(fields, i, message)
<1>1. ASSUME NEW j \in Numbers(Before(message, i)) PROVE j \in Numbers(message)
  BY DEF Numbers, Before
<1>2. ASSUME fields[i].at = "meta", NEW j \in Numbers(message), fields[j].kind = "object"
      PROVE  j \in Numbers(Before(message, i))
  <2>1. PICK e \in message : e[1] = j
    BY DEF Numbers
  <2>2. j \in DOMAIN fields /\ j < i
    BY <1>2, <2>1 DEF Layout, IsMessage
  <2>. QED BY <2>1, <2>2 DEF Numbers, Before
<1>. QED BY <1>1, <1>2 DEF InScope

\* What is read before the next field: this field's entry more, if it is there.
LEMMA NextBefore ==
  ASSUME NEW fields, Layout(fields), NEW message, IsMessage(fields, message), NEW i \in DOMAIN fields
  PROVE  /\ i \notin Numbers(message) => Before(message, i + 1) = Before(message, i)
         /\ i \in Numbers(message) =>
              Before(message, i + 1) = Before(message, i) \cup {<<i, ValueOf(message, i)>>}
<1>1. \A e \in message : e[1] \in Nat /\ i \in Nat
  BY DEF IsMessage, Layout
<1>2. \A e \in message : e[1] < i + 1 <=> e[1] < i \/ e[1] = i
  BY <1>1
<1>3. CASE i \notin Numbers(message)
  BY <1>2, <1>3 DEF Before, Numbers
<1>4. CASE i \in Numbers(message)
  <2>1. \A e \in message : e[1] = i => e = <<i, ValueOf(message, i)>>
    BY <1>4, TheValue
  <2>2. <<i, ValueOf(message, i)>> \in message
    BY <1>4, TheValue
  <2>. QED BY <1>2, <1>4, <2>1, <2>2 DEF Before
<1>. QED BY <1>3, <1>4

\* What is written of a field: as many bytes as its kind always takes, at least
\* one unless it is a flag, and the value in the first of them.
LEMMA WrittenBytes ==
  ASSUME NEW fields, Layout(fields), NEW message, IsMessage(fields, message), NEW i \in Numbers(message)
  PROVE  /\ Written(fields[i].kind, ValueOf(message, i)) \in Seq(BytesOf(message))
         /\ Len(Written(fields[i].kind, ValueOf(message, i))) = Len(Written(fields[i].kind, i))
         /\ fields[i].kind # "object" =>
              /\ Len(Written(fields[i].kind, i)) >= 1
              /\ Written(fields[i].kind, ValueOf(message, i))[1][2] = ValueOf(message, i)
         /\ fields[i].kind = "object" =>
              Written(fields[i].kind, i) = <<>> /\ ValueOf(message, i) = i
<1> DEFINE v == ValueOf(message, i)
<1>1. <<i, v>> \in message /\ i \in DOMAIN fields
  BY TheValue
<1>2. v \in {e[2] : e \in message}
  BY <1>1
<1>3. \A name \in {"seconds", "nanoseconds", "text", "value", "option"} : <<name, v>> \in BytesOf(message)
  BY <1>2 DEF BytesOf
<1>4. fields[i].kind = "object" => v = i
  BY <1>1 DEF IsMessage
<1> HIDE DEF v
<1>5. CASE fields[i].kind = "utc"
  BY <1>3, <1>5 DEF Written, v
<1>6. CASE fields[i].kind = "amount"
  BY <1>3, <1>6 DEF Written, v
<1>7. CASE fields[i].kind = "object"
  BY <1>4, <1>7 DEF Written, v
<1>8. CASE fields[i].kind \notin {"utc", "amount", "object"}
  BY <1>3, <1>8 DEF Written, v
<1>. QED BY <1>5, <1>6, <1>7, <1>8

\* Every field adds bytes, whether it is there or not.
LEMMA PieceBytes ==
  ASSUME NEW fields, Layout(fields), NEW message, IsMessage(fields, message), NEW i \in DOMAIN fields
  PROVE  Piece(fields, message, i) \in Seq(BytesOf(message))
<1>1. None \in BytesOf(message) /\ Some \in BytesOf(message)
  BY DEF BytesOf, None, Some
<1>2. /\ <<>> \in Seq(BytesOf(message)) /\ <<None>> \in Seq(BytesOf(message))
      /\ <<Some>> \in Seq(BytesOf(message))
  BY <1>1
<1>3. fields[i].need = "required" /\ InScope(fields, i, message) => i \in Numbers(message)
  BY DEF IsMessage, WellFormed
<1>4. CASE i \in Numbers(message)
  <2> DEFINE w == Written(fields[i].kind, ValueOf(message, i))
  <2>1. w \in Seq(BytesOf(message))
    BY <1>4, WrittenBytes
  <2> HIDE DEF w
  <2>2. <<Some>> \o w \in Seq(BytesOf(message))
    BY <1>2, <2>1, ConcatProperties
  <2>. QED BY <1>2, <2>1, <2>2 DEF Piece, Serialized, w
<1>. QED BY <1>2, <1>3, <1>4 DEF Piece, Serialized

\* What follows a value.
LEMMA AfterValue ==
  ASSUME NEW S, NEW w \in Seq(S), NEW r \in Seq(S)
  PROVE  /\ Len(w \o r) >= Len(w)
         /\ SubSeq(w \o r, 1, Len(w)) = w
         /\ SubSeq(w \o r, Len(w) + 1, Len(w \o r)) = r
         /\ Len(w) >= 1 => (w \o r)[1] = w[1] /\ Len(w \o r) >= 1
<1> DEFINE s == w \o r
<1>1. /\ s \in Seq(S) /\ Len(s) = Len(w) + Len(r)
      /\ \A i \in 1..(Len(w) + Len(r)) : s[i] = IF i <= Len(w) THEN w[i] ELSE r[i - Len(w)]
  BY ConcatProperties
<1>2. Len(w) \in Nat /\ Len(r) \in Nat /\ \A i \in 1..Len(s) : s[i] \in S
  BY <1>1, ElementOfSeq
<1> HIDE DEF s
<1>3. SubSeq(s, 1, Len(w)) = w
  <2> DEFINE t == SubSeq(s, 1, Len(w))
  <2>1. /\ t \in Seq(S) /\ Len(t) = Len(w)
        /\ \A i \in 1..Len(w) : t[i] = s[i]
    BY <1>1, <1>2
  <2> HIDE DEF t
  <2>2. \A i \in 1..Len(t) : t[i] = w[i]
    BY <1>1, <1>2, <2>1
  <2>3. t = w
    BY <2>1, <2>2, SeqEqual
  <2>. QED BY <2>3 DEF t
<1>4. SubSeq(s, Len(w) + 1, Len(s)) = r
  <2> DEFINE t == SubSeq(s, Len(w) + 1, Len(s))
  <2>1. /\ t \in Seq(S) /\ Len(t) = Len(r)
        /\ \A i \in 1..Len(r) : t[i] = s[Len(w) + i]
    BY <1>1, <1>2
  <2> HIDE DEF t
  <2>2. ASSUME NEW i \in 1..Len(t) PROVE t[i] = r[i]
    <3>1. Len(w) + i \in 1..(Len(w) + Len(r)) /\ ~(Len(w) + i <= Len(w)) /\ (Len(w) + i) - Len(w) = i
      BY <1>2, <2>1
    <3>. QED BY <1>1, <2>1, <3>1
  <2>3. t = r
    BY <2>1, <2>2, SeqEqual
  <2>. QED BY <2>3 DEF t
<1>5. Len(s) >= Len(w)
  BY <1>1, <1>2
<1>6. Len(w) >= 1 => s[1] = w[1] /\ Len(s) >= 1
  BY <1>1, <1>2
<1>. QED BY <1>3, <1>4, <1>5, <1>6 DEF s

\* What follows the byte of an option.
LEMMA AfterOption ==
  ASSUME NEW S, NEW b \in S, NEW r \in Seq(S)
  PROVE  Len(<<b>> \o r) >= 1 /\ Len(<<b>> \o r) # 0 /\ (<<b>> \o r)[1] = b /\ Tail(<<b>> \o r) = r
<1> DEFINE s == <<b>> \o r
<1>1. <<b>> \in Seq(S) /\ Len(<<b>>) = 1 /\ <<b>>[1] = b
  OBVIOUS
<1>2. s \in Seq(S) /\ Len(s) >= 1 /\ s[1] = b /\ SubSeq(s, 2, Len(s)) = r
  BY <1>1, AfterValue
<1> HIDE DEF s
<1>3. s # <<>>
  BY <1>2
<1>4. Tail(s) = SubSeq(s, 2, Len(s))
  BY <1>2, <1>3, TailIsSubSeq
<1>. QED BY <1>2, <1>4 DEF s

\* Reading a field the message has, from where its value starts.
LEMMA ValueRead ==
  ASSUME NEW fields, Layout(fields), NEW message, IsMessage(fields, message),
         NEW i \in Numbers(message), InScope(fields, i, message),
         NEW r \in Seq(BytesOf(message)), NEW rest, rest = Serialized(fields, message, i) \o r
  PROVE  Deserialized(fields, i, Reading(message, i, rest)) = ReadTo(message, i, r)
<1> DEFINE k == fields[i].kind
           v == ValueOf(message, i)
           w == Written(k, v)
           n == Len(Written(k, i))
           body == w \o r
           B == BytesOf(message)
           reading == Reading(message, i, rest)
<1>1. i \in DOMAIN fields /\ fields[i].need \in {"required", "optional"}
  BY TheValue DEF Layout
<1>2. /\ w \in Seq(B) /\ Len(w) = n
      /\ k # "object" => n >= 1 /\ w[1][2] = v
      /\ k = "object" => n = 0 /\ v = i
  BY WrittenBytes
<1>3. n \in Nat
  BY <1>2
<1>4. /\ body \in Seq(B) /\ Len(body) >= n /\ SubSeq(body, 1, n) = w
      /\ SubSeq(body, n + 1, Len(body)) = r
      /\ n >= 1 => body[1] = w[1] /\ Len(body) >= 1
  <2>0. r \in Seq(B)
    BY DEF B
  <2> HIDE DEF w, n, B
  <2>1. body \in Seq(B)
    BY <1>2, <2>0, ConcatProperties
  <2>2. /\ Len(body) >= Len(w) /\ SubSeq(body, 1, Len(w)) = w
        /\ SubSeq(body, Len(w) + 1, Len(body)) = r
        /\ Len(w) >= 1 => body[1] = w[1] /\ Len(body) >= 1
    <3>1. r \in Seq(B)
      BY DEF B
    <3>. QED BY <1>2, <3>1, AfterValue
  <2>. QED BY <1>2, <2>1, <2>2
<1>5. v = IF n = 0 THEN i ELSE body[1][2]
  <2>1. CASE k = "object"
    BY <1>2, <2>1
  <2>2. CASE k # "object"
    <3>1. n >= 1 /\ n # 0
      BY <1>2, <1>3, <2>2
    <3>. QED BY <1>2, <1>4, <2>2, <3>1
  <2>. QED BY <2>1, <2>2
<1>6. InScope(fields, i, reading.got)
  BY <1>1, ScopeKnown DEF Reading, ReadTo
<1>7. ReadTo(message, i, r) = [result |-> "ok", rest |-> r, got |-> reading.got \cup {<<i, v>>}]
  <2>1. Before(message, i + 1) = Before(message, i) \cup {<<i, v>>}
    BY <1>1, NextBefore
  <2>. QED BY <2>1 DEF Reading, ReadTo
<1>8. reading.result = "ok" /\ reading.rest = rest
  BY DEF Reading, ReadTo
<1>9. CASE fields[i].need = "required"
  <2>1. rest = body
    BY <1>9 DEF Serialized
  <2>2. k # "object"
    BY <1>1, <1>9 DEF Layout
  <2>3. Len(rest) # 0
    BY <1>2, <1>3, <1>4, <2>1, <2>2
  <2>4. fields[i].need # "optional"
    BY <1>9
  <2> HIDE DEF k, v, w, n, body, reading
  <2>5. Deserialized(fields, i, reading)
          = [result |-> "ok", rest |-> r, got |-> reading.got \cup {<<i, v>>}]
    BY <1>4, <1>5, <1>6, <1>8, <1>9, <2>1, <2>3, <2>4 DEF Deserialized, n, k, w
  <2>. QED BY <1>7, <2>5 DEF reading
<1>10. CASE fields[i].need = "optional"
  <2>1. rest = <<Some>> \o body
    <3>1. Some \in B
      BY DEF B, BytesOf, Some
    <3>2. <<Some>> \in Seq(B) /\ r \in Seq(B)
      BY <3>1 DEF B
    <3>3. rest = (<<Some>> \o w) \o r
      BY <1>10 DEF Serialized
    <3> HIDE DEF w, B
    <3>. QED BY <1>2, <3>2, <3>3, ConcatAssociative
  <2>2. Len(rest) # 0 /\ rest[1] = Some /\ Tail(rest) = body
    <3>1. Some \in B
      BY DEF B, BytesOf, Some
    <3> HIDE DEF body, B
    <3>. QED BY <1>4, <2>1, <3>1, AfterOption
  <2>3. Some # None
    BY DEF Some, None
  <2>4. fields[i].need # "required"
    BY <1>10
  <2> HIDE DEF k, v, w, n, body, reading
  <2>5. Deserialized(fields, i, reading)
          = [result |-> "ok", rest |-> r, got |-> reading.got \cup {<<i, v>>}]
    BY <1>4, <1>5, <1>6, <1>8, <1>10, <2>2, <2>3, <2>4 DEF Deserialized, n, k, w
  <2>. QED BY <1>7, <2>5 DEF reading
<1>. QED BY <1>1, <1>9, <1>10

\* Reading a field the message does not have.
LEMMA NothingRead ==
  ASSUME NEW fields, Layout(fields), NEW message, IsMessage(fields, message),
         NEW i \in DOMAIN fields, i \notin Numbers(message), 
         NEW r \in Seq(BytesOf(message)), NEW rest, rest = Piece(fields, message, i) \o r
  PROVE  Deserialized(fields, i, Reading(message, i, rest)) = ReadTo(message, i, r)
<1> DEFINE reading == Reading(message, i, rest)
<1>1. Before(message, i + 1) = Before(message, i)
  BY NextBefore
<1>2. ReadTo(message, i, r) = [reading EXCEPT !.rest = r]
  BY <1>1 DEF Reading, ReadTo
<1>3. /\ reading.result = "ok" /\ reading.rest = rest
      /\ InScope(fields, i, reading.got) <=> InScope(fields, i, message)
  BY ScopeKnown DEF Reading, ReadTo
<1>4. CASE ~InScope(fields, i, message)
  <2>1. rest = r
    BY <1>4, ConcatEmptySeq DEF Piece
  <2>2. Deserialized(fields, i, reading) = reading
    BY <1>3, <1>4 DEF Deserialized
  <2>3. [reading EXCEPT !.rest = r] = reading
    BY <2>1 DEF Reading, ReadTo
  <2>. QED BY <1>2, <2>2, <2>3
<1>5. CASE InScope(fields, i, message)
  <2>1. fields[i].need = "optional" /\ fields[i].need # "required"
    BY <1>5 DEF IsMessage, WellFormed, Layout
  <2>2. rest = <<None>> \o r
    BY <1>5, <2>1 DEF Piece, Serialized
  <2>3. None \in BytesOf(message)
    BY DEF BytesOf, None
  <2>4. Len(rest) # 0 /\ rest[1] = None /\ Tail(rest) = r
    BY <2>2, <2>3, AfterOption
  <2> HIDE DEF reading
  <2>5. Deserialized(fields, i, reading) = [reading EXCEPT !.rest = r]
    BY <1>3, <1>5, <2>1, <2>4 DEF Deserialized
  <2>. QED BY <1>2, <2>5 DEF reading
<1>. QED BY <1>4, <1>5

\* Reading one field takes its piece off the bytes, and nothing else.
LEMMA PieceRead ==
  ASSUME NEW fields, Layout(fields), NEW message, IsMessage(fields, message),
         NEW i \in DOMAIN fields, NEW r \in Seq(BytesOf(message))
  PROVE  Deserialized(fields, i, Reading(message, i, Piece(fields, message, i) \o r))
           = ReadTo(message, i, r)
<1> DEFINE rest == Piece(fields, message, i) \o r
<1>0. rest = Piece(fields, message, i) \o r
  OBVIOUS
<1> HIDE DEF rest
<1>1. CASE i \notin Numbers(message)
  <2>1. Deserialized(fields, i, Reading(message, i, rest)) = ReadTo(message, i, r)
    BY <1>0, <1>1, NothingRead
  <2>. QED BY <2>1 DEF rest
<1>2. CASE i \in Numbers(message)
  <2>1. InScope(fields, i, message)
    BY <1>2 DEF IsMessage, WellFormed
  <2>2. rest = Serialized(fields, message, i) \o r
    BY <1>0, <2>1 DEF Piece
  <2>3. Deserialized(fields, i, Reading(message, i, rest)) = ReadTo(message, i, r)
    BY <1>2, <2>1, <2>2, ValueRead
  <2>. QED BY <2>3 DEF rest
<1>. QED BY <1>1, <1>2

\* The bytes, cut where each field starts.
LEMMA Encoded ==
  ASSUME NEW fields, Layout(fields), NEW message, IsMessage(fields, message)
  PROVE  \E rest \in [0..Len(fields) -> Seq(BytesOf(message))] :
           /\ rest[0] = BorshEncode(fields, message)
           /\ rest[Len(fields)] = <<>>
           /\ \A i \in 1..Len(fields) : rest[i - 1] = Piece(fields, message, i) \o rest[i]
<1> DEFINE n == Len(fields)
           S == Seq(BytesOf(message))
           P(i) == Piece(fields, message, i)
           Q(h) == h = [i \in 0..n |-> IF i = 0 THEN <<>> ELSE h[i - 1] \o P(i)]
           c == CHOOSE h : Q(h)
<1>1. n \in Nat /\ DOMAIN fields = 1..n
  BY DEF Layout
<1>2. \A i \in 1..n : P(i) \in S
  BY <1>1, PieceBytes
<1>3. BorshEncode(fields, message) = c[n]
  BY DEF BorshEncode
<1> HIDE DEF n, P
<1>4. <<>> \in S /\ \A s, t \in S : s \o t \in S
  BY ConcatProperties
<1>5. \A s \in S : s \o <<>> = s /\ <<>> \o s = s
  BY ConcatEmptySeq
<1>6. \A s, t, u \in S : (s \o t) \o u = s \o (t \o u)
  BY ConcatAssociative
<1>7. \A s, t, u \in S : s \o t = s \o u => t = u
  BY ConcatSimplifications
<1> HIDE DEF S
<1>8. Q(c)
  <2> DEFINE step == [i \in 1..n |-> [s \in S |-> s \o P(i)]]
  <2>1. step \in [1..n -> [S -> S]]
    BY <1>2, <1>4
  <2> HIDE DEF step
  <2>2. PICK f \in [0..n -> S] : Recurs(f, n, <<>>, step)
    BY <1>1, <1>4, <2>1, Recursion
  <2>3. ASSUME NEW i \in 1..n PROVE f[i] = f[i - 1] \o P(i)
    <3>1. i - 1 \in 0..n
      BY <1>1
    <3>2. f[i - 1] \in S
      BY <3>1
    <3>3. f[i] = step[i][f[i - 1]]
      BY <2>2 DEF Recurs
    <3>. QED BY <3>2, <3>3 DEF step
  <2>4. \A i \in 0..n : f[i] = IF i = 0 THEN <<>> ELSE f[i - 1] \o P(i)
    <3>1. \A i \in 0..n : i # 0 => i \in 1..n
      BY <1>1
    <3>2. f[0] = <<>>
      BY <2>2 DEF Recurs
    <3>. QED BY <2>3, <3>1, <3>2
  <2>5. Q(f)
    BY <2>4
  <2> HIDE DEF Q
  <2>. QED BY <2>5
<1> HIDE DEF c
<1>9. c[0] = <<>> /\ \A i \in 1..n : c[i] = c[i - 1] \o P(i)
  <2>1. \A i \in 0..n : c[i] = IF i = 0 THEN <<>> ELSE c[i - 1] \o P(i)
    BY <1>8
  <2>2. 0 \in 0..n /\ \A i \in 1..n : i \in 0..n /\ i # 0
    BY <1>1
  <2>. QED BY <2>1, <2>2
<1>10. \A i \in 0..n : c[i] \in S
  <2> DEFINE set == {i \in 0..n : c[i] \in S}
  <2>1. 0 \in set
    BY <1>1, <1>4, <1>9
  <2>2. ASSUME NEW i \in 1..n, i - 1 \in set PROVE i \in set
    <3>1. c[i - 1] \in S /\ P(i) \in S /\ c[i] = c[i - 1] \o P(i)
      BY <1>2, <1>9, <2>2
    <3>2. c[i] \in S /\ i \in 0..n
      BY <1>1, <1>4, <3>1
    <3>. QED BY <3>2
  <2>3. 0..n \subseteq set
    <3> HIDE DEF set
    <3>1. \A i \in 1..n : i - 1 \in set => i \in set
      BY <2>2
    <3>. QED BY <1>1, <2>1, <3>1, InductionUp
  <2>. QED BY <2>3
<1>11. \A i \in 0..n : \E q \in S : c[n] = c[i] \o q
  <2> DEFINE set == {i \in 0..n : \E q \in S : c[n] = c[i] \o q}
  <2>1. n \in set
    <3>1. n \in 0..n
      BY <1>1
    <3>2. c[n] = c[n] \o <<>>
      BY <1>5, <1>10, <3>1
    <3>. QED BY <1>4, <3>1, <3>2
  <2>2. ASSUME NEW i \in 1..n, i \in set PROVE i - 1 \in set
    <3>1. PICK q \in S : c[n] = c[i] \o q
      BY <2>2
    <3>2. i - 1 \in 0..n
      BY <1>1
    <3>3. c[n] = c[i - 1] \o (P(i) \o q)
      <4>1. c[i - 1] \in S /\ P(i) \in S
        BY <1>2, <1>10, <3>2
      <4>2. c[n] = (c[i - 1] \o P(i)) \o q
        BY <1>9, <3>1
      <4>. QED BY <1>6, <3>1, <4>1, <4>2
    <3>4. P(i) \o q \in S
      BY <1>2, <1>4
    <3>. QED BY <3>2, <3>3, <3>4
  <2>3. 0..n \subseteq set
    <3> HIDE DEF set
    <3>1. \A i \in 1..n : i \in set => i - 1 \in set
      BY <2>2
    <3>. QED BY <1>1, <2>1, <3>1, InductionDown
  <2>. QED BY <2>3
<1> DEFINE rest == [i \in 0..n |-> CHOOSE q \in S : c[n] = c[i] \o q]
<1>12. \A i \in 0..n : rest[i] \in S /\ c[n] = c[i] \o rest[i]
  BY <1>11
<1>13. rest \in [0..n -> S]
  BY <1>12
<1> HIDE DEF rest
<1>14. rest[0] = c[n]
  <2>1. 0 \in 0..n
    BY <1>1
  <2>. QED BY <1>5, <1>9, <1>12, <2>1
<1>15. rest[n] = <<>>
  <2>1. n \in 0..n
    BY <1>1
  <2>2. c[n] = c[n] \o <<>> /\ c[n] = c[n] \o rest[n]
    BY <1>5, <1>10, <1>12, <2>1
  <2>. QED BY <1>4, <1>7, <1>10, <1>12, <2>1, <2>2
<1>16. ASSUME NEW i \in 1..n PROVE rest[i - 1] = P(i) \o rest[i]
  <2>1. i - 1 \in 0..n /\ i \in 0..n
    BY <1>1
  <2>2. rest[i] \in S /\ rest[i - 1] \in S /\ c[i - 1] \in S /\ P(i) \in S
    BY <1>2, <1>10, <1>12, <2>1
  <2>3. c[i - 1] \o rest[i - 1] = (c[i - 1] \o P(i)) \o rest[i]
    BY <1>9, <1>12, <2>1
  <2>4. c[i - 1] \o rest[i - 1] = c[i - 1] \o (P(i) \o rest[i])
    BY <1>6, <2>2, <2>3
  <2>. QED BY <1>4, <1>7, <2>2, <2>4
<1>. QED BY <1>3, <1>13, <1>14, <1>15, <1>16 DEF n, S, P

\* serialize and deserialize of types.rs and big_int.rs: whatever a message was
\* written from, for every list of fields and every value, is what is read back.
THEOREM BorshRoundTrip ==
  ASSUME NEW fields, Layout(fields), NEW message, IsMessage(fields, message)
  PROVE  BorshDecode(fields, BorshEncode(fields, message)) = message
<1> DEFINE n == Len(fields)
           S == Seq(BytesOf(message))
           bytes == BorshEncode(fields, message)
           start == [result |-> "ok", rest |-> bytes, got |-> {}]
           D(i, r) == Deserialized(fields, i, r)
           Q(h) == h = [i \in 0..n |-> IF i = 0 THEN start ELSE D(i, h[i - 1])]
           c == CHOOSE h : Q(h)
<1>1. n \in Nat /\ DOMAIN fields = 1..n
  BY DEF Layout
<1>2. BorshDecode(fields, bytes) = IF c[n].result = "ok" THEN c[n].got ELSE Failed
  BY DEF BorshDecode
<1>3. PICK rest \in [0..n -> S] :
        /\ rest[0] = bytes /\ rest[n] = <<>>
        /\ \A i \in 1..n : rest[i - 1] = Piece(fields, message, i) \o rest[i]
  BY Encoded
<1>4. \A e \in message : e[1] \in 1..n
  BY <1>1 DEF IsMessage
<1> DEFINE R(i) == ReadTo(message, i, rest[i])
<1>5. R(0) = start
  <2>1. Before(message, 0 + 1) = {}
    BY <1>1, <1>4 DEF Before
  <2>. QED BY <1>3, <2>1 DEF ReadTo
<1>6. ASSUME NEW i \in 1..n PROVE R(i) = D(i, R(i - 1))
  <2>1. i \in DOMAIN fields /\ rest[i] \in S /\ rest[i - 1] = Piece(fields, message, i) \o rest[i]
    <3>1. i \in 0..n
      BY <1>1
    <3>. QED BY <1>1, <1>3, <3>1
  <2>2. (i - 1) + 1 = i
    BY <1>1
  <2>3. R(i - 1) = Reading(message, i, rest[i - 1])
    BY <2>2 DEF Reading, ReadTo
  <2>4. D(i, Reading(message, i, Piece(fields, message, i) \o rest[i])) = R(i)
    BY <2>1, PieceRead
  <2>. QED BY <2>1, <2>3, <2>4
<1>7. R(n).result = "ok" /\ R(n).got = message
  <2>1. Before(message, n + 1) = message
    BY <1>1, <1>4 DEF Before
  <2>. QED BY <2>1 DEF ReadTo
<1> HIDE DEF n, S, start, D, R
<1>8. Q(c)
  <2> DEFINE d == [i \in 0..n |-> R(i)]
  <2>1. \A i \in 0..n : d[i] = IF i = 0 THEN start ELSE D(i, d[i - 1])
    <3>1. \A i \in 0..n : i # 0 => i \in 1..n /\ i - 1 \in 0..n
      BY <1>1
    <3>2. \A i \in 0..n : d[i] = R(i)
      OBVIOUS
    <3> HIDE DEF d
    <3>. QED BY <1>5, <1>6, <3>1, <3>2
  <2>2. Q(d)
    BY <2>1
  <2> HIDE DEF Q
  <2>. QED BY <2>2
<1> HIDE DEF c
<1>9. c[0] = start /\ \A i \in 1..n : c[i] = D(i, c[i - 1])
  <2>1. \A i \in 0..n : c[i] = IF i = 0 THEN start ELSE D(i, c[i - 1])
    BY <1>8
  <2>2. 0 \in 0..n /\ \A i \in 1..n : i \in 0..n /\ i # 0
    BY <1>1
  <2>. QED BY <2>1, <2>2
<1>10. \A i \in 0..n : c[i] = R(i)
  <2> DEFINE set == {i \in 0..n : c[i] = R(i)}
  <2>1. 0 \in set
    BY <1>1, <1>5, <1>9
  <2>2. ASSUME NEW i \in 1..n, i - 1 \in set PROVE i \in set
    <3>1. i \in 0..n /\ c[i] = D(i, c[i - 1]) /\ c[i - 1] = R(i - 1)
      BY <1>1, <1>9, <2>2
    <3>. QED BY <1>6, <3>1
  <2>3. 0..n \subseteq set
    <3> HIDE DEF set
    <3>1. \A i \in 1..n : i - 1 \in set => i \in set
      BY <2>2
    <3>. QED BY <1>1, <2>1, <3>1, InductionUp
  <2>. QED BY <2>3
<1>11. c[n] = R(n)
  BY <1>1, <1>10
<1>. QED BY <1>2, <1>7, <1>11

-----------------------------------------------------------------------------
(* Messages: the names of fields, and JSON                                 *)

\* The same key in the same object.
SameName(fields, i, j) == fields[i].at = fields[j].at /\ fields[i].key = fields[j].key
MetaName == <<"top", "meta">>
\* A part of a type, all of its names in a set, that has two fields of one name
\* only where `twice` says so, and the flag of the metadata before its fields.
Part(fields, names, twice) ==
  /\ \E S : fields \in Seq(S)
  /\ \A i \in 1..Len(fields) :
       /\ <<fields[i].at, fields[i].key>> \in names
       /\ fields[i].need \in {"required", "optional"}
       /\ fields[i].kind = "object" => <<fields[i].at, fields[i].key>> = MetaName /\ fields[i].need = "optional"
  /\ \A i, j \in 1..Len(fields) : fields[i].kind = "object" /\ fields[j].at = "meta" => i < j
  /\ \A i, j \in 1..Len(fields) : i < j /\ SameName(fields, i, j) => <<i, j>> \in twice

\* Two parts with different names, one after the other: fields share a name
\* only where they did within a part.
LEMMA PartsJoinedAny ==
  ASSUME NEW s, NEW t, NEW A, NEW B, NEW P, NEW Q, Part(s, A, P), Part(t, B, Q),
         A \cap B = {}, MetaName \notin B
  PROVE  Part(s \o t, A \cup B, P \cup {<<q[1] + Len(s), q[2] + Len(s)>> : q \in Q})
<1>1. PICK S, T : s \in Seq(S) /\ t \in Seq(T)
  BY DEF Part
<1>2. s \in Seq(S \cup T) /\ t \in Seq(S \cup T)
  BY <1>1, SeqMonotonic
<1> DEFINE W == P \cup {<<q[1] + Len(s), q[2] + Len(s)>> : q \in Q}
           u == s \o t
           m == Len(s)
           n == Len(t)
<1>3. u \in Seq(S \cup T) /\ Len(u) = m + n
  BY <1>2, ConcatProperties
<1>12. \A i \in 1..(m + n) : u[i] = IF i <= m THEN s[i] ELSE t[i - m]
  BY <1>2, ConcatProperties
<1>4. m \in Nat /\ n \in Nat
  BY <1>2
<1> HIDE DEF u, m, n
<1>5. ASSUME NEW i \in 1..Len(u)
      PROVE  \/ i \in 1..m /\ u[i] = s[i]
             \/ i > m /\ i - m \in 1..n /\ u[i] = t[i - m]
  <2>0. i \in 1..(m + n)
    BY <1>3
  <2>1. CASE i <= m
    <3>1. i \in 1..m
      BY <1>4, <2>0, <2>1
    <3>2. u[i] = s[i]
      BY <1>12, <2>0, <2>1
    <3>. QED BY <3>1, <3>2
  <2>2. CASE ~(i <= m)
    <3>1. i > m /\ i - m \in 1..n
      BY <1>4, <2>0, <2>2
    <3>. QED BY <1>12, <2>0, <2>2, <3>1
  <2>. QED BY <2>1, <2>2
<1>6. \A i \in 1..m : 
       /\ <<s[i].at, s[i].key>> \in A
       /\ s[i].need \in {"required", "optional"}
       /\ s[i].kind = "object" => <<s[i].at, s[i].key>> = MetaName /\ s[i].need = "optional"
  BY DEF Part, m
<1>7. \A i \in 1..n : 
       /\ <<t[i].at, t[i].key>> \in B
       /\ t[i].need \in {"required", "optional"}
       /\ t[i].kind # "object"
  BY DEF Part, n
<1>8. ASSUME NEW i \in 1..Len(u) 
      PROVE  /\ <<u[i].at, u[i].key>> \in A \cup B
             /\ u[i].need \in {"required", "optional"}
             /\ u[i].kind = "object" => <<u[i].at, u[i].key>> = MetaName /\ u[i].need = "optional"
  BY <1>5, <1>6, <1>7
<1>9. ASSUME NEW i \in 1..Len(u), NEW j \in 1..Len(u), u[i].kind = "object", u[j].at = "meta" PROVE i < j
  <2>1. i \in 1..m /\ u[i] = s[i]
    BY <1>5, <1>7, <1>9
  <2>2. CASE j \in 1..m /\ u[j] = s[j]
    <3>1. s[i].kind = "object" /\ s[j].at = "meta"
      BY <1>9, <2>1, <2>2
    <3>. QED BY <2>1, <2>2, <3>1 DEF Part, m
  <2>3. CASE j > m
    BY <1>3, <1>4, <2>1, <2>3
  <2>. QED BY <1>5, <2>2, <2>3
<1>10. ASSUME NEW i \in 1..Len(u), NEW j \in 1..Len(u), i < j, SameName(u, i, j) PROVE <<i, j>> \in W
  <2>1. CASE i \in 1..m /\ u[i] = s[i] /\ j \in 1..m /\ u[j] = s[j]
    <3>1. SameName(s, i, j)
      BY <1>10, <2>1 DEF SameName
    <3>. QED BY <1>10, <2>1, <3>1 DEF Part, m
  <2>2. CASE i > m /\ i - m \in 1..n /\ u[i] = t[i - m] /\ j > m /\ j - m \in 1..n /\ u[j] = t[j - m]
    <3>1. SameName(t, i - m, j - m)
      BY <1>10, <2>2 DEF SameName
    <3>2. i - m < j - m /\ (i - m) + m = i /\ (j - m) + m = j
      BY <1>3, <1>4, <1>10
    <3>3. <<i - m, j - m>> \in Q
      BY <2>2, <3>1, <3>2 DEF Part, n
    <3>4. <<(i - m) + m, (j - m) + m>> \in W
      BY <3>3 DEF m
    <3>. QED BY <3>2, <3>4
  <2>3. CASE i \in 1..m /\ u[i] = s[i] /\ j > m /\ j - m \in 1..n /\ u[j] = t[j - m]
    <3>1. <<u[i].at, u[i].key>> \in A /\ <<u[j].at, u[j].key>> \in B
      BY <1>6, <1>7, <2>3
    <3>. QED BY <1>10, <3>1 DEF SameName
  <2>4. ~(i > m /\ j <= m)
    BY <1>3, <1>4, <1>10
  <2>5. \A k \in 1..m : k <= m
    BY <1>4
  <2>. QED BY <1>5, <2>1, <2>2, <2>3, <2>4, <2>5
<1> HIDE DEF W
<1>11. Part(u, A \cup B, W)
  <2>1. \E V : u \in Seq(V)
    BY <1>3
  <2>2. \A i, j \in 1..Len(u) : u[i].kind = "object" /\ u[j].at = "meta" => i < j
    BY <1>9
  <2>3. \A i, j \in 1..Len(u) : i < j /\ SameName(u, i, j) => <<i, j>> \in W
    BY <1>10
  <2>4. \A i \in 1..Len(u) :
       /\ <<u[i].at, u[i].key>> \in A \cup B
       /\ u[i].need \in {"required", "optional"}
       /\ u[i].kind = "object" => <<u[i].at, u[i].key>> = MetaName /\ u[i].need = "optional"
    BY <1>8
  <2>. QED BY <2>1, <2>2, <2>3, <2>4 DEF Part
<1>. QED BY <1>11 DEF u, W

\* The same when the names within the second part differ.
LEMMA PartsJoined ==
  ASSUME NEW s, NEW t, NEW A, NEW B, NEW P, Part(s, A, P), Part(t, B, {}),
         A \cap B = {}, MetaName \notin B
  PROVE  Part(s \o t, A \cup B, P)
<1>1. P \cup {<<q[1] + Len(s), q[2] + Len(s)>> : q \in {}} = P
  OBVIOUS
<1>. QED BY <1>1, PartsJoinedAny

\* Parts are lists of fields as the encodings take them.
LEMMA PartLayout ==
  ASSUME NEW fields, NEW names, NEW twice, Part(fields, names, twice)
  PROVE  Layout(fields)
<1>1. Len(fields) \in Nat /\ DOMAIN fields = 1..Len(fields)
  BY DEF Part
<1>2. \A i \in DOMAIN fields : fields[i].kind = "object" => fields[i].at # "meta"
  BY <1>1 DEF Part, MetaName
<1>. QED BY <1>1, <1>2 DEF Part, Layout

\* An entry is taken by the first field that has its name.
LEMMA TakenOnce ==
  ASSUME NEW fields, Layout(fields), NEW i \in DOMAIN fields, NEW entry,
         fields[i].at = entry.at, fields[i].key = entry.key
  PROVE  /\ TakenBy(fields, entry) = TakenBy(fields, fields[i])
         /\ TakenBy(fields, fields[i]) \in DOMAIN fields
         /\ SameName(fields, TakenBy(fields, fields[i]), i)
         /\ \A j \in DOMAIN fields : SameName(fields, j, i) => TakenBy(fields, fields[i]) <= j
<1> DEFINE First(j) ==
             /\ <<fields[j].at, fields[j].key>> = <<fields[i].at, fields[i].key>>
             /\ \A k \in 1..(j - 1) : <<fields[k].at, fields[k].key>> # <<fields[i].at, fields[i].key>>
           same == {j \in DOMAIN fields : SameName(fields, j, i)}
           t == TakenBy(fields, fields[i])
<1>1. t = (CHOOSE j \in DOMAIN fields : First(j)) /\ TakenBy(fields, entry) = t
  BY DEF TakenBy
<1>2. DOMAIN fields = 1..Len(fields) /\ Len(fields) \in Nat
  BY DEF Layout
<1>3. PICK m \in same : \A k \in same : ~(k < m)
  <2>1. same \subseteq Nat
    BY <1>2
  <2>2. i \in same
    BY DEF SameName
  <2> HIDE DEF same
  <2>. QED BY <2>1, <2>2, LeastNumber
<1>4. First(m)
  <2>1. <<fields[m].at, fields[m].key>> = <<fields[i].at, fields[i].key>>
    BY DEF SameName
  <2>2. \A k \in 1..(m - 1) : k \in DOMAIN fields /\ k < m
    BY <1>2
  <2>3. \A k \in 1..(m - 1) : ~SameName(fields, k, i)
    BY <1>3, <2>2
  <2>. QED BY <2>1, <2>3 DEF SameName
<1>5. t \in DOMAIN fields /\ First(t)
  <2> HIDE DEF First
  <2>. QED BY <1>1, <1>4
<1> HIDE DEF t
<1>6. SameName(fields, t, i)
  BY <1>5 DEF SameName
<1>7. ASSUME NEW j \in DOMAIN fields, SameName(fields, j, i) PROVE t <= j
  <2>1. ~(j \in 1..(t - 1))
    BY <1>5, <1>7 DEF SameName
  <2>. QED BY <1>2, <1>5, <2>1
<1>. QED BY <1>1, <1>5, <1>6, <1>7 DEF t

\* The field that takes the entry of field i.
First(fields, i) == TakenBy(fields, fields[i])

\* A field whose entry another one takes is optional, and of the other's kind.
Alike(fields, message) ==
  \A i \in Numbers(message) :
    First(fields, i) # i =>
      fields[First(fields, i)].kind = fields[i].kind /\ fields[i].need = "optional"

\* The entry JSON has for an entry of the message.
Entry(fields, e) ==
  [at |-> fields[e[1]].at, key |-> fields[e[1]].key, field |-> e[1],
   text |-> Rendered(fields[e[1]].kind, e[2])]

\* Every entry has a reader, the first field of its name.
LEMMA EntryTaken ==
  ASSUME NEW fields, Layout(fields), NEW message, IsMessage(fields, message), NEW e \in message
  PROVE  /\ TakenBy(fields, Entry(fields, e)) = First(fields, e[1])
         /\ First(fields, e[1]) \in DOMAIN fields /\ e[1] \in DOMAIN fields
         /\ SameName(fields, First(fields, e[1]), e[1])
         /\ Entry(fields, e).text.value = e[2]
<1>1. e[1] \in DOMAIN fields
  BY DEF IsMessage
<1>2. Entry(fields, e).at = fields[e[1]].at /\ Entry(fields, e).key = fields[e[1]].key
  BY DEF Entry
<1>3. Entry(fields, e).text.value = e[2]
  BY DEF Entry, Rendered
<1>. QED BY <1>1, <1>2, <1>3, TakenOnce DEF First

\* JSON has one entry for every entry of the message.
LEMMA EntriesOf ==
  ASSUME NEW fields, NEW message
  PROVE  JsonEncode(fields, message) = {Entry(fields, e) : e \in message}
BY DEF JsonEncode, Entry

\* Two fields of one name are refused.
LEMMA JsonRefused ==
  ASSUME NEW fields, NEW message, NEW e \in message, NEW f \in message,
         e[1] # f[1], SameName(fields, e[1], f[1])
  PROVE  JsonDecode(fields, JsonEncode(fields, message)) = Failed
<1>1. Entry(fields, e) # Entry(fields, f)
  BY DEF Entry
<1>2. <<Entry(fields, e).at, Entry(fields, e).key>> = <<Entry(fields, f).at, Entry(fields, f).key>>
  BY DEF Entry, SameName
<1>. QED BY <1>1, <1>2, EntriesOf DEF JsonDecode

\* serde with flattened objects: JSON keeps every value of a message, under the
\* first field of its name, when no two of its fields share one.
THEOREM JsonGivesToFirst ==
  ASSUME NEW fields, Layout(fields), NEW message, IsMessage(fields, message), Alike(fields, message),
         \A e, f \in message : SameName(fields, e[1], f[1]) => e = f
  PROVE  JsonDecode(fields, JsonEncode(fields, message)) = {<<First(fields, e[1]), e[2]>> : e \in message}
<1> DEFINE entries == {Entry(fields, e) : e \in message}
           got == {<<First(fields, e[1]), e[2]>> : e \in message}
<1>1. ~\E x, y \in entries : x # y /\ <<x.at, x.key>> = <<y.at, y.key>>
  <2>1. SUFFICES ASSUME NEW e \in message, NEW f \in message, Entry(fields, e) # Entry(fields, f),
                        Entry(fields, e).at = Entry(fields, f).at, Entry(fields, e).key = Entry(fields, f).key
                 PROVE  FALSE
    OBVIOUS
  <2>2. SameName(fields, e[1], f[1])
    BY <2>1 DEF Entry, SameName
  <2>. QED BY <2>1, <2>2
<1>2. \A e \in message : fields[First(fields, e[1])].kind = fields[e[1]].kind
  BY DEF Alike, Numbers
<1>3. \A x \in entries : Readable(fields[TakenBy(fields, x)].kind, x.text)
  <2>1. ASSUME NEW e \in message
        PROVE  Readable(fields[TakenBy(fields, Entry(fields, e))].kind, Entry(fields, e).text)
    <3>1. fields[TakenBy(fields, Entry(fields, e))].kind = fields[e[1]].kind
      BY <1>2, EntryTaken
    <3>2. Entry(fields, e).text = Rendered(fields[e[1]].kind, e[2]) /\ Entry(fields, e).text.value = e[2]
      BY EntryTaken DEF Entry
    <3>. QED BY <3>1, <3>2 DEF Readable
  <2>. QED BY <2>1
<1>4. {<<TakenBy(fields, x), x.text.value>> : x \in entries} = got
  <2>1. \A e \in message :
          <<TakenBy(fields, Entry(fields, e)), Entry(fields, e).text.value>> = <<First(fields, e[1]), e[2]>>
    BY EntryTaken
  <2>. QED BY <2>1
<1>5. \A i : i \in Numbers(got) <=> \E e \in message : i = First(fields, e[1])
  <2>1. ASSUME NEW e \in message PROVE First(fields, e[1]) \in Numbers(got)
    <3>1. <<First(fields, e[1]), e[2]>> \in got
      OBVIOUS
    <3>2. <<First(fields, e[1]), e[2]>>[1] = First(fields, e[1])
      OBVIOUS
    <3> HIDE DEF got
    <3>. QED BY <3>1, <3>2 DEF Numbers
  <2>2. ASSUME NEW i \in Numbers(got) PROVE \E e \in message : i = First(fields, e[1])
    BY DEF Numbers
  <2>. QED BY <2>1, <2>2
<1>6. \A j \in Numbers(message) :
        First(fields, j) \in Numbers(got) /\ fields[First(fields, j)].kind = fields[j].kind
  <2>1. ASSUME NEW j \in Numbers(message)
        PROVE  First(fields, j) \in Numbers(got) /\ fields[First(fields, j)].kind = fields[j].kind
    <3>1. PICK e \in message : e[1] = j
      BY DEF Numbers
    <3>. QED BY <1>2, <1>5, <3>1
  <2>. QED BY <2>1
<1> HIDE DEF got
<1>7. \A i \in DOMAIN fields : InScope(fields, i, got) <=> InScope(fields, i, message)
  <2>1. ASSUME NEW j \in Numbers(got), fields[j].kind = "object"
        PROVE  \E k \in Numbers(message) : fields[k].kind = "object"
    <3>1. PICK e \in message : j = First(fields, e[1])
      BY <1>5
    <3>2. e[1] \in Numbers(message) /\ fields[e[1]].kind = "object"
      BY <1>2, <2>1, <3>1 DEF Numbers
    <3>. QED BY <3>2
  <2>2. ASSUME NEW k \in Numbers(message), fields[k].kind = "object"
        PROVE  \E j \in Numbers(got) : fields[j].kind = "object"
    BY <1>6, <2>2
  <2>. QED BY <2>1, <2>2 DEF InScope
<1>8. WellFormed(fields, got)
  <2>1. ASSUME NEW i \in DOMAIN fields, fields[i].need = "required", InScope(fields, i, got)
        PROVE  i \in Numbers(got)
    <3>1. i \in Numbers(message)
      BY <1>7, <2>1 DEF IsMessage, WellFormed
    <3>2. First(fields, i) = i
      BY <2>1, <3>1 DEF Alike
    <3>. QED BY <1>6, <3>1, <3>2
  <2>2. ASSUME NEW i \in DOMAIN fields, i \in Numbers(got)
        PROVE  InScope(fields, i, got)
    <3>1. PICK e \in message : i = First(fields, e[1])
      BY <1>5, <2>2
    <3>2. e[1] \in Numbers(message) /\ e[1] \in DOMAIN fields
      BY EntryTaken DEF Numbers
    <3>3. InScope(fields, e[1], message)
      BY <3>2 DEF IsMessage, WellFormed
    <3>4. fields[e[1]].at = fields[i].at
      BY <3>1, EntryTaken DEF SameName
    <3>5. InScope(fields, i, message)
      BY <3>3, <3>4 DEF InScope
    <3>. QED BY <1>7, <3>5
  <2>. QED BY <2>1, <2>2 DEF WellFormed
<1> HIDE DEF entries
<1>9. JsonDecode(fields, entries) = got
  BY <1>1, <1>3, <1>4, <1>8 DEF JsonDecode
<1>. QED BY <1>9, EntriesOf DEF entries, got

\* JSON keeps a message all of whose fields are the first of their name.
THEOREM JsonRoundTrip ==
  ASSUME NEW fields, Layout(fields), NEW message, IsMessage(fields, message),
         \A i \in Numbers(message) : \A j \in DOMAIN fields : SameName(fields, j, i) => ~(j < i)
  PROVE  JsonDecode(fields, JsonEncode(fields, message)) = message
<1>0. \A e \in message : e[1] \in Numbers(message) /\ e[1] \in DOMAIN fields /\ e[1] \in Nat
  BY DEF Numbers, IsMessage, Layout
<1>1. \A e \in message : First(fields, e[1]) = e[1] /\ e = <<First(fields, e[1]), e[2]>>
  <2>1. ASSUME NEW e \in message PROVE First(fields, e[1]) = e[1] /\ e = <<e[1], e[2]>>
    <3>1. SameName(fields, e[1], e[1])
      BY DEF SameName
    <3>2. /\ First(fields, e[1]) \in DOMAIN fields
          /\ First(fields, e[1]) <= e[1] /\ ~(First(fields, e[1]) < e[1])
      BY <1>0, <3>1, TakenOnce DEF First
    <3>3. First(fields, e[1]) \in Nat
      BY <3>2 DEF Layout
    <3>4. First(fields, e[1]) = e[1]
      BY <1>0, <3>2, <3>3
    <3>. QED BY <3>4 DEF IsMessage
  <2>. QED BY <2>1
<1>2. Alike(fields, message)
  BY <1>1 DEF Alike, Numbers
<1>3. \A e, f \in message : SameName(fields, e[1], f[1]) => e = f
  <2>1. ASSUME NEW e \in message, NEW f \in message, SameName(fields, e[1], f[1]) PROVE e = f
    <3>1. SameName(fields, f[1], e[1])
      BY <2>1 DEF SameName
    <3>2. ~(e[1] < f[1]) /\ ~(f[1] < e[1])
      BY <1>0, <2>1, <3>1
    <3>3. e[1] = f[1]
      BY <1>0, <3>2
    <3>. QED BY <3>3 DEF IsMessage
  <2>. QED BY <2>1
<1>4. {<<First(fields, e[1]), e[2]>> : e \in message} = message
  BY <1>1
<1>. QED BY <1>2, <1>3, <1>4, JsonGivesToFirst

-----------------------------------------------------------------------------
(* Messages: the types                                                     *)

\* Short tuples are sequences.
LEMMA TupleIsSeq ==
  ASSUME NEW a, NEW b, NEW c, NEW d
  PROVE  /\ \E S : <<a>> \in Seq(S)
         /\ \E S : <<a, b>> \in Seq(S)
         /\ \E S : <<a, b, c>> \in Seq(S)
         /\ \E S : <<a, b, c, d>> \in Seq(S)
<1>1. /\ <<a>> \in Seq({a, b, c, d}) /\ <<a, b>> \in Seq({a, b, c, d})
      /\ <<a, b, c>> \in Seq({a, b, c, d}) /\ <<a, b, c, d>> \in Seq({a, b, c, d})
  OBVIOUS
<1>. QED BY <1>1

\* The names that many of the types share.
MetaNames == {"meta"} \X {"txID", "timestamp", "fromAddress", "finalized"}
BaseNames == {<<"top", "eventID">>, MetaName} \cup MetaNames
TokenNames(at) == {at} \X {"tokenID", "amount"}
GatewayNames ==
  {"message"} \X {"messageID", "sourceChain", "sourceAddress", "destinationAddress", "payloadHash"}

\* The names of a Token are those of its object.
LEMMA TokenPart == \A at : Part(Token(at), TokenNames(at), {})
<1>1. ASSUME NEW at PROVE \E S : Token(at) \in Seq(S)
  BY TupleIsSeq DEF Token
<1>. QED BY <1>1 DEF Part, F, SameName, TokenNames, Token

\* The names of a GatewayV2Message.
LEMMA GatewayPart == Part(GatewayV2Message, GatewayNames, {})
<1>1. GatewayV2Message \in Seq({GatewayV2Message[i] : i \in 1..5})
  BY DEF GatewayV2Message
<1>2. \E S : GatewayV2Message \in Seq(S)
  BY <1>1
<1>. QED BY <1>2 DEF Part, F, SameName, GatewayNames, GatewayV2Message

\* What every event begins with: its id, the metadata object and the fields of
\* that, before those an event adds to it.
LEMMA BasePart ==
  ASSUME NEW extra, NEW X, Part(extra, X, {}), X \cap BaseNames = {}
  PROVE  Part(EventBase(extra), BaseNames \cup X, {})
<1> DEFINE meta == <<F("meta", "txID", "plain", "optional"), F("meta", "timestamp", "utc", "optional"),
                     F("meta", "fromAddress", "plain", "optional"),
                      F("meta", "finalized", "plain", "optional")>>
           top == <<F("top", "eventID", "plain", "required"), F("top", "meta", "object", "optional")>>
           topNames == {<<"top", "eventID">>, MetaName}
<1>1. Part(meta, MetaNames, {})
  <2>1. \E S : meta \in Seq(S)
    BY TupleIsSeq
  <2>. QED BY <2>1 DEF Part, F, SameName, MetaNames
<1>2. Part(top, topNames, {})
  <2>1. \E S : top \in Seq(S)
    BY TupleIsSeq
  <2>. QED BY <2>1 DEF Part, F, SameName, MetaName
<1>3. EventBase(extra) = top \o (meta \o extra)
  BY DEF EventBase, EventMetadata
<1> HIDE DEF meta, top
<1>4. MetaNames \cap X = {} /\ MetaName \notin X
  BY DEF BaseNames
<1>5. Part(meta \o extra, MetaNames \cup X, {})
  BY <1>1, <1>4, PartsJoined
<1>6. topNames \cap (MetaNames \cup X) = {} /\ MetaName \notin MetaNames \cup X
  BY DEF BaseNames, MetaNames, MetaName
<1> HIDE DEF topNames
<1>7. Part(top \o (meta \o extra), topNames \cup (MetaNames \cup X), {})
  BY <1>2, <1>5, <1>6, PartsJoined
<1>8. topNames \cup (MetaNames \cup X) = BaseNames \cup X
  BY DEF BaseNames, topNames
<1>. QED BY <1>3, <1>7, <1>8

\* The fields of GasCreditEvent have names of their own.
LEMMA GasCreditPart == \E names : Part(GasCreditEvent, names, {})
<1> DEFINE own == <<F("top", "messageID", "plain", "required"),
                    F("top", "refundAddress", "plain", "required")>>
           ownNames == {"top"} \X {"messageID", "refundAddress"}
<1>1. Part(<<>>, {}, {})
  BY EmptySeq DEF Part
<1>2. Part(EventBase(<<>>), BaseNames \cup {}, {})
  BY <1>1, BasePart DEF BaseNames, MetaNames, MetaName
<1>3. Part(own, ownNames, {})
  <2>1. \E S : own \in Seq(S)
    BY TupleIsSeq
  <2>. QED BY <2>1 DEF Part, F, SameName
<1>4. Part(EventBase(<<>>) \o own, BaseNames \cup {} \cup ownNames, {})
  BY <1>2, <1>3, PartsJoined DEF BaseNames, MetaNames, MetaName, TokenNames, GatewayNames
<1>5. Part(Token("payment"), TokenNames("payment"), {})
  BY TokenPart
<1>6. Part(EventBase(<<>>) \o own \o Token("payment"),
          BaseNames \cup {} \cup ownNames \cup TokenNames("payment"), {})
  BY <1>4, <1>5, PartsJoined DEF BaseNames, MetaNames, MetaName, TokenNames, GatewayNames
<1>. QED BY <1>6 DEF GasCreditEvent

\* The fields of GasRefundedEvent have names of their own.
LEMMA GasRefundedPart == \E names : Part(GasRefundedEvent, names, {})
<1> DEFINE own == <<F("top", "messageID", "plain", "required"),
                    F("top", "recipientAddress", "plain", "required")>>
           ownNames == {"top"} \X {"messageID", "recipientAddress"}
<1>1. Part(<<>>, {}, {})
  BY EmptySeq DEF Part
<1>2. Part(EventBase(<<>>), BaseNames \cup {}, {})
  BY <1>1, BasePart DEF BaseNames, MetaNames, MetaName
<1>3. Part(own, ownNames, {})
  <2>1. \E S : own \in Seq(S)
    BY TupleIsSeq
  <2>. QED BY <2>1 DEF Part, F, SameName
<1>4. Part(EventBase(<<>>) \o own, BaseNames \cup {} \cup ownNames, {})
  BY <1>2, <1>3, PartsJoined DEF BaseNames, MetaNames, MetaName, TokenNames, GatewayNames
<1>5. Part(Token("refundedAmount"), TokenNames("refundedAmount"), {})
  BY TokenPart
<1>6. Part(EventBase(<<>>) \o own \o Token("refundedAmount"),
          BaseNames \cup {} \cup ownNames \cup TokenNames("refundedAmount"), {})
  BY <1>4, <1>5, PartsJoined DEF BaseNames, MetaNames, MetaName, TokenNames, GatewayNames
<1>7. Part(Token("cost"), TokenNames("cost"), {})
  BY TokenPart
<1>8. Part(EventBase(<<>>) \o own \o Token("refundedAmount") \o Token("cost"),
          BaseNames \cup {} \cup ownNames \cup TokenNames("refundedAmount") \cup TokenNames("cost"), {})
  BY <1>6, <1>7, PartsJoined DEF BaseNames, MetaNames, MetaName, TokenNames, GatewayNames
<1>. QED BY <1>8 DEF GasRefundedEvent

\* The fields of CallEvent have names of their own.
LEMMA CallPart == \E names : Part(CallEvent, names, {})
<1> DEFINE own == <<F("top", "destinationChain", "plain", "required"),
                    F("top", "payload", "bytes", "required")>>
           ownNames == {"top"} \X {"destinationChain", "payload"}
<1>1. Part(CallEventMetadata, {"meta"} \X {"parentMessageID"}, {})
  <2>1. \E S : CallEventMetadata \in Seq(S)
    BY TupleIsSeq DEF CallEventMetadata
  <2>. QED BY <2>1 DEF Part, F, SameName, CallEventMetadata
<1>2. Part(EventBase(CallEventMetadata), BaseNames \cup ({"meta"} \X {"parentMessageID"}), {})
  BY <1>1, BasePart DEF BaseNames, MetaNames, MetaName
<1>3. Part(GatewayV2Message, GatewayNames, {})
  BY GatewayPart
<1>4. Part(EventBase(CallEventMetadata) \o GatewayV2Message,
          BaseNames \cup ({"meta"} \X {"parentMessageID"}) \cup GatewayNames, {})
  BY <1>2, <1>3, PartsJoined DEF BaseNames, MetaNames, MetaName, TokenNames, GatewayNames
<1>5. Part(own, ownNames, {})
  <2>1. \E S : own \in Seq(S)
    BY TupleIsSeq
  <2>. QED BY <2>1 DEF Part, F, SameName
<1>6. Part(EventBase(CallEventMetadata) \o GatewayV2Message \o own,
          BaseNames \cup ({"meta"} \X {"parentMessageID"}) \cup GatewayNames \cup ownNames, {})
  BY <1>4, <1>5, PartsJoined DEF BaseNames, MetaNames, MetaName, TokenNames, GatewayNames
<1>. QED BY <1>6 DEF CallEvent

\* The fields of MessageApprovedEvent have names of their own.
LEMMA MessageApprovedPart == \E names : Part(MessageApprovedEvent, names, {})
<1>1. Part(MessageApprovedEventMetadata, {"meta"} \X {"commandID"}, {})
  <2>1. \E S : MessageApprovedEventMetadata \in Seq(S)
    BY TupleIsSeq DEF MessageApprovedEventMetadata
  <2>. QED BY <2>1 DEF Part, F, SameName, MessageApprovedEventMetadata
<1>2. Part(EventBase(MessageApprovedEventMetadata), BaseNames \cup ({"meta"} \X {"commandID"}), {})
  BY <1>1, BasePart DEF BaseNames, MetaNames, MetaName
<1>3. Part(GatewayV2Message, GatewayNames, {})
  BY GatewayPart
<1>4. Part(EventBase(MessageApprovedEventMetadata) \o GatewayV2Message,
          BaseNames \cup ({"meta"} \X {"commandID"}) \cup GatewayNames, {})
  BY <1>2, <1>3, PartsJoined DEF BaseNames, MetaNames, MetaName, TokenNames, GatewayNames
<1>5. Part(Token("cost"), TokenNames("cost"), {})
  BY TokenPart
<1>6. Part(EventBase(MessageApprovedEventMetadata) \o GatewayV2Message \o Token("cost"),
          BaseNames \cup ({"meta"} \X {"commandID"}) \cup GatewayNames \cup TokenNames("cost"), {})
  BY <1>4, <1>5, PartsJoined DEF BaseNames, MetaNames, MetaName, TokenNames, GatewayNames
<1>. QED BY <1>6 DEF MessageApprovedEvent

\* The fields of MessageExecutedEvent have names of their own.
LEMMA MessageExecutedPart == \E names : Part(MessageExecutedEvent, names, {})
<1> DEFINE own == <<F("top", "messageID", "plain", "required"),
                    F("top", "sourceChain", "plain", "required"),
                    F("top", "status", "plain", "required")>>
           ownNames == {"top"} \X {"messageID", "sourceChain", "status"}
<1>1. Part(MessageExecutedEventMetadata, {"meta"} \X {"commandID", "childMessageIDs"}, {})
  <2>1. \E S : MessageExecutedEventMetadata \in Seq(S)
    BY TupleIsSeq DEF MessageExecutedEventMetadata
  <2>. QED BY <2>1 DEF Part, F, SameName, MessageExecutedEventMetadata
<1>2. Part(EventBase(MessageExecutedEventMetadata),
           BaseNames \cup ({"meta"} \X {"commandID", "childMessageIDs"}), {})
  BY <1>1, BasePart DEF BaseNames, MetaNames, MetaName
<1>3. Part(own, ownNames, {})
  <2>1. \E S : own \in Seq(S)
    BY TupleIsSeq
  <2>. QED BY <2>1 DEF Part, F, SameName
<1>4. Part(EventBase(MessageExecutedEventMetadata) \o own,
          BaseNames \cup ({"meta"} \X {"commandID", "childMessageIDs"}) \cup ownNames, {})
  BY <1>2, <1>3, PartsJoined DEF BaseNames, MetaNames, MetaName, TokenNames, GatewayNames
<1>5. Part(Token("cost"), TokenNames("cost"), {})
  BY TokenPart
<1>6. Part(EventBase(MessageExecutedEventMetadata) \o own \o Token("cost"),
          BaseNames \cup ({"meta"} \X {"commandID", "childMessageIDs"}) \cup ownNames \cup TokenNames("cost"), {})
  BY <1>4, <1>5, PartsJoined DEF BaseNames, MetaNames, MetaName, TokenNames, GatewayNames
<1>. QED BY <1>6 DEF MessageExecutedEvent

\* The fields of SignersRotatedEvent have names of their own.
LEMMA SignersRotatedPart == \E names : Part(SignersRotatedEvent, names, {})
<1>1. Part(SignersRotatedMetadata, {"meta"} \X {"signerHash", "epoch"}, {})
  <2>1. \E S : SignersRotatedMetadata \in Seq(S)
    BY TupleIsSeq DEF SignersRotatedMetadata
  <2>. QED BY <2>1 DEF Part, F, SameName, SignersRotatedMetadata
<1>2. Part(EventBase(SignersRotatedMetadata), BaseNames \cup ({"meta"} \X {"signerHash", "epoch"}), {})
  BY <1>1, BasePart DEF BaseNames, MetaNames, MetaName
<1>3. Part(Token("cost"), TokenNames("cost"), {})
  BY TokenPart
<1>4. Part(EventBase(SignersRotatedMetadata) \o Token("cost"),
          BaseNames \cup ({"meta"} \X {"signerHash", "epoch"}) \cup TokenNames("cost"), {})
  BY <1>2, <1>3, PartsJoined DEF BaseNames, MetaNames, MetaName, TokenNames, GatewayNames
<1>. QED BY <1>4 DEF SignersRotatedEvent

\* What every task begins with.
LEMMA TaskPart ==
  ASSUME NEW task, NEW X, Part(task, X, {}), X \cap ({"top"} \X {"id", "timestamp", "meta"}) = {}
  PROVE  \E names : Part(TaskItem(task), names, {})
<1> DEFINE top == <<F("top", "id", "plain", "required"), F("top", "timestamp", "utc", "required")>>
           topNames == {"top"} \X {"id", "timestamp"}
<1>1. Part(top, topNames, {})
  <2>1. \E S : top \in Seq(S)
    BY TupleIsSeq
  <2>. QED BY <2>1 DEF Part, F, SameName
<1>2. topNames \cap X = {} /\ MetaName \notin X
  BY DEF MetaName
<1> HIDE DEF top, topNames
<1>3. Part(top \o task, topNames \cup X, {})
  BY <1>1, <1>2, PartsJoined
<1>. QED BY <1>3 DEF TaskItem, top

\* The fields of MessageTask have names of their own.
LEMMA MessageTaskPart == \E names : Part(MessageTask, names, {})
<1> DEFINE own == <<F("task", "payload", "bytes", "required")>>
           ownNames == {"task"} \X {"payload"}
<1>1. Part(GatewayV2Message, GatewayNames, {})
  BY GatewayPart
<1>2. Part(own, ownNames, {})
  <2>1. \E S : own \in Seq(S)
    BY TupleIsSeq
  <2>. QED BY <2>1 DEF Part, F, SameName
<1>3. Part(GatewayV2Message \o own, GatewayNames \cup ownNames, {})
  BY <1>1, <1>2, PartsJoined DEF BaseNames, MetaNames, MetaName, TokenNames, GatewayNames
<1>4. \E names : Part(TaskItem(GatewayV2Message \o own), names, {})
  BY <1>3, TaskPart DEF TokenNames, GatewayNames
<1>. QED BY <1>4 DEF MessageTask, Payload

\* The fields of GatewayTransactionTask have names of their own.
LEMMA GatewayTransactionPart == \E names : Part(GatewayTransactionTask, names, {})
<1> DEFINE own == <<F("task", "executeData", "bytes", "required")>>
           ownNames == {"task"} \X {"executeData"}
<1>1. Part(own, ownNames, {})
  <2>1. \E S : own \in Seq(S)
    BY TupleIsSeq
  <2>. QED BY <2>1 DEF Part, F, SameName
<1>2. \E names : Part(TaskItem(own), names, {})
  BY <1>1, TaskPart DEF TokenNames, GatewayNames
<1>. QED BY <1>2 DEF GatewayTransactionTask

\* The fields of ExecuteTask have names of their own.
LEMMA ExecutePart == \E names : Part(ExecuteTask, names, {})
<1> DEFINE own == <<F("task", "payload", "bytes", "required")>>
           ownNames == {"task"} \X {"payload"}
<1>1. Part(GatewayV2Message, GatewayNames, {})
  BY GatewayPart
<1>2. Part(own, ownNames, {})
  <2>1. \E S : own \in Seq(S)
    BY TupleIsSeq
  <2>. QED BY <2>1 DEF Part, F, SameName
<1>3. Part(GatewayV2Message \o own, GatewayNames \cup ownNames, {})
  BY <1>1, <1>2, PartsJoined DEF BaseNames, MetaNames, MetaName, TokenNames, GatewayNames
<1>4. Part(Token("availableGasBalance"), TokenNames("availableGasBalance"), {})
  BY TokenPart
<1>5. Part(GatewayV2Message \o own \o Token("availableGasBalance"),
          GatewayNames \cup ownNames \cup TokenNames("availableGasBalance"), {})
  BY <1>3, <1>4, PartsJoined DEF BaseNames, MetaNames, MetaName, TokenNames, GatewayNames
<1>6. \E names : Part(TaskItem(GatewayV2Message \o own \o Token("availableGasBalance")), names, {})
  BY <1>5, TaskPart DEF TokenNames, GatewayNames
<1>. QED BY <1>6 DEF ExecuteTask, Payload

\* The fields of RefundTask have names of their own.
LEMMA RefundPart == \E names : Part(RefundTask, names, {})
<1> DEFINE own == <<F("task", "refundRecipientAddress", "plain", "required")>>
           ownNames == {"task"} \X {"refundRecipientAddress"}
<1>1. Part(GatewayV2Message, GatewayNames, {})
  BY GatewayPart
<1>2. Part(own, ownNames, {})
  <2>1. \E S : own \in Seq(S)
    BY TupleIsSeq
  <2>. QED BY <2>1 DEF Part, F, SameName
<1>3. Part(GatewayV2Message \o own, GatewayNames \cup ownNames, {})
  BY <1>1, <1>2, PartsJoined DEF BaseNames, MetaNames, MetaName, TokenNames, GatewayNames
<1>4. Part(Token("remainingGasBalance"), TokenNames("remainingGasBalance"), {})
  BY TokenPart
<1>5. Part(GatewayV2Message \o own \o Token("remainingGasBalance"),
          GatewayNames \cup ownNames \cup TokenNames("remainingGasBalance"), {})
  BY <1>3, <1>4, PartsJoined DEF BaseNames, MetaNames, MetaName, TokenNames, GatewayNames
<1>6. \E names : Part(TaskItem(GatewayV2Message \o own \o Token("remainingGasBalance")), names, {})
  BY <1>5, TaskPart DEF TokenNames, GatewayNames
<1>. QED BY <1>6 DEF RefundTask

\* The names of CANNOT_EXECUTE_MESSAGE/V2, and its pairs of one name.
V2Names == BaseNames \cup ({"meta"} \X {"taskItemID"})
             \cup ({"top"} \X {"messageID", "sourceChain", "reason", "details"})
V2Twice == {<<4, 8>>, <<5, 7>>}

\* The one type with two fields of one name, twice.
LEMMA CannotExecutePart == Part(CannotExecuteMessageEventV2, V2Names, V2Twice)
<1> DEFINE meta == EventMetadata(CannotExecuteMessageEventV2Metadata)
           metaNames == {"meta"} \X {"txID", "timestamp", "fromAddress", "finalized", "taskItemID"}
           top == <<F("top", "eventID", "plain", "required"), F("top", "meta", "object", "optional")>>
           topNames == {<<"top", "eventID">>, MetaName}
           own == <<F("top", "messageID", "plain", "required"), F("top", "sourceChain", "plain", "required"),
                    F("top", "reason", "plain", "required"), F("top", "details", "plain", "required")>>
           ownNames == {"top"} \X {"messageID", "sourceChain", "reason", "details"}
<1>1. Part(meta, metaNames, {<<2, 6>>, <<3, 5>>})
  <2>1. meta \in Seq({meta[i] : i \in 1..7}) /\ Len(meta) = 7
    BY DEF EventMetadata, CannotExecuteMessageEventV2Metadata
  <2>2. /\ meta[1] = F("meta", "txID", "plain", "optional")
        /\ meta[2] = F("meta", "timestamp", "utc", "optional")
        /\ meta[3] = F("meta", "fromAddress", "plain", "optional")
        /\ meta[4] = F("meta", "finalized", "plain", "optional")
        /\ meta[5] = F("meta", "fromAddress", "plain", "optional")
        /\ meta[6] = F("meta", "timestamp", "utc", "optional")
        /\ meta[7] = F("meta", "taskItemID", "plain", "required")
    BY DEF EventMetadata, CannotExecuteMessageEventV2Metadata
  <2>3. \E S : meta \in Seq(S)
    BY <2>1
  <2> HIDE DEF meta
  <2>. QED BY <2>1, <2>2, <2>3 DEF Part, F, SameName
<1>2. Part(top, topNames, {}) /\ Len(top) = 2
  <2>1. \E S : top \in Seq(S)
    BY TupleIsSeq
  <2>. QED BY <2>1 DEF Part, F, SameName, MetaName
<1>3. Part(own, ownNames, {})
  <2>1. \E S : own \in Seq(S)
    BY TupleIsSeq
  <2>. QED BY <2>1 DEF Part, F, SameName
<1>4. CannotExecuteMessageEventV2 = (top \o meta) \o own
  BY DEF CannotExecuteMessageEventV2, EventBase
<1>5. /\ topNames \cap metaNames = {} /\ MetaName \notin metaNames
      /\ (topNames \cup metaNames) \cap ownNames = {} /\ MetaName \notin ownNames
  BY DEF MetaName
<1>6. {} \cup {<<q[1] + Len(top), q[2] + Len(top)>> : q \in {<<2, 6>>, <<3, 5>>}} = V2Twice
  <2> HIDE DEF top
  <2>. QED BY <1>2 DEF V2Twice
<1>7. (topNames \cup metaNames) \cup ownNames = V2Names
  BY DEF V2Names, BaseNames, MetaNames
<1> HIDE DEF meta, metaNames, top, topNames, own, ownNames
<1>8. Part(top \o meta, topNames \cup metaNames, V2Twice)
  BY <1>1, <1>2, <1>5, <1>6, PartsJoinedAny
<1>9. Part((top \o meta) \o own, (topNames \cup metaNames) \cup ownNames, V2Twice)
  BY <1>3, <1>5, <1>8, PartsJoined
<1>. QED BY <1>4, <1>7, <1>9

\* The two fields that are there twice, and what stands before them.
LEMMA TwiceFields ==
  LET fields == CannotExecuteMessageEventV2
  IN /\ Len(fields) = 13
     /\ fields[4].kind = "utc" /\ fields[8].kind = "utc" /\ fields[8].need = "optional"
     /\ fields[5].kind = "plain" /\ fields[7].kind = "plain" /\ fields[7].need = "optional"
     /\ SameName(fields, 4, 8) /\ SameName(fields, 5, 7)
     /\ \A j \in 1..6 : fields[j].key = fields[7].key => j = 5
     /\ \A j \in 1..7 : fields[j].key = fields[8].key => j = 4
<1> DEFINE fields == CannotExecuteMessageEventV2
<1>1. /\ fields[1] = F("top", "eventID", "plain", "required")
      /\ fields[2] = F("top", "meta", "object", "optional")
      /\ fields[3] = F("meta", "txID", "plain", "optional")
      /\ fields[4] = F("meta", "timestamp", "utc", "optional")
      /\ fields[5] = F("meta", "fromAddress", "plain", "optional")
      /\ fields[6] = F("meta", "finalized", "plain", "optional")
      /\ fields[7] = F("meta", "fromAddress", "plain", "optional")
      /\ fields[8] = F("meta", "timestamp", "utc", "optional")
  BY DEF CannotExecuteMessageEventV2, EventBase, EventMetadata, CannotExecuteMessageEventV2Metadata
<1>2. Len(fields) = 13
  BY DEF CannotExecuteMessageEventV2, EventBase, EventMetadata, CannotExecuteMessageEventV2Metadata
<1> HIDE DEF fields
<1>3. \A j \in 1..6 : fields[j].key = fields[7].key => j = 5
  BY <1>1 DEF F
<1>4. \A j \in 1..7 : fields[j].key = fields[8].key => j = 4
  BY <1>1 DEF F
<1>5. SameName(fields, 4, 8) /\ SameName(fields, 5, 7)
  BY <1>1 DEF F, SameName
<1>6. /\ fields[4].kind = "utc" /\ fields[8].kind = "utc" /\ fields[8].need = "optional"
      /\ fields[5].kind = "plain" /\ fields[7].kind = "plain" /\ fields[7].need = "optional"
  BY <1>1 DEF F
<1>. QED BY <1>2, <1>3, <1>4, <1>5, <1>6 DEF fields

\* The tag of the type that has fields of one name.
V2Tag == "CANNOT_EXECUTE_MESSAGE/V2"

\* What is shown of each type holds for the type of every tag.
LEMMA TypesFit ==
  ASSUME NEW tag \in Tags
  PROVE  /\ tag # V2Tag => \E names : Part(FieldsOf[tag], names, {})
         /\ tag = V2Tag => FieldsOf[tag] = CannotExecuteMessageEventV2
<1>1. /\ DOMAIN Variants = 1..12
      /\ Variants[1] = <<"GAS_CREDIT", GasCreditEvent>> /\ Variants[2] = <<"GAS_REFUNDED", GasRefundedEvent>>
      /\ Variants[3] = <<"CALL", CallEvent>> /\ Variants[4] = <<"MESSAGE_APPROVED", MessageApprovedEvent>>
      /\ Variants[5] = <<"MESSAGE_EXECUTED", MessageExecutedEvent>>
      /\ Variants[6] = <<V2Tag, CannotExecuteMessageEventV2>>
      /\ Variants[7] = <<"SIGNERS_ROTATED", SignersRotatedEvent>>
      /\ Variants[8] = <<"CONSTRUCT_PROOF", MessageTask>> /\ Variants[9] = <<"VERIFY", MessageTask>>
      /\ Variants[10] = <<"GATEWAY_TX", GatewayTransactionTask>>
      /\ Variants[11] = <<"EXECUTE", ExecuteTask>> /\ Variants[12] = <<"REFUND", RefundTask>>
  BY DEF Variants, EventVariants, TaskVariants, V2Tag
<1> DEFINE v == CHOOSE w \in DOMAIN Variants : Variants[w][1] = tag
<1>2. v \in 1..12 /\ Variants[v][1] = tag
  BY <1>1 DEF Tags
<1>3. FieldsOf[tag] = Variants[v][2]
  BY DEF FieldsOf
<1> HIDE DEF v
<1>4. CASE v = 6
  BY <1>1, <1>2, <1>3, <1>4
<1>5. CASE v # 6
  <2>1. v \in {1, 2, 3, 4, 5, 7, 8, 9, 10, 11, 12}
    BY <1>2, <1>5
  <2>2. tag # V2Tag
    BY <1>1, <1>2, <2>1 DEF V2Tag
  <2>3. FieldsOf[tag] \in {GasCreditEvent, GasRefundedEvent, CallEvent, MessageApprovedEvent,
          MessageExecutedEvent, SignersRotatedEvent, MessageTask, GatewayTransactionTask, ExecuteTask, RefundTask}
    BY <1>1, <1>3, <2>1
  <2>. QED BY <2>2, <2>3, GasCreditPart, GasRefundedPart, CallPart, MessageApprovedPart, MessageExecutedPart,
              SignersRotatedPart, MessageTaskPart, GatewayTransactionPart, ExecutePart, RefundPart
<1>. QED BY <1>4, <1>5

\* All the types are lists of fields as the encodings take them.
LEMMA TypesLayout ==
  ASSUME NEW tag \in Tags
  PROVE  Layout(FieldsOf[tag])
BY TypesFit, CannotExecutePart, PartLayout

-----------------------------------------------------------------------------
(* Messages: what the queues and the API make of them                      *)

\* Every message a producer builds is one, with its fields' own numbers.
LEMMA BuiltMessage ==
  ASSUME NEW fields, Layout(fields), NEW message \in MessagesOf(fields)
  PROVE  IsMessage(fields, message) /\ \A e \in message : e = <<e[1], e[1]>>
<1> DEFINE present(set) == {i \in DOMAIN fields : fields[i].need = "required" \/ i \in set}
           object(set) == \E j \in set : fields[j].kind = "object"
           numbers(set) == {j \in present(set) : fields[j].at = "meta" => object(set)}
<1>1. PICK set \in SUBSET OptionalOf(fields) : message = {<<i, i>> : i \in numbers(set)}
  BY DEF MessagesOf
<1>2. \A i : i \in Numbers(message) <=> i \in numbers(set)
  <2>1. ASSUME NEW i \in numbers(set) PROVE i \in Numbers(message)
    <3>1. <<i, i>> \in message /\ <<i, i>>[1] = i
      BY <1>1
    <3>. QED BY <3>1 DEF Numbers
  <2>2. ASSUME NEW i \in Numbers(message) PROVE i \in numbers(set)
    BY <1>1 DEF Numbers
  <2>. QED BY <2>1, <2>2
<1>3. \A e \in message : e = <<e[1], e[1]>> /\ e[1] \in DOMAIN fields /\ e[2] = e[1]
  BY <1>1
<1>4. object(set) <=> \E j \in Numbers(message) : fields[j].kind = "object"
  <2>1. ASSUME NEW j \in set, fields[j].kind = "object" PROVE j \in Numbers(message)
    <3>1. j \in DOMAIN fields /\ fields[j].at # "meta"
      BY <2>1 DEF OptionalOf, Layout
    <3>. QED BY <1>2, <3>1
  <2>2. ASSUME NEW j \in Numbers(message), fields[j].kind = "object" PROVE j \in set
    <3>1. j \in present(set)
      BY <1>2
    <3>. QED BY <2>2, <3>1 DEF Layout
  <2>. QED BY <2>1, <2>2
<1>5. \A i \in DOMAIN fields : InScope(fields, i, message) <=> (fields[i].at = "meta" => object(set))
  BY <1>4 DEF InScope
<1> HIDE DEF object
<1>6. WellFormed(fields, message)
  <2>1. \A i \in DOMAIN fields : fields[i].need = "required" => i \in present(set)
    OBVIOUS
  <2>. QED BY <1>2, <1>5, <2>1 DEF WellFormed
<1>. QED BY <1>3, <1>6 DEF IsMessage

\* A type without a name twice comes back from JSON as it was.
LEMMA JsonUnique ==
  ASSUME NEW fields, NEW names, Part(fields, names, {}), NEW message \in MessagesOf(fields)
  PROVE  JsonDecode(fields, JsonEncode(fields, message)) = message
<1>1. Layout(fields)
  BY PartLayout
<1>2. IsMessage(fields, message)
  BY <1>1, BuiltMessage
<1>3. \A i, j \in DOMAIN fields : SameName(fields, j, i) => ~(j < i)
  BY <1>1 DEF Part, Layout
<1>4. \A i \in Numbers(message) : i \in DOMAIN fields
  BY <1>2 DEF IsMessage, Numbers
<1>. QED BY <1>1, <1>2, <1>3, <1>4, JsonRoundTrip

\* The fields a message has of the two inner ones, and those of them whose outer
\* field it has as well.
Inner(message) == {i \in Numbers(message) : i \in {7, 8}}
SetTwice(fields, message) ==
  {i \in Inner(message) : \E j \in Numbers(message) : j < i /\ fields[j].key = fields[i].key}

\* What JSON makes of CANNOT_EXECUTE_MESSAGE/V2: kept without the inner fields,
\* refused with both fields of a name, moved to the outer one otherwise.
LEMMA JsonTwice ==
  ASSUME NEW fields, fields = CannotExecuteMessageEventV2, NEW message \in MessagesOf(fields), NEW read,
         read = JsonDecode(fields, JsonEncode(fields, message))
  PROVE  /\ Inner(message) = {} => read = message
         /\ SetTwice(fields, message) # {} => read = Failed
         /\ Inner(message) # {} /\ SetTwice(fields, message) = {} =>
              {e[2] : e \in read} = Numbers(message) /\ read # message
<1> DEFINE inner == Inner(message)
           twice == SetTwice(fields, message)
<1>0. /\ inner = {i \in Numbers(message) : i \in {7, 8}}
      /\ twice = {i \in inner : \E j \in Numbers(message) : j < i /\ fields[j].key = fields[i].key}
  BY DEF Inner, SetTwice
<1> HIDE DEF inner, twice
<1>1. Part(fields, V2Names, V2Twice) /\ Layout(fields)
  BY CannotExecutePart, PartLayout
<1>2. DOMAIN fields = 1..13 /\ Len(fields) = 13
  BY <1>1, TwiceFields DEF Layout
<1>3. IsMessage(fields, message) /\ \A e \in message : e = <<e[1], e[1]>>
  BY <1>1, BuiltMessage
<1>4. \A i \in Numbers(message) : i \in 1..13
  BY <1>2, <1>3 DEF IsMessage, Numbers
<1>5. \A i, j \in 1..13 : i < j /\ SameName(fields, i, j) => <<i, j>> \in V2Twice
  BY <1>1, <1>2 DEF Part
<1>6. \A i, j : <<i, j>> \in V2Twice => (i = 4 /\ j = 8) \/ (i = 5 /\ j = 7)
  BY DEF V2Twice
<1>7. /\ fields[4].kind = fields[8].kind /\ fields[5].kind = fields[7].kind
      /\ fields[7].need = "optional" /\ fields[8].need = "optional"
      /\ SameName(fields, 4, 8) /\ SameName(fields, 5, 7)
  BY TwiceFields
<1>8. ASSUME inner = {} PROVE read = message
  <2>1. \A i \in Numbers(message) : i # 7 /\ i # 8
    BY <1>0, <1>8
  <2>2. \A i \in Numbers(message) : \A j \in DOMAIN fields : SameName(fields, j, i) => ~(j < i)
    BY <1>2, <1>4, <1>5, <1>6, <2>1
  <2>. QED BY <1>1, <1>3, <2>2, JsonRoundTrip
<1>9. ASSUME twice # {} PROVE read = Failed
  <2>1. PICK i \in inner, j \in Numbers(message) : j < i /\ fields[j].key = fields[i].key
    BY <1>0, <1>9
  <2>2. i \in Numbers(message) /\ i \in {7, 8}
    BY <1>0
  <2>3. j \in 1..13
    BY <1>4
  <2>4. (i = 7 /\ j = 5) \/ (i = 8 /\ j = 4)
    <3>1. CASE i = 7
      <4>1. j \in 1..6 /\ fields[j].key = fields[7].key
        BY <2>1, <2>3, <3>1
      <4>. QED BY <3>1, <4>1, TwiceFields
    <3>2. CASE i = 8
      <4>1. j \in 1..7 /\ fields[j].key = fields[8].key
        BY <2>1, <2>3, <3>2
      <4>. QED BY <3>2, <4>1, TwiceFields
    <3>. QED BY <2>2, <3>1, <3>2
  <2>5. SameName(fields, j, i) /\ j # i
    BY <1>7, <2>4
  <2>6. PICK e \in message, f \in message : e[1] = j /\ f[1] = i
    BY <2>2 DEF Numbers
  <2>. QED BY <2>5, <2>6, JsonRefused
<1>10. ASSUME inner # {}, twice = {}
       PROVE  {e[2] : e \in read} = Numbers(message) /\ read # message
  <2>1. \A j, i \in Numbers(message) : j < i => ~SameName(fields, j, i)
    <3>1. ASSUME NEW j \in Numbers(message), NEW i \in Numbers(message), j < i, SameName(fields, j, i)
          PROVE  FALSE
      <4>1. i \in inner
        BY <1>0, <1>4, <1>5, <1>6, <3>1
      <4>2. fields[j].key = fields[i].key
        BY <3>1 DEF SameName
      <4>. QED BY <1>0, <1>10, <3>1, <4>1, <4>2
    <3>. QED BY <3>1
  <2>2. \A e, f \in message : SameName(fields, e[1], f[1]) => e = f
    <3>1. ASSUME NEW e \in message, NEW f \in message, SameName(fields, e[1], f[1]) PROVE e = f
      <4>1. e[1] \in Numbers(message) /\ f[1] \in Numbers(message) /\ SameName(fields, f[1], e[1])
        BY <3>1 DEF Numbers, SameName
      <4>2. e[1] \in 1..13 /\ f[1] \in 1..13 /\ ~(e[1] < f[1]) /\ ~(f[1] < e[1])
        BY <1>4, <2>1, <3>1, <4>1
      <4>3. e[1] = f[1]
        BY <4>2
      <4>. QED BY <1>3, <4>3 DEF IsMessage
    <3>. QED BY <3>1
  <2>3. \A i \in Numbers(message) :
          /\ First(fields, i) \in 1..13 /\ SameName(fields, First(fields, i), i)
          /\ \A j \in 1..13 : SameName(fields, j, i) => First(fields, i) <= j
    BY <1>1, <1>2, <1>4, TakenOnce DEF First
  <2>4. \A i \in 1..13 : SameName(fields, i, i)
    BY DEF SameName
  <2>5. Alike(fields, message)
    <3>1. ASSUME NEW i \in Numbers(message), First(fields, i) # i
          PROVE  fields[First(fields, i)].kind = fields[i].kind /\ fields[i].need = "optional"
      <4> DEFINE t == First(fields, i)
      <4>1. t \in 1..13 /\ i \in 1..13 /\ t < i /\ SameName(fields, t, i)
        BY <1>4, <2>3, <2>4, <3>1
      <4> HIDE DEF t
      <4>2. (t = 4 /\ i = 8) \/ (t = 5 /\ i = 7)
        BY <1>5, <1>6, <4>1
      <4>3. fields[t].kind = fields[i].kind /\ fields[i].need = "optional"
        BY <1>7, <4>2
      <4>. QED BY <4>3 DEF t
    <3>. QED BY <3>1 DEF Alike
  <2>6. read = {<<First(fields, e[1]), e[2]>> : e \in message}
    BY <1>1, <1>3, <2>2, <2>5, JsonGivesToFirst
  <2>7. \A e \in message : e[2] = e[1]
    BY <1>3
  <2>8. {e[2] : e \in read} = Numbers(message)
    <3>1. {e[2] : e \in read} = {e[2] : e \in message}
      <4>1. ASSUME NEW e \in message PROVE e[2] \in {r[2] : r \in read}
        <5>1. <<First(fields, e[1]), e[2]>> \in read /\ <<First(fields, e[1]), e[2]>>[2] = e[2]
          BY <2>6
        <5>. QED BY <5>1
      <4>2. ASSUME NEW r \in read PROVE r[2] \in {e[2] : e \in message}
        BY <2>6
      <4>. QED BY <4>1, <4>2
    <3>. QED BY <2>7, <3>1 DEF Numbers
  <2>9. PICK e \in message : e[1] \in {7, 8}
    BY <1>0, <1>10 DEF Numbers
  <2>10. First(fields, e[1]) # e[1]
    <3>1. e[1] \in Numbers(message)
      BY DEF Numbers
    <3>2. CASE e[1] = 7
      <4>1. First(fields, 7) <= 5 /\ First(fields, 7) \in 1..13
        BY <1>7, <2>3, <3>1, <3>2
      <4>. QED BY <3>2, <4>1
    <3>3. CASE e[1] = 8
      <4>1. First(fields, 8) <= 4 /\ First(fields, 8) \in 1..13
        BY <1>7, <2>3, <3>1, <3>3
      <4>. QED BY <3>3, <4>1
    <3>. QED BY <2>9, <3>2, <3>3
  <2>11. <<First(fields, e[1]), e[2]>> \in read
    BY <2>6
  <2>12. <<First(fields, e[1]), e[2]>> \notin message
    <3>1. e[2] # First(fields, e[1])
      BY <2>7, <2>10
    <3>. QED BY <1>3, <3>1
  <2>. QED BY <2>8, <2>11, <2>12
<1>. QED BY <1>8, <1>9, <1>10 DEF inner, twice

\* Bytes and JSON are those of the message that was built, until they are read.
MessagesInv ==
  /\ form \in {"none", "built", "queued", "dequeued", "rendered", "parsed"}
  /\ form # "none" => type \in Tags /\ built \in MessagesOf(FieldsOf[type])
  /\ form = "queued" => carried = BorshEncode(FieldsOf[type], built) /\ id = ValueOf(built, 1)
  /\ form = "rendered" => carried = JsonEncode(FieldsOf[type], built)
  /\ QueueKeepsMessage /\ JsonKeepsMessage

\* The consumer reads what was published, by the round trip of Borsh.
LEMMA DequeueKeeps ==
  ASSUME MessagesInv, Dequeue
  PROVE  MessagesInv'
<1>1. type \in Tags /\ built \in MessagesOf(FieldsOf[type])
  BY DEF MessagesInv, Dequeue
<1>2. Layout(FieldsOf[type]) /\ IsMessage(FieldsOf[type], built)
  BY <1>1, TypesLayout, BuiltMessage
<1>3. carried' = built
  <2>1. carried' = BorshDecode(FieldsOf[type], BorshEncode(FieldsOf[type], built))
    BY DEF MessagesInv, Dequeue
  <2>. QED BY <1>2, <2>1, BorshRoundTrip
<1>. QED BY <1>1, <1>3 DEF MessagesInv, Dequeue, QueueKeepsMessage, JsonKeepsMessage

\* What is read from JSON, by the two facts above.
LEMMA ParseKeeps ==
  ASSUME MessagesInv, Parse
  PROVE  MessagesInv'
<1>1. type \in Tags /\ built \in MessagesOf(FieldsOf[type])
  BY DEF MessagesInv, Parse
<1>2. carried' = JsonDecode(FieldsOf[type], JsonEncode(FieldsOf[type], built))
  BY DEF MessagesInv, Parse
<1> DEFINE fields == FieldsOf[type]
           inner == {i \in Numbers(built) : type = "CANNOT_EXECUTE_MESSAGE/V2" /\ i \in {7, 8}}
           twice == {i \in inner : \E j \in Numbers(built) : j < i /\ fields[j].key = fields[i].key}
<1>3. /\ inner = {} => carried' = built
      /\ twice # {} => carried' = Failed
      /\ inner # {} /\ twice = {} => {e[2] : e \in carried'} = Numbers(built) /\ carried' # built
  <2>1. CASE type = V2Tag
    <3>1. inner = {i \in Numbers(built) : i \in {7, 8}}
      BY <2>1 DEF V2Tag
    <3>2. fields = CannotExecuteMessageEventV2
      BY <1>1, <2>1, TypesFit
    <3>3. built \in MessagesOf(fields) /\ carried' = JsonDecode(fields, JsonEncode(fields, built))
      BY <1>1, <1>2
    <3>4. inner = Inner(built) /\ twice = SetTwice(fields, built)
      BY <3>1 DEF Inner, SetTwice
    <3> HIDE DEF fields, inner, twice
    <3>. QED BY <3>2, <3>3, <3>4, JsonTwice
  <2>2. CASE type # V2Tag
    <3>1. inner = {}
      BY <2>2 DEF V2Tag
    <3>2. carried' = built
      BY <1>1, <1>2, <2>2, TypesFit, JsonUnique
    <3>3. twice = {}
      BY <3>1
    <3>. QED BY <3>1, <3>2, <3>3
  <2>. QED BY <2>1, <2>2
<1>4. inner = {} => twice = {}
  OBVIOUS
<1>5. UNCHANGED <<type, built, id>> /\ form' = "parsed"
  BY DEF Parse
<1>6. JsonKeepsMessage'
  <2> DEFINE kept == CASE inner = {} -> carried' = built
                       [] twice # {} -> carried' = Failed
                       [] OTHER -> {e[2] : e \in carried'} = Numbers(built) /\ carried' # built
  <2>1. kept
    <3> HIDE DEF inner, twice
    <3>. QED BY <1>3, <1>4
  <2>. QED BY <1>5, <2>1 DEF JsonKeepsMessage
<1>. QED BY <1>1, <1>5, <1>6 DEF MessagesInv, QueueKeepsMessage

\* Every step of a message keeps the invariant.
LEMMA MessagesStep ==
  ASSUME MessagesInv, [MessagesNext]_messagesVars
  PROVE  MessagesInv'
<1>1. CASE Build
  BY <1>1 DEF MessagesInv, Build, QueueKeepsMessage, JsonKeepsMessage
<1>2. CASE Enqueue
  BY <1>2 DEF MessagesInv, Enqueue, QueueKeepsMessage, JsonKeepsMessage
<1>3. CASE Dequeue
  BY <1>3, DequeueKeeps
<1>4. CASE Render
  BY <1>4 DEF MessagesInv, Render, QueueKeepsMessage, JsonKeepsMessage
<1>5. CASE Parse
  BY <1>5, ParseKeeps
<1>6. CASE UNCHANGED messagesVars
  BY <1>6 DEF MessagesInv, messagesVars, QueueKeepsMessage, JsonKeepsMessage
<1>. QED BY <1>1, <1>2, <1>3, <1>4, <1>5, <1>6 DEF MessagesNext

\* The invariant of the messages holds always.
LEMMA MessagesInvariant == MessagesSpec => []MessagesInv
<1>1. MessagesInit => MessagesInv
  BY DEF MessagesInit, MessagesInv, QueueKeepsMessage, JsonKeepsMessage
<1>2. MessagesInv /\ [MessagesNext]_messagesVars => MessagesInv'
  BY MessagesStep
<1>. QED BY <1>1, <1>2, PTL DEF MessagesSpec

\* The consumer of a queue reads every message exactly as it was published,
\* and its deduplication id is the message's own.
THEOREM QueueKeeps == MessagesSpec => []QueueKeepsMessage
<1>1. MessagesInv => QueueKeepsMessage
  BY DEF MessagesInv
<1>. QED BY <1>1, MessagesInvariant, PTL

\* JSON keeps every message but for the two fields that the metadata of
\* CANNOT_EXECUTE_MESSAGE/V2 names a second time.
THEOREM JsonKeeps == MessagesSpec => []JsonKeepsMessage
<1>1. MessagesInv => JsonKeepsMessage
  BY DEF MessagesInv
<1>. QED BY <1>1, MessagesInvariant, PTL
=============================================================================
