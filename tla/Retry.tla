-------------------------------- MODULE Retry --------------------------------
(***************************************************************************)
(* The retries of crates/retry: RetryFn calls one function, RetryPairFn    *)
(* two of them by turns ("primary rpc endpoint and secondary as backup"),  *)
(* waiting for a backoff before every call.  Times are in any unit small   *)
(* enough; `wait` is what was slept since the previous call returned.      *)
(***************************************************************************)
EXTENDS Naturals, FiniteSets

CONSTANTS
  InitialDelay, Factor, MaxDelay,   \* BackoffParrams
  U64Max,                           \* where the delays saturate
  MaxAttempts, RateLimitWait        \* MAX_ATTEMPTS, RATE_LIMIT_WAIT_SECS

ASSUME RetryAssumption ==
  /\ {InitialDelay, MaxDelay, U64Max, RateLimitWait, MaxAttempts} \subseteq Nat
  /\ Factor \in Nat \ {0}
  /\ InitialDelay <= U64Max /\ MaxDelay <= U64Max

VARIABLES
  kind,                 \* which of the two retries
  attempt,              \* iterations taken from the backoff
  backoff,              \* the delay stored for each path
  aborted, limited,     \* the paths that aborted, that met a rate limit
  wait,                 \* slept since the last call returned
  retry,                \* "waiting", "calling" or the result
  heard, calls          \* history: the last answer of each path, its calls

retryVars ==
  <<kind, attempt, backoff, aborted, limited, wait, retry, heard, calls>>

Paths == IF kind = "pair" THEN {"first", "second"} ELSE {"first"}

AnswersOf == {"ok", "aborted", "limited", "failed"}
Results == {"ok", "aborted", "max_attempts"}

\* The second path starts without a delay.
BackoffInit == [first |-> InitialDelay, second |-> 0]

RetryInit ==
  /\ kind \in {"single", "pair"}
  /\ attempt = 0 /\ wait = 0 /\ retry = "waiting"
  /\ backoff = BackoffInit
  /\ aborted = {} /\ limited = {}
  /\ heard = [p \in {"first", "second"} |-> "none"]
  /\ calls = [p \in {"first", "second"} |-> 0]

-----------------------------------------------------------------------------
(* The backoff                                                             *)

AtMost(limit, n) == IF n > limit THEN limit ELSE n

\* A factor drawn from [0.5, 1.5), rounded down to an u64.
Jitter(n) ==
  IF n = 0 THEN {0} ELSE {AtMost(U64Max, m) : m \in (n \div 2)..((3 * n - 1) \div 2)}

\* The iterator flips the path on every call of next().
PathOf(n) == IF kind = "pair" /\ n % 2 = 1 THEN "second" ELSE "first"

\* Both paths grow from the delay stored for the first one.
Grown(path) == AtMost(U64Max, backoff.first * Factor)

NextPairBackoff(path) ==
  \E delay \in Jitter(Grown(path)) : backoff' = [backoff EXCEPT ![path] = delay]

\* tokio_retry: the initial delay is also the base of the exponent, and the
\* delay stays where it is once it reaches the maximum.
NextSingleBackoff ==
  backoff' = IF backoff.first * Factor > MaxDelay
             THEN backoff
             ELSE [backoff EXCEPT !.first = AtMost(U64Max, @ * InitialDelay)]

Delay(path) ==
  AtMost(MaxDelay, IF kind = "pair" THEN backoff[path] ELSE backoff.first * Factor)

-----------------------------------------------------------------------------
(* One iteration, up to the call of the path whose turn it is              *)

MutSlept(path) ==
  /\ wait' = IF path \in limited /\ kind = "pair" THEN RateLimitWait ELSE wait + Delay(path)
  /\ UNCHANGED limited

Slept(path) ==
  /\ wait' = IF path \in limited THEN RateLimitWait ELSE wait + Delay(path)
  /\ limited' = limited \ {path}

\* A break where the code continues.
MutIterate ==
  LET path == PathOf(attempt) IN
  /\ retry = "waiting" /\ attempt < MaxAttempts
  /\ attempt' = attempt + 1
  /\ IF kind = "pair" THEN NextPairBackoff(path) ELSE NextSingleBackoff
  /\ IF path \in aborted
     THEN retry' = "max_attempts" /\ UNCHANGED <<wait, limited>>
     ELSE retry' = "calling" /\ Slept(path)
  /\ UNCHANGED <<kind, aborted, heard, calls>>

\* An aborted path still takes its turn, and nothing is called.
Iterate ==
  LET path == PathOf(attempt) IN
  /\ retry = "waiting" /\ attempt < MaxAttempts
  /\ attempt' = attempt + 1
  /\ IF kind = "pair" THEN NextPairBackoff(path) ELSE NextSingleBackoff
  /\ IF path \in aborted
     THEN UNCHANGED <<retry, wait, limited>>
     ELSE retry' = "calling" /\ Slept(path)
  /\ UNCHANGED <<kind, aborted, heard, calls>>

GiveUp ==
  /\ retry = "waiting" /\ attempt = MaxAttempts
  /\ retry' = "max_attempts"
  /\ UNCHANGED <<kind, attempt, backoff, aborted, limited, wait, heard, calls>>

-----------------------------------------------------------------------------
(* What the called function returns                                        *)

Heard(path, answer) ==
  /\ retry = "calling"
  /\ heard' = [heard EXCEPT ![path] = answer]
  /\ calls' = [calls EXCEPT ![path] = @ + 1]
  /\ UNCHANGED <<kind, attempt, backoff>>

Succeeds ==
  /\ Heard(PathOf(attempt - 1), "ok")
  /\ retry' = "ok"
  /\ UNCHANGED <<aborted, limited, wait>>

\* The first path that aborts ends the pair.
MutAborts ==
  LET path == PathOf(attempt - 1) IN
  /\ Heard(path, "aborted")
  /\ aborted' = aborted \cup {path} /\ wait' = 0
  /\ retry' = "aborted"
  /\ UNCHANGED limited

\* Aborted(err) is returned once every path has aborted.
Aborts ==
  LET path == PathOf(attempt - 1) IN
  /\ Heard(path, "aborted")
  /\ aborted' = aborted \cup {path} /\ wait' = 0
  /\ retry' = IF aborted' = Paths THEN "aborted" ELSE "waiting"
  /\ UNCHANGED limited

\* The pair remembers the limit for the path's next turn, the single retry
\* sleeps at once and adds its backoff to that.
RateLimited ==
  LET path == PathOf(attempt - 1) IN
  /\ Heard(path, "limited")
  /\ limited' = IF kind = "pair" THEN limited \cup {path} ELSE limited
  /\ wait' = IF kind = "pair" THEN 0 ELSE RateLimitWait
  /\ retry' = "waiting"
  /\ UNCHANGED aborted

Fails ==
  /\ Heard(PathOf(attempt - 1), "failed")
  /\ retry' = "waiting" /\ wait' = 0
  /\ UNCHANGED <<aborted, limited>>

RetryNext ==
  Iterate \/ GiveUp \/ Succeeds \/ Aborts \/ RateLimited \/ Fails

RetrySpec == RetryInit /\ [][RetryNext]_retryVars

-----------------------------------------------------------------------------
(* Properties                                                              *)

RetryTypeOK ==
  /\ kind \in {"single", "pair"}
  /\ attempt \in 0..MaxAttempts
  /\ backoff \in [first : 0..U64Max, second : 0..U64Max]
  /\ aborted \subseteq Paths /\ limited \subseteq Paths
  /\ wait \in Nat
  /\ retry \in {"waiting", "calling"} \cup Results
  /\ heard \in [{"first", "second"} -> AnswersOf \cup {"none"}]
  /\ calls \in [{"first", "second"} -> 0..MaxAttempts]

(* The wait before a call follows from what that path answered the last    *)
(* time, over the turns of the other one: the rate limit's wait after a    *)
(* rate limit, and at most the maximal delay after anything else.          *)
WaitFits ==
  retry = "calling" =>
    IF heard[PathOf(attempt - 1)] = "limited"
    THEN wait \in RateLimitWait..(RateLimitWait + MaxDelay)
    ELSE wait <= MaxDelay

(* Aborted is returned as soon as, and only when, the last answer of every *)
(* path was not recoverable: one aborted path does not stop the backup.    *)
AbortedIffAllAborted == retry = "aborted" <=> \A p \in Paths : heard[p] = "aborted"

(* Giving up after max_attempts means that every path that did not abort   *)
(* was called on each of its turns, and no path was given the turns of an  *)
(* aborted one: with two paths, half of the attempts each.                 *)
EachPathGetsItsTurns ==
  retry = "max_attempts" =>
    \A p \in Paths :
      heard[p] # "aborted" => calls[p] = Cardinality({n \in 0..(MaxAttempts - 1) : PathOf(n) = p})

(* "Two routes of execution with independent backoff applied", says the    *)
(* comment of BackoffPairIterator: the delay stored for a path grows from  *)
(* the one stored for it before, from the initial one if it had none.      *)
IndependentBackoff ==
  [][kind = "pair" => \A p \in Paths :
       LET own == IF backoff[p] = 0 THEN InitialDelay ELSE backoff[p]
       IN  backoff'[p] # backoff[p] => backoff'[p] \in Jitter(AtMost(U64Max, own * Factor))]_retryVars
=============================================================================
