-------------------------------- MODULE Stores --------------------------------
(***************************************************************************)
(* The two implementations of KvStore (infrastructure/src/interfaces.rs):  *)
(* RedisClient (gcp/kv_store.rs) and NatsKvStore (nats/kv_store.rs), with  *)
(* clients that each count up the stored value: get it, add one, update.   *)
(* A failed write may have taken effect.                                   *)
(***************************************************************************)
EXTENDS Naturals

CONSTANTS
  Clients,
  MaxOps                \* bound: operations on the store

ASSUME StoresAssumption == MaxOps \in Nat

VARIABLES
  backend,              \* which store
  stored, revision,     \* its value (0 when there is none) and its writes
  held,                 \* WithRevision as each client has it, or Nothing
  metrics,              \* the counters of RedisClient; NatsKvStore has none
  ops,                  \* operations so far
  effects, failures,    \* history: writes that took effect, operations that failed
  blind                 \* history: a write that compares nothing hit a newer value

storesVars ==
  <<backend, stored, revision, held, metrics, ops, effects, failures, blind>>

Nothing == [value |-> 0, revision |-> 0, version |-> 0, known |-> FALSE]

StoresInit ==
  /\ backend \in {"redis", "nats"}
  /\ stored = 0 /\ revision = 0 /\ held = [c \in Clients |-> Nothing]
  /\ metrics = [reads |-> 0, writes |-> 0, errors |-> 0]
  /\ ops = 0 /\ effects = 0 /\ failures = 0 /\ blind = FALSE

-----------------------------------------------------------------------------
(* Helpers                                                                 *)

Operation == ops < MaxOps /\ ops' = ops + 1

Recorded(reads, writes, errors) ==
  metrics' = IF backend = "redis"
             THEN [reads |-> metrics.reads + reads, writes |-> metrics.writes + writes,
                   errors |-> metrics.errors + errors]
             ELSE metrics

\* Redis has no revisions, the interface gets 0; `version` is history.
WithRevision(value, n) ==
  [value |-> value, revision |-> IF backend = "nats" THEN n ELSE 0, version |-> n, known |-> TRUE]

Write(value) == stored' = value /\ revision' = revision + 1 /\ effects' = effects + 1

NoWrite == UNCHANGED <<stored, revision, effects>>

-----------------------------------------------------------------------------
(* get                                                                     *)

\* map_err is given a block, not a closure: Redis counts an error on every
\* get.  A missing value is not counted as a read.
Get(c) ==
  /\ Operation
  /\ held' = [held EXCEPT ![c] = WithRevision(stored, revision)]
  /\ Recorded(IF stored = 0 THEN 0 ELSE 1, 0, 1)
  /\ UNCHANGED <<backend, failures, blind>> /\ NoWrite

GetFails(c) ==
  /\ Operation
  /\ failures' = failures + 1
  /\ Recorded(0, 0, 1)
  /\ UNCHANGED <<backend, held, blind>> /\ NoWrite

\* The bytes are not a value: inspect_err counts once more.
DecodeFails(c) ==
  /\ Operation
  /\ stored # 0
  /\ failures' = failures + 1
  /\ Recorded(0, 0, 2)
  /\ UNCHANGED <<backend, held, blind>> /\ NoWrite

-----------------------------------------------------------------------------
(* update and put                                                          *)

\* A NATS update names the revision it replaces, put and Redis do not.
Compares(operation) == backend = "nats" /\ operation = "update"

MutAccepted(c, operation) == Compares(operation) => held[c].revision <= revision
Accepted(c, operation) == Compares(operation) => held[c].revision = revision

TakesEffect(c, operation) ==
  /\ Accepted(c, operation)
  /\ Write(held[c].value + 1)
  /\ blind' = (blind \/ (~Compares(operation) /\ held[c].version # revision))

\* The returned revision can be used for the next update.
Succeed(c, operation) ==
  /\ Operation
  /\ held[c].known
  /\ TakesEffect(c, operation)
  /\ held' = [held EXCEPT ![c] = WithRevision(@.value + 1, revision + 1)]
  /\ Recorded(0, 1, 0)
  /\ UNCHANGED <<backend, failures>>

\* Refused, or lost: the request before, or its answer after it took effect.
Fail(c, operation) ==
  /\ Operation
  /\ held[c].known
  /\ TakesEffect(c, operation) \/ (NoWrite /\ UNCHANGED blind)
  /\ failures' = failures + 1
  /\ Recorded(0, 0, 1)
  /\ UNCHANGED <<backend, held>>

-----------------------------------------------------------------------------
(* ping                                                                    *)

PingFails ==
  /\ Operation
  /\ backend = "redis"
  /\ failures' = failures + 1
  /\ Recorded(0, 0, 1)
  /\ UNCHANGED <<backend, held, blind>> /\ NoWrite

StoresNext ==
  \/ \E c \in Clients : Get(c) \/ GetFails(c) \/ DecodeFails(c)
  \/ \E c \in Clients, operation \in {"update", "put"} : Succeed(c, operation) \/ Fail(c, operation)
  \/ PingFails

StoresSpec == StoresInit /\ [][StoresNext]_storesVars

-----------------------------------------------------------------------------
(* Properties                                                              *)

(* No increment is lost or applied twice, also when answers are lost and   *)
(* clients try again, as long as no write that compares nothing meets a    *)
(* newer value: NATS updates never do, Redis updates and every put may.    *)
NoLostUpdate == ~blind => stored = effects

(* The error counter of RedisClient misses no failed operation, on any of  *)
(* the paths that count it.  (It also counts gets that succeed.)           *)
FailuresCounted == backend = "redis" => metrics.errors >= failures
=============================================================================
