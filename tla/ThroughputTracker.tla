-------------------------- MODULE ThroughputTracker --------------------------
(***************************************************************************)
(* The throughput gauge of the Google Pub/Sub consumer: ThroughputTracker  *)
(* (infrastructure/src/tracking.rs), counted up by the handlers of the     *)
(* messages (Metrics::record_ack, gcp/consumer.rs) and read by the gauge's *)
(* callback, which the one periodic reader of the meter provider runs.     *)
(* No lock: every step is one atomic operation.                            *)
(***************************************************************************)
EXTENDS Naturals

CONSTANTS
  MaxMessages,          \* bound: messages acknowledged
  MaxClock              \* bound: milliseconds

ASSUME TrackerAssumption == {MaxMessages, MaxClock} \subseteq Nat

VARIABLES
  clock,                \* current_time_millis()
  processed, lastCount, lastTimestamp,  \* the three atomics
  gauge,                \* the next step of update_and_get_rate
  count, prev, now,     \* its local variables
  last,
  reported, dropped     \* history: messages in a rate, messages of a None

trackerVars ==
  <<clock, processed, lastCount, lastTimestamp, gauge, count, prev, now, last, reported, dropped>>

TrackerInit ==
  /\ clock = 0 /\ processed = 0 /\ lastCount = 0 /\ lastTimestamp = 0
  /\ gauge = "load"
  /\ count = 0 /\ prev = 0 /\ now = 0 /\ last = 0
  /\ reported = 0 /\ dropped = 0

Tick ==
  /\ clock < MaxClock
  /\ clock' = clock + 1
  /\ UNCHANGED <<processed, lastCount, lastTimestamp, gauge, count, prev, now, last, reported, dropped>>

\* record_processed_message, from any number of handlers.
RecordProcessed ==
  /\ processed < MaxMessages
  /\ processed' = processed + 1
  /\ UNCHANGED <<clock, lastCount, lastTimestamp, gauge, count, prev, now, last, reported, dropped>>

LoadCount ==
  /\ gauge = "load"
  /\ count' = processed /\ gauge' = "swap_count"
  /\ UNCHANGED <<clock, processed, lastCount, lastTimestamp, prev, now, last, reported, dropped>>

\* A second load in place of the loaded value.
MutSwapCount ==
  /\ gauge = "swap_count"
  /\ prev' = lastCount /\ lastCount' = processed /\ gauge' = "read_clock"
  /\ UNCHANGED <<clock, processed, lastTimestamp, count, now, last, reported, dropped>>

SwapCount ==
  /\ gauge = "swap_count"
  /\ prev' = lastCount /\ lastCount' = count /\ gauge' = "read_clock"
  /\ UNCHANGED <<clock, processed, lastTimestamp, count, now, last, reported, dropped>>

ReadClock ==
  /\ gauge = "read_clock"
  /\ now' = clock /\ gauge' = "swap_time"
  /\ UNCHANGED <<clock, processed, lastCount, lastTimestamp, count, prev, last, reported, dropped>>

MutSwapTime ==
  /\ gauge = "swap_time"
  /\ last' = lastTimestamp /\ lastTimestamp' = clock + 1 /\ gauge' = "rate"
  /\ UNCHANGED <<clock, processed, lastCount, count, prev, now, reported, dropped>>

SwapTime ==
  /\ gauge = "swap_time"
  /\ last' = lastTimestamp /\ lastTimestamp' = now /\ gauge' = "rate"
  /\ UNCHANGED <<clock, processed, lastCount, count, prev, now, reported, dropped>>

\* No rate without elapsed time: those messages are in no rate at all.
Rate ==
  /\ gauge = "rate"
  /\ gauge' = "load"
  /\ IF now - last > 0
     THEN reported' = reported + (count - prev) /\ UNCHANGED dropped
     ELSE dropped' = dropped + (count - prev) /\ UNCHANGED reported
  /\ UNCHANGED <<clock, processed, lastCount, lastTimestamp, count, prev, now, last>>

Observe == LoadCount \/ SwapCount \/ ReadClock \/ SwapTime \/ Rate

TrackerNext == Tick \/ RecordProcessed \/ Observe

TrackerSpec == TrackerInit /\ [][TrackerNext]_trackerVars

-----------------------------------------------------------------------------
(* Properties                                                              *)

(* Neither subtraction of update_and_get_rate, both on u64, goes below     *)
(* zero, wherever handlers and the clock come in between: one reader runs  *)
(* the callback, and the clock starts before the first reading.            *)
NoUnderflow == gauge = "rate" => prev <= count /\ last <= now

(* Every message acknowledged up to a reading is in exactly one rate, or   *)
(* in a reading without elapsed time: none is counted in two rates.        *)
EachMessageInOneRate == gauge = "load" => reported + dropped = count /\ count <= processed
=============================================================================
