------------------------------- MODULE ApiCalls -------------------------------
(***************************************************************************)
(* The calls of the services to the Amplifier API through                  *)
(* AmplifierApiClient (amplifier-api/src/client.rs): GetChains pages       *)
(* through the tasks, PostEvents sends one event of the queue, HealthCheck *)
(* is only executed.  Requests fail, answers are lost, proxies answer in   *)
(* the API's place, the API may send a task of a type this client does not *)
(* know and may refuse an event in an answer with status 200.              *)
(***************************************************************************)
EXTENDS Naturals, Sequences

CONSTANTS
  Limit,                \* `limit_items`
  MaxTasks, MaxCalls    \* bounds: tasks of the chain, calls

ASSUME CallsAssumption == Limit \in Nat \ {0} /\ {MaxTasks, MaxCalls} \subseteq Nat

VARIABLES
  tasks,                \* the API's tasks in order, each "known" or "unknown"
  published,            \* those published so far, from the first
  event,                \* the event: "queued", "acked", "naked"
  taken,                \* what the API did with it: "no", "accepted", "refused"
  request,              \* the request under way
  reply,                \* its answer: status and body
  health,               \* the last health check
  callCount             \* calls so far

callVars == <<tasks, published, event, taken, request, reply, health, callCount>>

NoReply == [status |-> "none", body |-> "none", page |-> <<>>]

Reply(status, body) == [status |-> status, body |-> body, page |-> <<>>]

CallsInit ==
  /\ tasks = <<>> /\ published = 0
  /\ event = "queued" /\ taken = "no"
  /\ request = "none" /\ reply = NoReply /\ health = "unknown" /\ callCount = 0

CreateTask ==
  /\ Len(tasks) < MaxTasks
  /\ \E kind \in {"known", "unknown"} : tasks' = Append(tasks, kind)
  /\ UNCHANGED <<published, event, taken, request, reply, health, callCount>>

-----------------------------------------------------------------------------
(* Requests                                                                *)

Minimum(a, b) == IF a < b THEN a ELSE b

\* GET chains/<chain>/tasks?after=<last>&limit=<limit>
PageAt(n) == SubSeq(tasks, n + 1, Minimum(n + Limit, Len(tasks)))

SendRequest(kind) ==
  /\ request = "none"
  /\ callCount < MaxCalls
  /\ kind = "event" => event # "acked"
  /\ request' = kind /\ callCount' = callCount + 1
  /\ event' = IF kind = "event" THEN "queued" ELSE event
  /\ UNCHANGED <<tasks, published, taken, reply, health>>

\* The API serves the request.  It takes an event or refuses it, in an
\* answer whose status is a success both times.
Served ==
  CASE request = "tasks" -> taken' = taken /\ reply' = [Reply("success", "page") EXCEPT !.page = PageAt(published)]
    [] request = "event" ->
         \E result \in {"accepted", "refused"} :
           /\ taken' = IF taken = "accepted" THEN taken ELSE result
           /\ reply' = Reply("success", result)
    [] OTHER -> taken' = taken /\ reply' = Reply("success", "ok")

Answer ==
  /\ request # "none" /\ reply = NoReply
  /\ Served
  /\ UNCHANGED <<tasks, published, event, request, health, callCount>>

\* An error status, with the API's ErrorResponse or with something else.
AnswerError ==
  /\ request # "none" /\ reply = NoReply
  /\ \E body \in {"error_response", "garbage"} : reply' = Reply("error", body)
  /\ UNCHANGED <<tasks, published, event, taken, request, health, callCount>>

\* A success whose body cannot be read: cut off, or not the API's.
AnswerGarbled ==
  /\ request # "none" /\ reply.status = "success"
  /\ reply' = Reply("success", "garbage")
  /\ UNCHANGED <<tasks, published, event, taken, request, health, callCount>>

-----------------------------------------------------------------------------
(* What the client makes of an answer                                      *)

Decodes == reply.body # "garbage" /\ \A i \in DOMAIN reply.page : reply.page[i] = "known"

\* json(): a value, the API's error, or no meaning at all.
MutParsed ==
  CASE reply.status = "success" -> IF Decodes THEN "value" ELSE "failed"
    [] OTHER -> IF reply.body = "error_response" THEN "value" ELSE "failed"

Parsed ==
  CASE reply.status = "success" -> IF Decodes THEN "value" ELSE "failed"
    [] OTHER -> IF reply.body = "error_response" THEN "api_error" ELSE "failed"

Over == request' = "none" /\ reply' = NoReply

\* An unknown task fails the decoding of its whole page.
MutTasksAnswered ==
  /\ request = "tasks" /\ reply # NoReply
  /\ published' = IF reply.status = "success" /\ reply.body # "garbage" THEN published + Len(reply.page) ELSE published
  /\ Over
  /\ UNCHANGED <<tasks, event, taken, health, callCount>>

TasksAnswered ==
  /\ request = "tasks" /\ reply # NoReply
  /\ published' = IF Parsed = "value" THEN published + Len(reply.page) ELSE published
  /\ Over
  /\ UNCHANGED <<tasks, event, taken, health, callCount>>

\* The items of the answer are not looked at: a refused event is acked.
EventAnswered ==
  /\ request = "event" /\ reply # NoReply
  /\ event' = IF Parsed = "value" THEN "acked" ELSE "naked"
  /\ Over
  /\ UNCHANGED <<tasks, published, taken, health, callCount>>

\* execute() succeeds with any answer.
HealthAnswered ==
  /\ request = "health" /\ reply # NoReply
  /\ health' = "healthy"
  /\ Over
  /\ UNCHANGED <<tasks, published, event, taken, callCount>>

\* execute() fails: not sent, or the answer is lost.
RequestLost ==
  /\ request # "none"
  /\ event' = IF request = "event" THEN "naked" ELSE event
  /\ health' = IF request = "health" THEN "unhealthy" ELSE health
  /\ Over
  /\ UNCHANGED <<tasks, published, taken, callCount>>

CallsNext ==
  \/ CreateTask
  \/ \E kind \in {"tasks", "event", "health"} : SendRequest(kind)
  \/ Answer \/ AnswerError \/ AnswerGarbled
  \/ TasksAnswered \/ EventAnswered \/ HealthAnswered \/ RequestLost

CallsSpec == CallsInit /\ [][CallsNext]_callVars

-----------------------------------------------------------------------------
(* Properties                                                              *)

(* No task is published past one that the client cannot decode, whatever   *)
(* pages the API cuts its tasks into: the cursor never moves over it.  The *)
(* price is that such a task holds up every later one, and the ones before *)
(* it on its page.                                                         *)
NothingPassesUnknown == \A i \in 1..published : tasks[i] = "known"

(* An event is acknowledged only if the API took or refused it: not on an  *)
(* error status, a foreign or unreadable answer, or a lost one, over any   *)
(* number of deliveries.  (A refused event is acknowledged as well.)       *)
AckedWasServed == event = "acked" => taken # "no"
=============================================================================
