------------------------------- MODULE Messages -------------------------------
(***************************************************************************)
(* The messages of the Amplifier API (amplifier-api/src/types.rs) and the  *)
(* two forms they travel in: Borsh bytes on the queues, JSON in the calls  *)
(* of the API.  A type is the sequence of its fields, flattened ones in    *)
(* place; a message is the set of <<field, value>> it carries, the value   *)
(* of a field being its number until something mixes fields up.            *)
(***************************************************************************)
EXTENDS Naturals, Sequences

VARIABLES
  type, built,          \* the message as its producer built it
  form,                 \* what was done with it last
  carried,              \* its bytes, its JSON entries, or what was read
  id                    \* its deduplication id

messagesVars == <<type, built, form, carried, id>>

\* Not a message: an entry of no field.
Failed == {<<0, 0>>}

-----------------------------------------------------------------------------
(* The types.  `at` is the JSON object a field is in, `object` the flag of *)
(* an optional object; the order of the fields is their order in Borsh.    *)

F(at, key, kind, need) == [at |-> at, key |-> key, kind |-> kind, need |-> need]

Token(at) == <<F(at, "tokenID", "plain", "optional"), F(at, "amount", "amount", "required")>>

GatewayV2Message ==
  <<F("message", "messageID", "plain", "required"), F("message", "sourceChain", "plain", "required"),
    F("message", "sourceAddress", "plain", "required"),
    F("message", "destinationAddress", "plain", "required"),
    F("message", "payloadHash", "bytes", "required")>>

EventMetadata(extra) ==
  <<F("meta", "txID", "plain", "optional"), F("meta", "timestamp", "utc", "optional"),
    F("meta", "fromAddress", "plain", "optional"), F("meta", "finalized", "plain", "optional")>> \o extra

EventBase(extra) ==
  <<F("top", "eventID", "plain", "required"), F("top", "meta", "object", "optional")>>
    \o EventMetadata(extra)

CallEventMetadata == <<F("meta", "parentMessageID", "plain", "optional")>>
MessageApprovedEventMetadata == <<F("meta", "commandID", "plain", "optional")>>
MessageExecutedEventMetadata ==
  <<F("meta", "commandID", "plain", "optional"), F("meta", "childMessageIDs", "plain", "optional")>>
CannotExecuteMessageEventV2Metadata ==
  <<F("meta", "fromAddress", "plain", "optional"), F("meta", "timestamp", "utc", "optional"),
    F("meta", "taskItemID", "plain", "required")>>
SignersRotatedMetadata ==
  <<F("meta", "signerHash", "bytes", "required"), F("meta", "epoch", "plain", "required")>>

GasCreditEvent ==
  EventBase(<<>>) \o <<F("top", "messageID", "plain", "required"),
                       F("top", "refundAddress", "plain", "required")>> \o Token("payment")
GasRefundedEvent ==
  EventBase(<<>>) \o <<F("top", "messageID", "plain", "required"),
                       F("top", "recipientAddress", "plain", "required")>>
    \o Token("refundedAmount") \o Token("cost")
CallEvent ==
  EventBase(CallEventMetadata) \o GatewayV2Message
    \o <<F("top", "destinationChain", "plain", "required"), F("top", "payload", "bytes", "required")>>
MessageApprovedEvent ==
  EventBase(MessageApprovedEventMetadata) \o GatewayV2Message \o Token("cost")
MessageExecutedEvent ==
  EventBase(MessageExecutedEventMetadata)
    \o <<F("top", "messageID", "plain", "required"), F("top", "sourceChain", "plain", "required"),
         F("top", "status", "plain", "required")>> \o Token("cost")
CannotExecuteMessageEventV2 ==
  EventBase(CannotExecuteMessageEventV2Metadata)
    \o <<F("top", "messageID", "plain", "required"), F("top", "sourceChain", "plain", "required"),
         F("top", "reason", "plain", "required"), F("top", "details", "plain", "required")>>
SignersRotatedEvent == EventBase(SignersRotatedMetadata) \o Token("cost")

\* The content of a task is the object "task", whose own objects are named
\* as if they were beside it.
Payload == <<F("task", "payload", "bytes", "required")>>
TaskItem(task) ==
  <<F("top", "id", "plain", "required"), F("top", "timestamp", "utc", "required")>> \o task

MessageTask == TaskItem(GatewayV2Message \o Payload)
GatewayTransactionTask == TaskItem(<<F("task", "executeData", "bytes", "required")>>)
ExecuteTask == TaskItem(GatewayV2Message \o Payload \o Token("availableGasBalance"))
RefundTask ==
  TaskItem(GatewayV2Message \o <<F("task", "refundRecipientAddress", "plain", "required")>>
           \o Token("remainingGasBalance"))

\* The variants in the order of the enums, by the name of their JSON tag.
EventVariants ==
  << <<"GAS_CREDIT", GasCreditEvent>>, <<"GAS_REFUNDED", GasRefundedEvent>>, <<"CALL", CallEvent>>,
     <<"MESSAGE_APPROVED", MessageApprovedEvent>>, <<"MESSAGE_EXECUTED", MessageExecutedEvent>>,
     <<"CANNOT_EXECUTE_MESSAGE/V2", CannotExecuteMessageEventV2>>,
     <<"SIGNERS_ROTATED", SignersRotatedEvent>> >>
TaskVariants ==
  << <<"CONSTRUCT_PROOF", MessageTask>>, <<"VERIFY", MessageTask>>,
     <<"GATEWAY_TX", GatewayTransactionTask>>, <<"EXECUTE", ExecuteTask>>, <<"REFUND", RefundTask>> >>

Variants == EventVariants \o TaskVariants
Tags == {Variants[v][1] : v \in DOMAIN Variants}
FieldsOf == [tag \in Tags |-> Variants[CHOOSE v \in DOMAIN Variants : Variants[v][1] = tag][2]]

-----------------------------------------------------------------------------
(* Messages                                                                *)

Numbers(message) == {entry[1] : entry \in message}

\* A field of "meta" is there only with its object.
InScope(fields, i, message) ==
  fields[i].at = "meta" =>
    \E j \in Numbers(message) : fields[j].kind = "object"

WellFormed(fields, message) ==
  \A i \in DOMAIN fields :
    /\ fields[i].need = "required" /\ InScope(fields, i, message) => i \in Numbers(message)
    /\ i \in Numbers(message) => InScope(fields, i, message)

OptionalOf(fields) == {i \in DOMAIN fields : fields[i].need = "optional"}

\* One message for every choice of optional fields, those of an absent
\* metadata object left out.
MessagesOf(fields) ==
  LET present(set) == {i \in DOMAIN fields : fields[i].need = "required" \/ i \in set}
      object(set) == \E j \in set : fields[j].kind = "object"
  IN {{<<i, i>> : i \in {j \in present(set) : fields[j].at = "meta" => object(set)}} :
        set \in SUBSET OptionalOf(fields)}

ValueOf(message, i) == (CHOOSE entry \in message : entry[1] = i)[2]

-----------------------------------------------------------------------------
(* Borsh: values in order, a byte before each optional one                 *)

None == <<"option", 0>>
Some == <<"option", 1>>

\* serialize_utc writes seconds and nanoseconds, a BigInt its decimal text.
Written(kind, value) ==
  CASE kind = "utc" -> <<<<"seconds", value>>, <<"nanoseconds", value>>>>
    [] kind = "amount" -> <<<<"text", value>>>>
    [] kind = "object" -> <<>>
    [] OTHER -> <<<<"value", value>>>>

\* serialize_option_utc writes the byte of the Option itself.
MutSerialized(fields, message, i) ==
  IF fields[i].need = "required" THEN Written(fields[i].kind, ValueOf(message, i))
  ELSE IF i \in Numbers(message)
       THEN (IF fields[i].kind = "utc" THEN <<>> ELSE <<Some>>)
            \o Written(fields[i].kind, ValueOf(message, i))
       ELSE <<None>>

Serialized(fields, message, i) ==
  IF fields[i].need = "required" THEN Written(fields[i].kind, ValueOf(message, i))
  ELSE IF i \in Numbers(message)
       THEN <<Some>> \o Written(fields[i].kind, ValueOf(message, i))
       ELSE <<None>>

\* What field i adds to the bytes; an object that is not there adds nothing.
Piece(fields, message, i) ==
  IF InScope(fields, i, message) THEN Serialized(fields, message, i) ELSE <<>>

BorshEncode(fields, message) ==
  LET bytes[i \in 0..Len(fields)] ==
        IF i = 0 THEN <<>> ELSE bytes[i - 1] \o Piece(fields, message, i)
  IN bytes[Len(fields)]

\* One field read from the rest of the bytes; the first byte of an option
\* must be 0 or 1, and a value is what its own kind wrote.
Deserialized(fields, i, reading) ==
  LET field == fields[i]
      rest == reading.rest
      body == IF field.need = "required" THEN rest ELSE Tail(rest)
      length == Len(Written(field.kind, i))
      value == IF length = 0 THEN i ELSE body[1][2]
  IN IF reading.result = "err" \/ ~InScope(fields, i, reading.got) THEN reading
     ELSE IF Len(rest) = 0 \/ (field.need = "optional" /\ rest[1] \notin {None, Some})
          THEN [reading EXCEPT !.result = "err"]
     ELSE IF field.need = "optional" /\ rest[1] = None THEN [reading EXCEPT !.rest = Tail(rest)]
     ELSE IF Len(body) >= length /\ SubSeq(body, 1, length) = Written(field.kind, value)
          THEN [result |-> "ok", rest |-> SubSeq(body, length + 1, Len(body)),
                got |-> reading.got \cup {<<i, value>>}]
     ELSE [reading EXCEPT !.result = "err"]

\* Bytes that are left over are not looked at.
BorshDecode(fields, bytes) ==
  LET reading[i \in 0..Len(fields)] ==
        IF i = 0 THEN [result |-> "ok", rest |-> bytes, got |-> {}]
        ELSE Deserialized(fields, i, reading[i - 1])
  IN IF reading[Len(fields)].result = "ok" THEN reading[Len(fields)].got ELSE Failed

-----------------------------------------------------------------------------
(* JSON: entries by object and key; serde writes what is there             *)

\* Bytes are rendered in base64, an amount as its decimal text.
Rendered(kind, value) ==
  [notation |-> CASE kind = "bytes" -> "base64" [] kind = "amount" -> "decimal" [] OTHER -> kind,
   value |-> value]

Readable(kind, text) == text = Rendered(kind, text.value)

JsonEncode(fields, message) ==
  LET entry(i, value) ==
        [at |-> fields[i].at, key |-> fields[i].key, field |-> i,
         text |-> Rendered(fields[i].kind, value)]
  IN {entry(e[1], e[2]) : e \in message}

\* The fields with an entry's key: the outer one comes first and takes it,
\* a flattened object is given what is left.
MutTakenBy(fields, entry) ==
  CHOOSE i \in DOMAIN fields :
    fields[i].key = entry.key /\ \A j \in DOMAIN fields : fields[j].key = entry.key => i <= j

TakenBy(fields, entry) ==
  CHOOSE i \in DOMAIN fields :
    /\ <<fields[i].at, fields[i].key>> = <<entry.at, entry.key>>
    /\ \A j \in 1..(i - 1) : <<fields[j].at, fields[j].key>> # <<entry.at, entry.key>>

JsonDecode(fields, entries) ==
  LET duplicate == \E e, f \in entries : e # f /\ <<e.at, e.key>> = <<f.at, f.key>>
      readable == \A e \in entries : Readable(fields[TakenBy(fields, e)].kind, e.text)
      got == {<<TakenBy(fields, e), e.text.value>> : e \in entries}
  IN IF ~duplicate /\ readable /\ WellFormed(fields, got) THEN got ELSE Failed

-----------------------------------------------------------------------------
(* The way of a message                                                    *)

MessagesInit == type = "none" /\ built = {} /\ form = "none" /\ carried = {} /\ id = 0

Build ==
  /\ form = "none"
  /\ type' \in Tags
  /\ built' \in MessagesOf(FieldsOf[type'])
  /\ form' = "built" /\ carried' = built'
  /\ UNCHANGED id

\* The publishers put the deduplication id, the id of the event or of the
\* task, beside the bytes.
Enqueue ==
  /\ form = "built"
  /\ form' = "queued" /\ carried' = BorshEncode(FieldsOf[type], built) /\ id' = ValueOf(built, 1)
  /\ UNCHANGED <<type, built>>

\* The consumers decode the bytes as the type of their queue.
Dequeue ==
  /\ form = "queued"
  /\ form' = "dequeued" /\ carried' = BorshDecode(FieldsOf[type], carried)
  /\ UNCHANGED <<type, built, id>>

\* The body of PostEvents, or the API's answer to GetChains.
Render ==
  /\ form = "built"
  /\ form' = "rendered" /\ carried' = JsonEncode(FieldsOf[type], built)
  /\ UNCHANGED <<type, built, id>>

Parse ==
  /\ form = "rendered"
  /\ form' = "parsed" /\ carried' = JsonDecode(FieldsOf[type], carried)
  /\ UNCHANGED <<type, built, id>>

MessagesNext == Build \/ Enqueue \/ Dequeue \/ Render \/ Parse

MessagesSpec == MessagesInit /\ [][MessagesNext]_messagesVars

-----------------------------------------------------------------------------
(* Properties                                                              *)

(* The consumer of a queue reads every message exactly as it was           *)
(* published, whichever optional fields it has, with the hand-written      *)
(* encodings of timestamps and amounts, and its id is the message's own.   *)
QueueKeepsMessage ==
  form = "dequeued" => carried = built /\ id = ValueOf(carried, 1)

(* JSON keeps every message too, but for the two fields that the metadata  *)
(* of CANNOT_EXECUTE_MESSAGE/V2 names a second time: set in the inner      *)
(* object alone they come back in the outer one, set in both the JSON has  *)
(* the key twice and is refused.  No other pair of fields collides.        *)
JsonKeepsMessage ==
  form = "parsed" =>
    LET inner == {i \in Numbers(built) : type = "CANNOT_EXECUTE_MESSAGE/V2" /\ i \in {7, 8}}
        twice == {i \in inner : \E j \in Numbers(built) : j < i /\ FieldsOf[type][j].key = FieldsOf[type][i].key}
    IN CASE inner = {} -> carried = built
         [] twice # {} -> carried = Failed
         [] OTHER -> {e[2] : e \in carried} = Numbers(built) /\ carried # built
=============================================================================
