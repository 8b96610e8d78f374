------------------------------ MODULE Dispatch ------------------------------
(***************************************************************************)
(* What as_smpp_receive_worker does with the octets of a PDU (smpp.c       *)
(* 222-322): the header, the dispatch on the command id, the bodies, the   *)
(* TLVs, the calls of the handlers and the answers.                        *)
(*                                                                         *)
(* Whole PDUs arrive, one or several at a time; that the cuts do not       *)
(* matter is the subject of Framing.  The memory of the receive buffer is  *)
(* that of the code: what a read finds behind a PDU is the next one, or    *)
(* what an earlier one left there.                                         *)
(***************************************************************************)
EXTENDS Serializer

CONSTANTS
  Pdus,           \* the PDUs that the SMSC may send
  HandlerSets,    \* the sets of handlers that the application may have set
  MaxPdus         \* bound: the number of PDUs the SMSC sends

VARIABLES
  handlers,       \* the handlers that are not NULL
  sent,           \* the PDUs the SMSC sent
  arrived,        \* how many of them recv returned
  removed,        \* how many of them were removed from the receive buffer
  receiveBuffer,  \* session->receiveBuffer
  header, index, request, tlv,   \* the variables of the worker
  allocated,      \* the TLVs that were allocated and not freed
  calls,          \* the calls of the handlers
  state,          \* session->state
  answers,        \* the octets of each answer
  pc              \* where the worker is

environment == <<handlers, sent>>
memory == <<arrived, removed, receiveBuffer>>
locals == <<header, index, request, tlv>>
effects == <<allocated, calls, state, answers>>
vars == <<environment, memory, locals, effects, pc>>

-----------------------------------------------------------------------------
(***************************************************************************)
(* The SMSC: its PDUs are records of a command id, a status, a sequence    *)
(* number, fields and TLVs.  hasBody is FALSE for a response that comes    *)
(* without a body, as SMPP has it for those with an error status.          *)
(***************************************************************************)
Binds == {BIND_RECEIVER, BIND_TRANSMITTER, BIND_TRANSCEIVER}
BindResponses == {RESPONSE_FLAG + c : c \in Binds}
SubmitResponse == RESPONSE_FLAG + SUBMIT_SM

SmscLayout(commandId) ==
  IF commandId \in BindResponses THEN <<String("systemId", "systemId")>>
  ELSE IF commandId = SubmitResponse THEN <<String("messageId", "messageId")>>
  ELSE IF commandId = DELIVER_SM
    THEN [i \in 1..Len(WrittenSubmitSm) |->
            IF WrittenSubmitSm[i].name \in {"scheduleDeliveryTime", "validityPeriod"}
              THEN String(WrittenSubmitSm[i].name, "dateTime") ELSE WrittenSubmitSm[i]]
  ELSE <<>>

TlvOctets(t) ==
  as_smpp_serialize_integer(t.tag, 2) \o as_smpp_serialize_integer(Len(t.data), 2) \o t.data

AllTlvOctets(tlvs) == FlattenSeq([i \in 1..Len(tlvs) |-> TlvOctets(tlvs[i])])

FieldOctets(p) == Serialize(SmscLayout(p.commandId), p.fields)

BodyOctets(p) == IF p.hasBody THEN FieldOctets(p) \o AllTlvOctets(p.tlvs) ELSE <<>>

WireOctets(p) ==
  as_smpp_serialize_integer(HeaderLen + Len(BodyOctets(p)), Width)
    \o as_smpp_serialize_integer(p.commandId, Width)
    \o as_smpp_serialize_integer(p.status, Width)
    \o as_smpp_serialize_integer(p.sequenceNo, Width)
    \o BodyOctets(p)

\* What SMPP asks of a field: a number of one octet; a string without zeros,
\* that leaves room for its terminator; the message, as long as the field before
\* it says.
FieldAllowed(field, fields) ==
  LET value == fields[field.name]
  IN /\ field.name \in DOMAIN fields /\ value # NULL
     /\ field.kind = "integer" => value \in Octet
     /\ field.kind = "string" => value \in Seq(Octet \ {0}) /\ Len(value) < field.len
     /\ field.kind = "binary" =>
          value \in Seq(Octet) /\ "messageLength" \in DOMAIN fields
            /\ fields["messageLength"] = Len(value)

\* The SMSC keeps to SMPP: only a response comes without a body, an
\* enquire_link has none to read, and each number fits in its octets.
Allowed(p) ==
  /\ \A n \in {p.commandId, p.status, p.sequenceNo, Len(WireOctets(p))} :
       n \in Nat /\ FitsIn(n, Width)
  /\ p.hasBody \in BOOLEAN
  /\ p.commandId < RESPONSE_FLAG => p.hasBody
  /\ p.hasBody => \A i \in DOMAIN SmscLayout(p.commandId) :
                     FieldAllowed(SmscLayout(p.commandId)[i], p.fields)
  /\ p.tlvs \in Seq([tag : Nat, data : Seq(Octet)])
  /\ \A i \in DOMAIN p.tlvs : FitsIn(p.tlvs[i].tag, 2) /\ FitsIn(Len(p.tlvs[i].data), 2)

ASSUME PduAssumption == \A p \in Pdus : Allowed(p)
ASSUME HandlerAssumption == HandlerSets \subseteq SUBSET {"bind", "submit", "deliver"}
ASSUME BoundAssumption == MaxPdus \in Nat

SmscSend ==
  /\ Len(sent) < MaxPdus
  /\ \E p \in Pdus : sent' = Append(sent, p)
  /\ UNCHANGED <<handlers, memory, locals, effects, pc>>

-----------------------------------------------------------------------------
(***************************************************************************)
(* The worker.                                                             *)
(***************************************************************************)
NoHeader == [commandLength |-> 0, commandId |-> 0, status |-> 0, sequenceNo |-> 0]

Init ==
  /\ handlers \in HandlerSets
  /\ sent = <<>>
  /\ arrived = 0
  /\ removed = 0
  /\ receiveBuffer = B!as_smpp_buffer_init(InitCapacity)
  /\ header = NoHeader
  /\ index = 0
  /\ request = NULL
  /\ tlv = <<>>
  /\ allocated = <<>>
  /\ calls = <<>>
  /\ state = "OPENED"
  /\ answers = <<>>
  /\ pc = "recv"

Receive ==
  /\ pc = "recv"
  /\ \E n \in (arrived + 1)..Len(sent) :
       LET pieces == [i \in 1..(n - arrived) |-> WireOctets(sent[arrived + i])]
       IN /\ receiveBuffer' = B!as_smpp_buffer_copy(receiveBuffer, FlattenSeq(pieces))
          /\ arrived' = n
  /\ pc' = "parse"
  /\ UNCHANGED <<environment, removed, locals, effects>>

\* The inner loop ends.
Drained ==
  /\ pc = "parse"
  /\ receiveBuffer.dataLen = 0
  /\ pc' = "recv"
  /\ UNCHANGED <<environment, memory, locals, effects>>

ParseHeader ==
  /\ pc = "parse"
  /\ receiveBuffer.dataLen > 0
  /\ header' = as_smpp_deserialize_pdu_header(receiveBuffer.ptr)
  /\ index' = HeaderLen
  /\ pc' = "dispatch"
  /\ UNCHANGED <<environment, memory, request, tlv, effects>>

IsResponse == header.commandId # NACK /\ header.commandId >= RESPONSE_FLAG
IsRequest == header.commandId < RESPONSE_FLAG

\* The command without its flag: header.commandId ^ AS_SMPP_COMMAND_RESPONSE_FLAG.
Command == header.commandId - RESPONSE_FLAG

\* AS_SMPP_CALL_HANDLER.
CallHandler(handler, pdu) ==
  calls' = IF handler \in handlers
             THEN Append(calls, [handler |-> handler, sequenceNo |-> header.sequenceNo,
                                 status |-> header.status, pdu |-> pdu])
             ELSE calls

\* A NACK, and what no case of the switches names.
Ignore ==
  /\ pc = "dispatch"
  /\ \/ header.commandId = NACK
     \/ IsResponse /\ Command \notin Binds \union {SUBMIT_SM}
     \/ IsRequest /\ header.commandId \notin {ENQUIRE_LINK, DELIVER_SM}
  /\ pc' = "remove"
  /\ UNCHANGED <<environment, memory, locals, effects>>

BoundAs(command) ==
  IF command = BIND_RECEIVER THEN "BOUND_RX"
  ELSE IF command = BIND_TRANSMITTER THEN "BOUND_TX" ELSE "BOUND_TRX"

\* The handler of a bind response is not given the system id.
HandleBindResponse ==
  /\ pc = "dispatch"
  /\ IsResponse /\ Command \in Binds
  /\ index' = as_smpp_deserialize_string(receiveBuffer.ptr, index).index
  /\ CallHandler("bind", NULL)
  /\ state' = BoundAs(Command)
  /\ pc' = "remove"
  /\ UNCHANGED <<environment, memory, header, request, tlv, allocated, answers>>

HandleSubmitResponse ==
  /\ pc = "dispatch"
  /\ IsResponse /\ Command = SUBMIT_SM
  /\ LET messageId == as_smpp_deserialize_string(receiveBuffer.ptr, index)
     IN index' = messageId.index /\ CallHandler("submit", messageId.value)
  /\ pc' = "remove"
  /\ UNCHANGED <<environment, memory, header, request, tlv, allocated, state, answers>>

\* The octets that as_smpp_send sends: the length is written over the first field.
Patched(octets) ==
  as_smpp_serialize_integer(Len(octets), Width) \o SubSeq(octets, Width + 1, Len(octets))

\* Mutant of AnswerHeader: with the status of the request for its number.
AnswerHeaderStatus ==
  as_smpp_serialize_pdu_header(0, ENQUIRE_LINK + RESPONSE_FLAG, header.sequenceNo, ROK)

\* Both answers have the command id of enquire_link.
AnswerHeader ==
  as_smpp_serialize_pdu_header(0, ENQUIRE_LINK + RESPONSE_FLAG, ROK, header.sequenceNo)

HandleEnquireLink ==
  /\ pc = "dispatch"
  /\ IsRequest /\ header.commandId = ENQUIRE_LINK
  /\ answers' = Append(answers, Patched(AnswerHeader))
  /\ pc' = "remove"
  /\ UNCHANGED <<environment, memory, locals, allocated, calls, state>>

\* The struct is on the stack, and what was in it is not known.
ReadDeliverSm ==
  /\ pc = "dispatch"
  /\ IsRequest /\ header.commandId = DELIVER_SM
  /\ \E uninitialized \in BOOLEAN :
       LET r == Deserialize(ReadSubmitSm, receiveBuffer.ptr, index, uninitialized)
       IN request' = r.value /\ index' = r.index
  /\ pc' = "tlv"
  /\ UNCHANGED <<environment, memory, header, tlv, effects>>

ReadTlvs ==
  /\ pc = "tlv"
  /\ LET r == as_smpp_deserialize_tlv(receiveBuffer.ptr, index, header.commandLength)
     IN /\ tlv' = r.value
        /\ index' = r.index
        /\ allocated' = allocated \o r.value
  /\ pc' = "walk"
  /\ UNCHANGED <<environment, memory, header, request, calls, state, answers>>

\* while ( tlv != NULL ) tlv = tlv->next;
WalkTlvs ==
  /\ pc = "walk"
  /\ tlv' = <<>>
  /\ pc' = "handler"
  /\ UNCHANGED <<environment, memory, header, index, request, effects>>

CallDeliver ==
  /\ pc = "handler"
  /\ CallHandler("deliver", request)
  /\ pc' = "free"
  /\ UNCHANGED <<environment, memory, locals, allocated, state, answers>>

\* as_smpp_tlv_free( tlv ) frees the list from tlv on, which is the end of allocated.
FreeTlvs ==
  /\ pc = "free"
  /\ allocated' = SubSeq(allocated, 1, Len(allocated) - Len(tlv))
  /\ pc' = "answer"
  /\ UNCHANGED <<environment, memory, locals, calls, state, answers>>

AnswerDeliver ==
  /\ pc = "answer"
  /\ answers' = Append(answers,
       Patched(AnswerHeader \o as_smpp_serialize_string(NULL, MaxLen["messageId"])))
  /\ pc' = "remove"
  /\ UNCHANGED <<environment, memory, locals, allocated, calls, state>>

RemovePdu ==
  /\ pc = "remove"
  /\ receiveBuffer' = B!as_smpp_buffer_remove(receiveBuffer, 0, header.commandLength)
  /\ removed' = removed + 1
  /\ pc' = "parse"
  /\ UNCHANGED <<environment, arrived, locals, effects>>

Dispatch ==
  \/ Ignore \/ HandleBindResponse \/ HandleSubmitResponse \/ HandleEnquireLink
  \/ ReadDeliverSm \/ ReadTlvs \/ WalkTlvs \/ CallDeliver \/ FreeTlvs \/ AnswerDeliver

Next == SmscSend \/ Receive \/ Drained \/ ParseHeader \/ Dispatch \/ RemovePdu

Spec == Init /\ [][Next]_vars

-----------------------------------------------------------------------------
(***************************************************************************)
(* Properties.                                                             *)
(***************************************************************************)
\* The PDU the worker is at, which it looked up to the end or not yet.
Current == sent[removed + 1]

\* The handler that is to be called for a PDU.
HandlerFor(p) ==
  IF p.commandId \in BindResponses THEN "bind"
  ELSE IF p.commandId = SubmitResponse THEN "submit"
  ELSE IF p.commandId = DELIVER_SM THEN "deliver" ELSE "none"

\* What the handler gets is what the SMSC wrote.  Two things are left out, for
\* which the code does not see to that: the message id of a response without a
\* body, which is read from other octets, and isNull of the dates.
Delivered(call, p) ==
  /\ call.handler = HandlerFor(p)
  /\ call.sequenceNo = p.sequenceNo
  /\ call.status = p.status
  /\ call.handler = "submit" /\ p.hasBody => call.pdu = p.fields["messageId"]
  /\ call.handler = "deliver" =>
       \A name \in DOMAIN call.pdu \ {"scheduleDeliveryTime", "validityPeriod"} :
         call.pdu[name] = IF name = "replaceIfPresent"
                            THEN p.fields[name] = 1 ELSE p.fields[name]

\* How many of the first n PDUs are for a handler that is set: the n-th, if it
\* is for one, is for the call of this number.
ToHandle(n) == {k \in 1..n : HandlerFor(sent[k]) \in handlers}
Handled(n) == Cardinality(ToHandle(n))

(***************************************************************************)
(* The handlers that are set are called for the PDUs of their kind, once   *)
(* and in order, with the numbers, the strings and the message that the    *)
(* SMSC wrote, whatever PDUs come before and behind in the same memory,    *)
(* with and without bodies.  A session whose last bind the SMSC accepted   *)
(* is bound as that bind was; what it is after one that the SMSC rejected  *)
(* is the subject of BoundMeansAccepted of EsmeSession.                    *)
(***************************************************************************)
CalledAsSent ==
  /\ Len(calls) <= Handled(arrived)
  /\ \A k \in ToHandle(arrived) :
       Handled(k) <= Len(calls) => Delivered(calls[Handled(k)], sent[k])
  /\ pc \in {"recv", "parse"} =>
       /\ Len(calls) = Handled(removed)
       /\ \A k \in 1..removed :
            HandlerFor(sent[k]) = "bind" /\ sent[k].status = ROK
              /\ (\A j \in (k + 1)..removed : HandlerFor(sent[j]) # "bind") =>
              \/ sent[k].commandId = RESPONSE_FLAG + BIND_RECEIVER /\ state = "BOUND_RX"
              \/ sent[k].commandId = RESPONSE_FLAG + BIND_TRANSMITTER /\ state = "BOUND_TX"
              \/ sent[k].commandId = RESPONSE_FLAG + BIND_TRANSCEIVER /\ state = "BOUND_TRX"

(***************************************************************************)
(* Behind the fields of a deliver_sm the worker finds the TLVs that the    *)
(* SMSC wrote, an empty one at the end included, and nothing of the next   *)
(* PDU.  The reading of a PDU that has a body ends with its last octet, or *)
(* with the last before its TLVs, which only a deliver_sm's are read: every*)
(* field was read with the length it was written with.                     *)
(***************************************************************************)
ReadToTheEnd ==
  /\ pc = "walk" => tlv = Current.tlvs
  /\ pc = "remove" /\ Current.hasBody
       /\ (HandlerFor(Current) # "none" \/ Current.commandId = ENQUIRE_LINK)
       => index = header.commandLength
                    - (IF Current.commandId = DELIVER_SM THEN 0
                       ELSE Len(AllTlvOctets(Current.tlvs)))

\* How many of the first n PDUs are requests that have an answer.
ToAnswer(n) == {k \in 1..n : sent[k].commandId \in {ENQUIRE_LINK, DELIVER_SM}}
Answered(n) == Cardinality(ToAnswer(n))

(***************************************************************************)
(* Each request of the SMSC is answered once, with its own number and no   *)
(* error, in an answer whose length field is its length.  That of an       *)
(* enquire_link has the command id of its response.  The command id that   *)
(* answers a deliver_sm is left open: see DeliverSmAnswered of SendPath.    *)
(***************************************************************************)
AnswersReadable ==
  pc = "recv" =>
    /\ Len(answers) = Answered(removed)
    /\ \A k \in ToAnswer(removed) :
         LET answer == answers[Answered(k)]
             read == as_smpp_deserialize_pdu_header(answer)
         IN /\ read.commandLength = Len(answer)
            /\ read.status = ROK
            /\ read.sequenceNo = sent[k].sequenceNo
            /\ sent[k].commandId = ENQUIRE_LINK =>
                 read.commandId = ENQUIRE_LINK + RESPONSE_FLAG
=============================================================================
