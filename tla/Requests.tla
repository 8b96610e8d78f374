------------------------------ MODULE Requests ------------------------------
(***************************************************************************)
(* The octets of the requests: as_smpp_bind and as_smpp_submit_sm write    *)
(* their arguments into session->sendBuffer, field by field, and send it.  *)
(* sendMutex makes each call one step (SendPath); what is at stake here is *)
(* whether the peer finds the arguments in the octets, and whether they    *)
(* lie in the memory of the buffer.                                        *)
(***************************************************************************)
EXTENDS Serializer

CONSTANTS
  BindArgs,         \* the arguments with which the application calls as_smpp_bind
  SubmitArgs,       \* and as_smpp_submit_sm
  Modes,            \* the values of a_sessionMode
  maxSmLength,      \* a_maxSmLength of as_smpp_esme_start
  MaxRequests       \* bound: the number of requests

\* A C string or the null pointer; an octet.
Text(s) == s = NULL \/ s \in Seq(Octet \ {0})
Number(n) == n \in Octet /\ n # NULL

BindArgument(args) ==
  /\ DOMAIN args = {"systemId", "password", "systemType", "addressTon", "addressNpi",
                    "addressRange"}
  /\ \A name \in {"systemId", "password", "systemType", "addressRange"} : Text(args[name])
  /\ \A name \in {"addressTon", "addressNpi"} : Number(args[name])

SubmitArgument(args) ==
  /\ DOMAIN args = {"serviceType", "sourceTon", "sourceNpi", "source", "destinationTon",
                    "destinationNpi", "destination", "dataCoding", "message"}
  /\ \A name \in {"serviceType", "source", "destination"} : Text(args[name])
  /\ \A name \in {"sourceTon", "sourceNpi", "destinationTon", "destinationNpi",
                   "dataCoding"} : Number(args[name])
  /\ args.message # NULL /\ args.message \in Seq(Octet)

ASSUME ArgumentAssumption ==
  /\ \A args \in BindArgs : BindArgument(args)
  /\ \A args \in SubmitArgs : SubmitArgument(args)
ASSUME RequestBoundAssumption == MaxRequests \in Nat

VARIABLES
  session,          \* the fields mode, maxSmLength and sequenceNo of the session
  sendBuffer,       \* session->sendBuffer
  requests,         \* the calls: their command, number and arguments
  wire              \* the octets of the PDU of each call

requestVars == <<session, sendBuffer, requests, wire>>

INT32_MAX == Base^Width \div 2 - 1
VERSION_3_4 == 52
RECEIPT_SUCCESS_OR_FAILURE == 1

-----------------------------------------------------------------------------
(***************************************************************************)
(* The serialize functions on the buffer: room for the longest value of    *)
(* the field, then the octets from dataLen on.                             *)
(***************************************************************************)
\* A store outside of the memory of the buffer leaves dataLen outside of it.
Stored(b, octets) ==
  [ptr |-> [i \in 1..Len(b.ptr) |->
              IF i - b.dataLen \in 1..Len(octets) THEN octets[i - b.dataLen] ELSE b.ptr[i]],
   dataLen |-> b.dataLen + Len(octets)]

Written(b, field, value) ==
  Stored(B!as_smpp_buffer_ensure_capacity(
           b, IF field.kind = "binary" THEN Len(value) ELSE field.len),
         OctetsOf(field, value))

WrittenAlong(b, layout, pdu) ==
  LET written[n \in 0..Len(layout)] ==
        IF n = 0 THEN b ELSE Written(written[n - 1], layout[n], pdu[layout[n].name])
  IN written[Len(layout)]

HeaderLayout ==
  <<Field("integer", "commandLength", Width), Field("integer", "commandId", Width),
    Field("integer", "status", Width), Field("integer", "sequenceNo", Width)>>

Header(commandId, sequenceNo) ==
  [commandLength |-> 0, commandId |-> commandId, status |-> ROK, sequenceNo |-> sequenceNo]

\* as_smpp_send: the length is written at the head, with dataLen at 0 meanwhile.
LengthPatched(b) ==
  [Written([b EXCEPT !.dataLen = 0], HeaderLayout[1], b.dataLen) EXCEPT !.dataLen = b.dataLen]

\* What send takes, from the memory of the buffer or from what lies behind it.
Sent(b) == [i \in 1..b.dataLen |-> IF i \in DOMAIN b.ptr THEN b.ptr[i] ELSE Garbage]

\* A request: reset, header, body, send.
Send(commandId, sequenceNo, layout, pdu) ==
  LET empty == [sendBuffer EXCEPT !.dataLen = 0]
      full == WrittenAlong(WrittenAlong(empty, HeaderLayout, Header(commandId, sequenceNo)),
                           layout, pdu)
  IN /\ sendBuffer' = LengthPatched(full)
     /\ wire' = Append(wire, Sent(sendBuffer'))

-----------------------------------------------------------------------------
\* as_smpp_esme_start has set the fields of the session.
RequestInit ==
  /\ \E mode \in Modes :
       session = [mode |-> mode, maxSmLength |-> maxSmLength, sequenceNo |-> 1]
  /\ sendBuffer = B!as_smpp_buffer_init(InitCapacity)
  /\ requests = <<>>
  /\ wire = <<>>

BindCommand ==
  IF session.mode = "TRANSMITTER" THEN BIND_TRANSMITTER
  ELSE IF session.mode = "RECEIVER" THEN BIND_RECEIVER ELSE BIND_TRANSCEIVER

Request(commandId, args) ==
  requests' = Append(requests, [commandId |-> commandId, sequenceNo |-> session.sequenceNo,
                                args |-> args])

as_smpp_bind(args) ==
  /\ Send(BindCommand, session.sequenceNo, WrittenBind,
          [name \in DOMAIN args \union {"version"} |->
             IF name = "version" THEN VERSION_3_4 ELSE args[name]])
  /\ session' = [session EXCEPT !.sequenceNo = @ + 1]
  /\ Request(BindCommand, args)

\* The application does not choose all fields of a submit_sm.
AllFields(args) ==
  [serviceType |-> args.serviceType,
   sourceTon |-> args.sourceTon, sourceNpi |-> args.sourceNpi, source |-> args.source,
   destinationTon |-> args.destinationTon, destinationNpi |-> args.destinationNpi,
   destination |-> args.destination,
   esmClass |-> 0, protocolId |-> 0, priority |-> 0, scheduleDeliveryTime |-> 0,
   validityPeriod |-> 0, registeredDelivery |-> RECEIPT_SUCCESS_OR_FAILURE,
   replaceIfPresent |-> 0, dataCoding |-> args.dataCoding, defaultMessageId |-> 0,
   messageLength |-> Len(args.message), message |-> args.message]

\* maxSmLength is not looked at.
as_smpp_submit_sm(args) ==
  /\ Send(SUBMIT_SM, session.sequenceNo, WrittenSubmitSm, AllFields(args))
  /\ session' = [session EXCEPT !.sequenceNo = IF @ + 1 >= INT32_MAX THEN 1 ELSE @ + 1]
  /\ Request(SUBMIT_SM, args)

Bind == requests = <<>> /\ \E args \in BindArgs : as_smpp_bind(args)

Submit ==
  /\ requests # <<>> /\ Len(requests) < MaxRequests
  /\ \E args \in SubmitArgs : as_smpp_submit_sm(args)

RequestNext == Bind \/ Submit

RequestSpec == RequestInit /\ [][RequestNext]_requestVars

-----------------------------------------------------------------------------
(***************************************************************************)
(* The peer: it reads the PDU and has more octets behind it, here zeros.   *)
(***************************************************************************)
More == 40
Received(octets) == octets \o [i \in 1..More |-> 0]

PeerBind ==
  <<String("systemId", "systemId"), String("password", "password"),
    String("systemType", "systemType"), Integer("version"),
    Integer("addressTon"), Integer("addressNpi"),
    String("addressRange", "addressRange")>>

\* The dates are strings for the peer.
PeerSubmitSm ==
  [i \in 1..Len(ReadSubmitSm) |->
     IF ReadSubmitSm[i].kind = "datetime" THEN [ReadSubmitSm[i] EXCEPT !.kind = "string"]
     ELSE ReadSubmitSm[i]]

PeerReads(request, octets) ==
  Deserialize(IF request.commandId = SUBMIT_SM THEN PeerSubmitSm ELSE PeerBind,
              Received(octets), HeaderLen, FALSE)

-----------------------------------------------------------------------------
(***************************************************************************)
(* Properties.                                                             *)
(***************************************************************************)

\* The strings fit in their fields with their terminators, and the message
\* has a length that fits in its octet.
Fits(request) ==
  LET layout == IF request.commandId = SUBMIT_SM THEN WrittenSubmitSm ELSE WrittenBind
  IN /\ \A i \in DOMAIN layout :
          layout[i].kind = "string" =>
            LET s == request.args[layout[i].name] IN s = NULL \/ Len(s) < layout[i].len
     /\ request.commandId = SUBMIT_SM => Len(request.args.message) < Base

\* What the peer reads in the octets of a request is the request.
Readable(request, octets) ==
  LET body == PeerReads(request, octets)
  IN /\ as_smpp_deserialize_pdu_header(octets) =
          [commandLength |-> Len(octets), commandId |-> request.commandId,
           status |-> ROK, sequenceNo |-> request.sequenceNo]
     /\ body.index = Len(octets)
     /\ \A name \in DOMAIN request.args :
          body.value[name] = IF request.args[name] = NULL THEN <<>> ELSE request.args[name]

(***************************************************************************)
(* Arguments that fit are what the peer reads, up to the longest strings   *)
(* and messages, whatever longer or shorter PDU was in the memory before:  *)
(* the header has the command of the mode and the length of the PDU, the   *)
(* last field ends with the last octet, and no octet was written past the  *)
(* memory of the buffer.                                                   *)
(***************************************************************************)
RequestsReadable ==
  /\ sendBuffer.dataLen <= Len(sendBuffer.ptr)
  /\ Len(wire) = Len(requests)
  /\ \A i \in DOMAIN requests : Fits(requests[i]) => Readable(requests[i], wire[i])
=============================================================================
