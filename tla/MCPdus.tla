------------------------------- MODULE MCPdus -------------------------------
(***************************************************************************)
(* A small instance of Dispatch and of Requests: octets of base 4, so that *)
(* a length of two octets goes up to 15 and a message of octets that it    *)
(* can count has up to 3.  Fields, strings and TLVs of the SMSC are empty, *)
(* short or long, and values of neighbouring fields differ; strings of the *)
(* application are NULL, empty, as long as their field allows, and one     *)
(* longer, and messages have zeros in them.                                *)
(*                                                                         *)
(* The two sides of a session have no variable in common: a behaviour      *)
(* shows one of them, and that of the SMSC in one mode of the session,     *)
(* which only the bind reads.                                              *)
(***************************************************************************)
EXTENDS Dispatch, Requests

PduInit == Init /\ RequestInit

PduNext ==
  \/ requests = <<>> /\ session.mode = "TRANSCEIVER" /\ Next /\ UNCHANGED requestVars
  \/ sent = <<>> /\ RequestNext /\ UNCHANGED vars

PduSpec == PduInit /\ [][PduNext]_<<vars, requestVars>>

MCMaxLen ==
  [systemId |-> 3, password |-> 2, systemType |-> 4, addressRange |-> 3, serviceType |-> 3,
   address |-> 4, messageId |-> 4, dateTime |-> 3]

-----------------------------------------------------------------------------
(***************************************************************************)
(* What the SMSC sends.                                                    *)
(***************************************************************************)
Pdu(commandId, status, sequenceNo, hasBody, fields, tlvs) ==
  [commandId |-> commandId, status |-> status, sequenceNo |-> sequenceNo,
   hasBody |-> hasBody, fields |-> fields, tlvs |-> tlvs]

NoFields == [name \in {} |-> 0]

BindResponsePdus ==
  {Pdu(c, 0, 1, TRUE, [systemId |-> <<2>>], <<>>) : c \in BindResponses}
    \union {Pdu(RESPONSE_FLAG + BIND_RECEIVER, 13, 1, FALSE, NoFields, <<>>),
            Pdu(RESPONSE_FLAG + BIND_RECEIVER, 0, 1, TRUE, [systemId |-> <<1, 3>>],
                << [tag |-> 3, data |-> <<1>>] >>)}

SubmitResponsePdus ==
  {Pdu(SubmitResponse, 0, 2, TRUE, [messageId |-> id], <<>>) : id \in {<<>>, <<3, 1, 2>>}}
    \union {Pdu(SubmitResponse, 88, 3, FALSE, NoFields, <<>>)}

Fields(serviceType, source, destination, date, replace, message) ==
  [serviceType |-> serviceType, sourceTon |-> 1, sourceNpi |-> 2, source |-> source,
   destinationTon |-> 3, destinationNpi |-> 0, destination |-> destination,
   esmClass |-> 2, protocolId |-> 3, priority |-> 1,
   scheduleDeliveryTime |-> date, validityPeriod |-> <<>>,
   registeredDelivery |-> 1, replaceIfPresent |-> replace, dataCoding |-> 3,
   defaultMessageId |-> 2, messageLength |-> Len(message), message |-> message]

DeliverFields ==
  {Fields(<<1, 3>>, <<3, 2, 1>>, <<>>, <<2, 2>>, 1, <<0, 3, 1>>),
   Fields(<<>>, <<>>, <<1, 1, 2>>, <<>>, 2, <<>>)}

Tlvs ==
  {<<>>,
   << [tag |-> 5, data |-> <<1, 0>>], [tag |-> 14, data |-> <<>>] >>}

MCSmscPdus ==
  BindResponsePdus \union SubmitResponsePdus
    \union {Pdu(DELIVER_SM, 0, 200, TRUE, f, t) : f \in DeliverFields, t \in Tlvs}
    \union {Pdu(ENQUIRE_LINK, 0, 77, TRUE, NoFields, <<>>),
            Pdu(NACK, 3, 2, TRUE, NoFields, <<>>),
            Pdu(7, 0, 9, TRUE, NoFields, << [tag |-> 1, data |-> <<2>>] >>),
            Pdu(RESPONSE_FLAG + 6, 0, 4, TRUE, NoFields, <<>>)}

MCHandlerSets == {{"bind", "submit", "deliver"}, {"submit"}}

-----------------------------------------------------------------------------
(***************************************************************************)
(* What the application passes.                                            *)
(***************************************************************************)
MCModes == {"TRANSMITTER", "RECEIVER", "TRANSCEIVER"}

MCBindArgs ==
  {[systemId |-> id, password |-> password, systemType |-> <<2, 2, 1>>,
    addressTon |-> 1, addressNpi |-> 3, addressRange |-> range] :
     id \in {<<>>, <<1, 3>>, <<1, 3, 2>>}, password \in {<<3>>, NULL}, range \in {NULL, <<2>>}}

MCSubmitArgs ==
  {[serviceType |-> serviceType, sourceTon |-> 1, sourceNpi |-> 2, source |-> source,
    destinationTon |-> 3, destinationNpi |-> 1, destination |-> destination,
    dataCoding |-> 2, message |-> message] :
     serviceType \in {NULL, <<1, 2>>, <<1, 2, 3>>}, source \in {<<>>, <<3, 1, 2>>},
     destination \in {<<2, 1, 3>>, <<1, 1, 1, 1>>},
     message \in {<<>>, <<0, 3, 0>>, <<1, 0, 2, 0>>}}
=============================================================================
