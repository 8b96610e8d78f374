----------------------------- MODULE Serializer -----------------------------
(***************************************************************************)
(* serializer.c: how values become octets and octets become values.        *)
(*                                                                         *)
(* A serialize function is the octets it appends to the buffer; Buffer     *)
(* says what appending does.  A deserialize function takes the memory of   *)
(* the buffer and the index at which it starts, counted from 0 as in the   *)
(* code, and is the value it reads with the index behind it.               *)
(***************************************************************************)
EXTENDS Integers, SequencesExt

CONSTANTS
  Base,           \* the number of values of an octet, 256
  Width,          \* the octets of each field of the header, 4
  MaxLen,         \* AS_SMPP_LENGTH_* of the string fields, their terminator included
  NULL,           \* the null pointer
  InitCapacity,   \* AS_SMPP_BUFFER_INIT_CAPACITY
  Slack,          \* see Buffer
  Garbage         \* an octet, the content of memory that was never written

B == INSTANCE Buffer

Octet == 0..(Base - 1)

ASSUME OctetAssumption == Base \in Nat /\ Base > 1 /\ Width \in Nat /\ Width > 0
ASSUME MemoryAssumption == InitCapacity \in Nat /\ Slack \in Nat /\ Garbage \in Octet
ASSUME StringAssumption ==
  /\ MaxLen \in [{"systemId", "password", "systemType", "addressRange", "serviceType",
                  "address", "messageId", "dateTime"} -> Nat]
  /\ \A f \in DOMAIN MaxLen : MaxLen[f] > 0

\* The constants of smpp-types.h.  The flag is the highest bit of a command id.
ROK == 0
BIND_RECEIVER == 1
BIND_TRANSMITTER == 2
BIND_TRANSCEIVER == 9
SUBMIT_SM == 4
DELIVER_SM == 5
ENQUIRE_LINK == 21
RESPONSE_FLAG == Base^Width \div 2
NACK == RESPONSE_FLAG

-----------------------------------------------------------------------------
(***************************************************************************)
(* Integers, most significant octet first; what does not fit is cut off.   *)
(***************************************************************************)
\* v, shifted to the right by 0 to len octets.
Shifted(v, len) ==
  LET shifted[k \in 0..len] == IF k = 0 THEN v ELSE shifted[k - 1] \div Base
  IN shifted

\* v has no more than len octets.
FitsIn(v, len) == Shifted(v, len)[len] = 0

\* The command ids fit in their field, with and without the flag.
ASSUME CommandAssumption ==
  /\ RESPONSE_FLAG \in Nat /\ ENQUIRE_LINK < RESPONSE_FLAG
  /\ FitsIn(RESPONSE_FLAG + ENQUIRE_LINK, Width)

as_smpp_serialize_integer(v, len) ==
  LET shifted == Shifted(v, len)
  IN [i \in 1..len |-> shifted[len - i] % Base]

\* The result after 0 to len octets: each comes behind those before it.
Gathered(ptr, index, len) ==
  LET result[k \in 0..len] == IF k = 0 THEN 0 ELSE result[k - 1] * Base + ptr[index + k]
  IN result

as_smpp_deserialize_integer(ptr, index, len) ==
  [value |-> Gathered(ptr, index, len)[len], index |-> index + len]

-----------------------------------------------------------------------------
(***************************************************************************)
(* Strings.  The value NULL is written as an empty string.  A string that  *)
(* is too long is cut, and its terminator with it.                         *)
(***************************************************************************)
\* Mutant of as_smpp_serialize_string: a string that just fits is cut, too.
StringCutEarly(s, maxLen) ==
  IF s = NULL THEN <<0>>
  ELSE SubSeq(Append(s, 0), 1, IF Len(s) + 1 >= maxLen THEN maxLen - 1 ELSE Len(s) + 1)

as_smpp_serialize_string(s, maxLen) ==
  IF s = NULL THEN <<0>>
  ELSE SubSeq(Append(s, 0), 1, IF Len(s) + 1 > maxLen THEN maxLen ELSE Len(s) + 1)

\* The octets from index on before the next 0, or before the end of the memory.
strlen(ptr, index) ==
  CHOOSE n \in 0..(Len(ptr) - index) :
    /\ n = Len(ptr) - index \/ ptr[index + n + 1] = 0
    /\ \A m \in 1..n : ptr[index + m] # 0

as_smpp_deserialize_string(ptr, index) ==
  [value |-> SubSeq(ptr, index + 1, index + strlen(ptr, index)),
   index |-> index + strlen(ptr, index) + 1]

as_smpp_deserialize_binary(ptr, index, len) ==
  [value |-> SubSeq(ptr, index + 1, index + len), index |-> index + len]

-----------------------------------------------------------------------------
(***************************************************************************)
(* The bodies of PDUs as layouts: the fields in the order in which the     *)
(* code writes, or reads, them.  The kind of a field is the function       *)
(* called for it.                                                          *)
(***************************************************************************)
Field(kind, name, len) == [kind |-> kind, name |-> name, len |-> len]
Integer(name) == Field("integer", name, 1)
Flag(name) == Field("flag", name, 1)
String(name, field) == Field("string", name, MaxLen[field])

\* as_smpp_serialize_address and as_smpp_deserialize_address.
Address(ton, npi, address) == <<Integer(ton), Integer(npi), String(address, "address")>>

WrittenSubmitSm ==
  <<String("serviceType", "serviceType")>>
    \o Address("sourceTon", "sourceNpi", "source")
    \o Address("destinationTon", "destinationNpi", "destination")
    \o <<Integer("esmClass"), Integer("protocolId"), Integer("priority"),
         Integer("scheduleDeliveryTime"), Integer("validityPeriod"),
         Integer("registeredDelivery"), Integer("replaceIfPresent"),
         Integer("dataCoding"), Integer("defaultMessageId"),
         Integer("messageLength"), Field("binary", "message", 0)>>

\* What as_smpp_deserialize_pdu_submit_sm reads behind the addresses.
ReadBehindAddresses ==
  <<Integer("esmClass"), Integer("protocolId"), Integer("priority"),
    Field("datetime", "scheduleDeliveryTime", MaxLen["dateTime"]),
    Field("datetime", "validityPeriod", MaxLen["dateTime"]),
    Integer("registeredDelivery"), Flag("replaceIfPresent"),
    Integer("dataCoding"), Integer("defaultMessageId"),
    Integer("messageLength"), Field("binary", "message", 0)>>

\* Mutant of ReadSubmitSm: the addresses the other way round.
ReadSubmitSmSwapped ==
  <<String("serviceType", "serviceType")>>
    \o Address("destinationTon", "destinationNpi", "destination")
    \o Address("sourceTon", "sourceNpi", "source")
    \o ReadBehindAddresses

ReadSubmitSm ==
  <<String("serviceType", "serviceType")>>
    \o Address("sourceTon", "sourceNpi", "source")
    \o Address("destinationTon", "destinationNpi", "destination")
    \o ReadBehindAddresses

\* The macros AS_SMPP_SERIALIZE_*, as as_smpp_bind uses them.
WrittenBind ==
  <<String("systemId", "systemId"), String("password", "password"),
    String("systemType", "systemType"), Integer("version"),
    Integer("addressTon"), Integer("addressNpi"),
    String("addressRange", "addressRange")>>

-----------------------------------------------------------------------------
(***************************************************************************)
(* Writing and reading along a layout.                                     *)
(***************************************************************************)
OctetsOf(field, value) ==
  IF field.kind \in {"integer", "flag"} THEN as_smpp_serialize_integer(value, field.len)
  ELSE IF field.kind = "binary" THEN value
  ELSE as_smpp_serialize_string(value, field.len)

Serialize(layout, pdu) ==
  FlattenSeq([i \in 1..Len(layout) |-> OctetsOf(layout[i], pdu[layout[i].name])])

\* as_smpp_deserialize_datetime reads the string into a local buffer and sets
\* isNull if there is something in it; otherwise the struct keeps what was in
\* its memory, here uninitialized.
as_smpp_deserialize_datetime(ptr, index, uninitialized) ==
  LET text == as_smpp_deserialize_string(ptr, index)
  IN [value |-> [isNull |-> text.value # <<>> \/ uninitialized], index |-> text.index]

ReadField(ptr, index, field, pdu, uninitialized) ==
  CASE field.kind = "integer"  -> as_smpp_deserialize_integer(ptr, index, field.len)
    [] field.kind = "flag"     -> [value |-> ptr[index + 1] = 1, index |-> index + 1]
    [] field.kind = "string"   -> as_smpp_deserialize_string(ptr, index)
    [] field.kind = "datetime" -> as_smpp_deserialize_datetime(ptr, index, uninitialized)
    [] field.kind = "binary"   -> as_smpp_deserialize_binary(ptr, index, pdu["messageLength"])

\* One more field: read is what was read before it, and the index behind that.
ReadNext(read, field, ptr, uninitialized) ==
  LET r == ReadField(ptr, read.index, field, read.value, uninitialized)
  IN [value |-> [name \in DOMAIN read.value \union {field.name} |->
                   IF name = field.name THEN r.value ELSE read.value[name]],
      index |-> r.index]

\* The fields read from index on, and the index behind them.
Deserialize(layout, ptr, index, uninitialized) ==
  LET read[n \in 0..Len(layout)] ==
        IF n = 0 THEN [value |-> [name \in {} |-> 0], index |-> index]
        ELSE ReadNext(read[n - 1], layout[n], ptr, uninitialized)
  IN read[Len(layout)]

-----------------------------------------------------------------------------
(***************************************************************************)
(* The header, and the TLVs behind a body.                                 *)
(***************************************************************************)
HeaderLen == 4 * Width

\* A string has at most Base octets, and the length of a PDU with as many fields
\* as a submit_sm has, each that long, fits in its field.
ASSUME LengthAssumption ==
  /\ \A f \in DOMAIN MaxLen : MaxLen[f] <= Base
  /\ FitsIn(HeaderLen + 18 * Base, Width)

as_smpp_serialize_pdu_header(commandLength, commandId, status, sequenceNo) ==
  as_smpp_serialize_integer(commandLength, Width)
    \o as_smpp_serialize_integer(commandId, Width)
    \o as_smpp_serialize_integer(status, Width)
    \o as_smpp_serialize_integer(sequenceNo, Width)

\* The header of a PDU that is in the memory whole.
as_smpp_deserialize_pdu_header(ptr) ==
  LET At(k) == as_smpp_deserialize_integer(ptr, k * Width, Width).value
  IN [commandLength |-> At(0), commandId |-> At(1), status |-> At(2), sequenceNo |-> At(3)]

\* The TLV at index, and the index behind it.
TlvAt(ptr, index) ==
  LET length == as_smpp_deserialize_integer(ptr, index + 2, 2).value
  IN [value |-> [tag |-> as_smpp_deserialize_integer(ptr, index, 2).value,
                 data |-> as_smpp_deserialize_binary(ptr, index + 4, length).value],
      index |-> index + 4 + length]

\* A round of the loop: one more TLV at the end of the list, if the PDU goes on.
ReadTlv(read, ptr, pduLength) ==
  IF read.index >= pduLength THEN read
  ELSE LET r == TlvAt(ptr, read.index)
       IN [value |-> Append(read.value, r.value), index |-> r.index]

\* Mutant of as_smpp_deserialize_tlv: an empty last TLV is not read.
TlvNotAtEnd(ptr, index, pduLength) ==
  LET read[n \in 0..pduLength] ==
        IF n = 0 THEN [value |-> <<>>, index |-> index]
        ELSE ReadTlv(read[n - 1], ptr, pduLength - 4)
  IN read[pduLength]

\* The TLVs from index up to the end of the PDU.  Each round reads octets, so
\* that there are no more rounds than the PDU has octets.
as_smpp_deserialize_tlv(ptr, index, pduLength) ==
  LET read[n \in 0..pduLength] ==
        IF n = 0 THEN [value |-> <<>>, index |-> index]
        ELSE ReadTlv(read[n - 1], ptr, pduLength)
  IN read[pduLength]
=============================================================================
