------------------------------ MODULE Framing -------------------------------
(***************************************************************************)
(* The receive path of smpp.c: as_smpp_receive_worker cuts the octets that *)
(* recv returns into PDUs, in session->receiveBuffer.                      *)
(*                                                                         *)
(* The octets of the connection are numbered 1, 2, ... in the order in     *)
(* which the SMSC writes them, and a cell of the buffer holds the number   *)
(* of the octet in it: what is right about the data is which octets are    *)
(* where.  The SMSC conforms to the protocol: the length in the header of  *)
(* a PDU is the number of its octets.                                      *)
(***************************************************************************)
EXTENDS Integers, Sequences

CONSTANTS
  PduLen,         \* the lengths of PDUs
  MaxPduLen,      \* the longest of them
  LengthLen,      \* AS_SMPP_LENGTH_COMMAND_LENGTH, 4 in the code
  ChunkLen,       \* the capacity of the worker's local buffer, 1024 in the code
  InitCapacity,   \* AS_SMPP_BUFFER_INIT_CAPACITY
  Slack,          \* see Buffer
  MaxPdus         \* bound: the number of PDUs the SMSC sends

ASSUME LengthAssumption ==
  /\ LengthLen \in Nat /\ LengthLen > 0
  /\ PduLen \subseteq Nat
  /\ MaxPduLen \in Nat
  /\ \A n \in PduLen : LengthLen <= n /\ n <= MaxPduLen

ASSUME SizeAssumption ==
  /\ ChunkLen \in Nat /\ ChunkLen > 0
  /\ Slack \in Nat
  /\ MaxPdus \in Nat
  /\ InitCapacity \in Nat /\ InitCapacity >= LengthLen

VARIABLES
  sent,           \* the PDUs the SMSC wrote: their first octet and their length
  written,        \* the number of octets that can arrive
  received,       \* the number of octets that recv returned
  linkUp,         \* the connection is up; when it is not, recv fails at the end
  receiveBuffer,  \* session->receiveBuffer
  commandLength,  \* header.commandLength of the worker, 0 while it has none
  handled,        \* the octets of each PDU that was handled
  pc,             \* where the worker is
  closed          \* session->state is CLOSED

network == <<sent, written, linkUp>>
vars == <<sent, written, received, linkUp, receiveBuffer, commandLength, handled, pc, closed>>

\* The content of memory that was never written.
Garbage == 0

B == INSTANCE Buffer

\* The octets from..to of the connection.
Octets(from, to) == [k \in 1..(to - from + 1) |-> from + k - 1]

LastOctet(pdu) == pdu.first + pdu.len - 1

Init ==
  /\ sent = <<>>
  /\ written = 0
  /\ received = 0
  /\ linkUp = TRUE
  /\ receiveBuffer = B!as_smpp_buffer_init(InitCapacity)
  /\ commandLength = 0
  /\ handled = <<>>
  /\ pc = "recv"
  /\ closed = FALSE

-----------------------------------------------------------------------------
(***************************************************************************)
(* The SMSC and the network.                                               *)
(***************************************************************************)
SmscSend ==
  /\ linkUp
  /\ Len(sent) < MaxPdus
  /\ \E n \in PduLen :
       /\ sent' = Append(sent, [first |-> written + 1, len |-> n])
       /\ written' = written + n
  /\ UNCHANGED <<received, linkUp, receiveBuffer, commandLength, handled, pc, closed>>

\* The connection ends; octets that recv did not return yet may be lost.
LinkBreaks ==
  /\ linkUp
  /\ linkUp' = FALSE
  /\ written' \in received..written
  /\ UNCHANGED <<sent, received, receiveBuffer, commandLength, handled, pc, closed>>

-----------------------------------------------------------------------------
(***************************************************************************)
(* The worker.                                                             *)
(***************************************************************************)
\* recv returns some of the octets that are there, and buffer_copy appends
\* them to the receive buffer.
Receive ==
  /\ pc = "recv"
  /\ \E n \in 1..ChunkLen :
       /\ received + n <= written
       /\ receiveBuffer' =
            B!as_smpp_buffer_copy(receiveBuffer, Octets(received + 1, received + n))
       /\ received' = received + n
  /\ pc' = "parse"
  /\ UNCHANGED <<network, commandLength, handled, closed>>

\* Mutant of ReceiveFails: the worker calls recv again.
ReceiveFailsRetries ==
  /\ pc = "recv"
  /\ ~linkUp /\ received = written
  /\ UNCHANGED vars

\* recv returns 0 or an error.
ReceiveFails ==
  /\ pc = "recv"
  /\ ~linkUp /\ received = written
  /\ pc' = "exit"
  /\ UNCHANGED <<network, received, receiveBuffer, commandLength, handled, closed>>

\* The integer in the first LengthLen cells, whatever the data is: the length
\* of a PDU when they hold the first octets of one, a meaningless one if not.
LengthRead(ptr) ==
  IF \E i \in DOMAIN sent : \A k \in 1..LengthLen : ptr[k] = sent[i].first + k - 1
    THEN sent[CHOOSE i \in DOMAIN sent : ptr[1] = sent[i].first].len
    ELSE 0

\* Mutant of HeaderComplete: the length of the data is not checked.
HeaderCompleteUnchecked(b) == b.dataLen >= LengthLen

\* Mutant of HeaderComplete: a PDU counts as incomplete until more follows.
HeaderCompleteStrict(b) ==
  /\ b.dataLen >= LengthLen
  /\ LengthRead(b.ptr) < b.dataLen

\* as_smpp_deserialize_pdu_header does not return INCOMPLETE_DATA.
HeaderComplete(b) ==
  /\ b.dataLen >= LengthLen
  /\ LengthRead(b.ptr) <= b.dataLen

\* The inner loop ends, for want of data or by the jump out of it.
NeedsMore ==
  /\ pc = "parse"
  /\ receiveBuffer.dataLen = 0 \/ ~HeaderComplete(receiveBuffer)
  /\ pc' = "recv"
  /\ UNCHANGED <<network, received, receiveBuffer, commandLength, handled, closed>>

ParseHeader ==
  /\ pc = "parse"
  /\ receiveBuffer.dataLen > 0 /\ HeaderComplete(receiveBuffer)
  /\ commandLength' = LengthRead(receiveBuffer.ptr)
  /\ pc' = "handle"
  /\ UNCHANGED <<network, received, receiveBuffer, handled, closed>>

\* The dispatch on the command id, with the handler it calls.
HandlePdu ==
  /\ pc = "handle"
  /\ handled' = Append(handled, SubSeq(receiveBuffer.ptr, 1, commandLength))
  /\ pc' = "remove"
  /\ UNCHANGED <<network, received, receiveBuffer, commandLength, closed>>

\* Mutant of RemovePdu: one PDU for each recv.
RemovePduReceive ==
  /\ pc = "remove"
  /\ receiveBuffer' = B!as_smpp_buffer_remove(receiveBuffer, 0, commandLength)
  /\ commandLength' = 0
  /\ pc' = "recv"
  /\ UNCHANGED <<network, received, handled, closed>>

RemovePdu ==
  /\ pc = "remove"
  /\ receiveBuffer' = B!as_smpp_buffer_remove(receiveBuffer, 0, commandLength)
  /\ commandLength' = 0
  /\ pc' = "parse"
  /\ UNCHANGED <<network, received, handled, closed>>

Exit ==
  /\ pc = "exit"
  /\ closed' = TRUE
  /\ pc' = "done"
  /\ UNCHANGED <<network, received, receiveBuffer, commandLength, handled>>

-----------------------------------------------------------------------------
Work == NeedsMore \/ ParseHeader \/ HandlePdu \/ RemovePdu \/ Exit

Next == SmscSend \/ LinkBreaks \/ Receive \/ ReceiveFails \/ Work

\* The worker runs on, and recv returns when there is something to return.
Fairness == WF_vars(Receive \/ ReceiveFails \/ Work)

Spec == Init /\ [][Next]_vars

FairSpec == Spec /\ Fairness

-----------------------------------------------------------------------------
(***************************************************************************)
(* Properties.                                                             *)
(***************************************************************************)
Pdus == {p \in [first : Nat, len : PduLen] : p.first > 0}

\* Every variable has its type, and the data of the buffer lies in its memory.
TypeOK ==
  /\ \A i \in DOMAIN sent : sent[i] \in Pdus
  /\ written \in Nat
  /\ received \in 0..written
  /\ linkUp \in BOOLEAN
  /\ \A i \in DOMAIN receiveBuffer.ptr : receiveBuffer.ptr[i] \in Nat
  /\ receiveBuffer.dataLen \in 0..Len(receiveBuffer.ptr)
  /\ commandLength \in PduLen \cup {0}
  /\ pc \in {"recv", "parse", "handle", "remove", "exit", "done"}
  /\ closed \in BOOLEAN

OctetsOf(pdu) == Octets(pdu.first, LastOctet(pdu))

(***************************************************************************)
(* Whatever pieces the octets arrive in, the worker handles exactly the    *)
(* PDUs that were sent, each once, whole and in their order.               *)
(***************************************************************************)
HandledAsSent ==
  /\ Len(handled) <= Len(sent)
  /\ \A i \in DOMAIN handled : handled[i] = OctetsOf(sent[i])

(***************************************************************************)
(* The worker asks the network for more only when every PDU that arrived   *)
(* whole was handled: no PDU waits for the next one to arrive.             *)
(***************************************************************************)
DrainedAtRecv ==
  pc \in {"recv", "exit", "done"} =>
    \A i \in DOMAIN sent : LastOctet(sent[i]) <= received => i <= Len(handled)

(***************************************************************************)
(* The memory of the buffer does not grow with the traffic: ensure_capacity*)
(* never shrinks it and grows it by more than is missing, but a buffer     *)
(* that holds less than a PDU when recv is called stays below this bound.  *)
(***************************************************************************)
MemoryBounded ==
  \/ Len(receiveBuffer.ptr) = InitCapacity
  \/ Len(receiveBuffer.ptr) <= MaxPduLen - 2 + 2 * ChunkLen + Slack

(***************************************************************************)
(* The position of the worker in the stream, for the proofs: the buffer    *)
(* holds consecutive octets, and it begins where the first PDU begins that *)
(* was not removed yet.                                                    *)
(***************************************************************************)
\* The last octet of the last PDU, and the first one of the PDU i.
End == IF sent = <<>> THEN 0 ELSE LastOctet(sent[Len(sent)])
Start(i) == IF i <= Len(sent) THEN sent[i].first ELSE End + 1

\* The PDUs that were removed from the buffer, and their octets.
Removed == IF pc = "remove" THEN Len(handled) - 1 ELSE Len(handled)
Base == received - receiveBuffer.dataLen

\* The PDUs follow each other without a gap, up to the last octet written.
Tiling ==
  /\ Start(1) = 1
  /\ \A i \in DOMAIN sent : Start(i + 1) = LastOctet(sent[i]) + 1
  /\ \A i, j \in DOMAIN sent : i < j => LastOctet(sent[i]) < sent[j].first
  /\ \A i \in DOMAIN sent : LastOctet(sent[i]) <= End
  /\ received <= written /\ written <= End
  /\ linkUp => written = End

Position ==
  /\ \A k \in 1..receiveBuffer.dataLen : receiveBuffer.ptr[k] = Base + k
  /\ Removed \in 0..Len(sent)
  /\ Base + 1 = Start(Removed + 1)
  /\ IF pc \in {"handle", "remove"}
       THEN /\ Removed < Len(sent)
            /\ commandLength = sent[Removed + 1].len
            /\ commandLength <= receiveBuffer.dataLen
       ELSE commandLength = 0
  /\ (pc \in {"recv", "exit", "done"} /\ Removed < Len(sent))
       => received < LastOctet(sent[Removed + 1])
  /\ pc \in {"exit", "done"} => ~linkUp /\ received = written
  /\ closed => pc = "done"

(***************************************************************************)
(* A PDU that arrives is handled in the end, even when nothing follows it, *)
(* and when the connection is gone the session gets CLOSED.                *)
(***************************************************************************)
PdusGetHandled ==
  \A i \in 1..MaxPdus :
    i <= Len(sent) ~>
      i <= Len(sent) /\ (i <= Len(handled) \/ LastOctet(sent[i]) > written)

ClosedInTheEnd == ~linkUp ~> closed

(***************************************************************************)
(* The receive path implements the stream of PDUs of FramingSpec.          *)
(***************************************************************************)
lost == {i \in DOMAIN sent : LastOctet(sent[i]) > written}

Abstract ==
  INSTANCE FramingSpec WITH sent <- [i \in DOMAIN sent |-> OctetsOf(sent[i])]

ImplementsPduStream == Abstract!Spec

=============================================================================
