------------------------------ MODULE SendPath ------------------------------
(***************************************************************************)
(* The send path of smpp.c: as_smpp_bind, as_smpp_submit_sm,               *)
(* as_smpp_enquire_link_response and as_smpp_deliver_sm_response.  They    *)
(* run in the application's threads and in the receive worker, and build   *)
(* their PDUs in one buffer, session->sendBuffer, under session->sendMutex.*)
(*                                                                         *)
(* A cell of the buffer is a field of a PDU.  The steps of a call are its  *)
(* statements: lock, reset dataLen, take the sequence number, serialize    *)
(* the header, serialize the body, write the length over the first field,  *)
(* send, unlock.  The initial state is the one esme_start is in after      *)
(* as_smpp_connect: the counter is 1 and the worker runs.                  *)
(***************************************************************************)
EXTENDS Integers, Sequences, FiniteSets

CONSTANTS
  App,          \* the application's threads
  Starter,      \* the one of them that is in as_smpp_esme_start
  Worker,       \* the thread of as_smpp_receive_worker
  PeerSeqNo,    \* the sequence numbers the SMSC gives to its requests
  MaxSeqNo,     \* stands for INT32_MAX
  BodyLen,      \* the number of fields behind the header, by operation
  InitCapacity, \* stands for AS_SMPP_BUFFER_INIT_CAPACITY
  Slack,        \* see Buffer
  MaxSends,     \* bound: no call is made once it could be one too many on the wire
  None          \* the owner of a free mutex

Thread  == App \cup {Worker}
Request == {"bind", "submit_sm"}
Answer  == {"enquire_link_resp", "deliver_sm_resp"}
Op      == Request \cup Answer

ASSUME ThreadAssumption == Starter \in App /\ Worker \notin App /\ None \notin Thread
ASSUME SeqNoAssumption == MaxSeqNo \in Nat /\ MaxSeqNo > 2 /\ PeerSeqNo \subseteq Nat
ASSUME SizeAssumption ==
  /\ BodyLen \in [Op -> Nat]
  /\ InitCapacity \in Nat
  /\ Slack \in Nat
  /\ MaxSends \in Nat

VARIABLES
  sendBuffer,   \* session->sendBuffer
  sendMutex,    \* the thread that holds session->sendMutex, or None
  sequenceNo,   \* session->sequenceNo
  pc,           \* where each thread is in the function it runs
  call,         \* the operation each thread runs and the sequence number it uses
  savedLen,     \* the local dataLen of as_smpp_send, 0 outside of it
  wire,         \* every send that put something on the wire, with its call
  linkUp        \* the connection carries data

vars == <<sendBuffer, sendMutex, sequenceNo, pc, call, savedLen, wire, linkUp>>

\* The content of memory that was never written.
Garbage == <<"garbage">>

B == INSTANCE Buffer

Goto(t, from, to) ==
  /\ pc[t] = from
  /\ pc' = [pc EXCEPT ![t] = to]

NoCall == [op |-> "none", seqNo |-> 0]

-----------------------------------------------------------------------------
(***************************************************************************)
(* The PDUs.  as_smpp_deliver_sm_response passes the command id of the     *)
(* enquire_link response to the header.                                    *)
(***************************************************************************)
CommandId(op) == IF op = "deliver_sm_resp" THEN "enquire_link_resp" ELSE op

Header(op, length, n) ==
  << <<"length", length>>, <<"command", CommandId(op)>>,
     <<"status", "ROK">>, <<"sequence", n>> >>

HeaderLen == 4

\* The fields of the body carry what the caller of this very call passed.
Body(op, t, n) == [i \in 1..BodyLen[op] |-> <<"body", t, n, i>>]

\* The PDU as a call of its own buffer would send it.
Pdu(op, t, n) == Header(op, HeaderLen + BodyLen[op], n) \o Body(op, t, n)

\* Mutant of Successor: the counter does not wrap.
SuccessorNoWrap(op, n) == n + 1

\* as_smpp_get_sequence_no for a submit_sm; as_smpp_bind increments only.
Successor(op, n) ==
  IF op = "submit_sm" /\ n + 1 >= MaxSeqNo THEN 1 ELSE n + 1

-----------------------------------------------------------------------------
Init ==
  /\ sendBuffer = B!as_smpp_buffer_init(InitCapacity)
  /\ sendMutex = None
  /\ sequenceNo = 1
  /\ pc = [t \in Thread |-> IF t = Starter THEN "connected" ELSE "idle"]
  /\ call = [t \in Thread |-> NoCall]
  /\ savedLen = [t \in Thread |-> 0]
  /\ wire = <<>>
  /\ linkUp = TRUE

InCall(t) == pc[t] \notin {"idle", "connected"}

\* Bound: the calls that run can still all put their PDU on the wire.
RoomToCall == Len(wire) + Cardinality({t \in Thread : InCall(t)}) < MaxSends

Call(t, from, op, n) ==
  /\ RoomToCall
  /\ Goto(t, from, "lock")
  /\ call' = [call EXCEPT ![t] = [op |-> op, seqNo |-> n]]
  /\ UNCHANGED <<sendBuffer, sendMutex, sequenceNo, savedLen, wire, linkUp>>

\* esme_start goes on to its bind.
CallBind(t) == t = Starter /\ Call(t, "connected", "bind", 0)

\* Nothing stops a thread that waited for OPENED only from submitting
\* before the bind.
CallSubmit(t) == t \in App /\ Call(t, "idle", "submit_sm", 0)

\* The worker answers a request of the SMSC with the number of its header.
CallAnswer(t) ==
  /\ t = Worker
  /\ \E op \in Answer, n \in PeerSeqNo : Call(t, "idle", op, n)

\* Mutant of LockSend: the buffer is built without the mutex.
LockSendNoLock(t) ==
  /\ Goto(t, "lock", "reset")
  /\ sendMutex' = t
  /\ UNCHANGED <<sendBuffer, sequenceNo, call, savedLen, wire, linkUp>>

LockSend(t) ==
  /\ Goto(t, "lock", "reset")
  /\ sendMutex = None
  /\ sendMutex' = t
  /\ UNCHANGED <<sendBuffer, sequenceNo, call, savedLen, wire, linkUp>>

ResetBuffer(t) ==
  /\ Goto(t, "reset", IF call[t].op \in Request THEN "number" ELSE "header")
  /\ sendBuffer' = [sendBuffer EXCEPT !.dataLen = 0]
  /\ UNCHANGED <<sendMutex, sequenceNo, call, savedLen, wire, linkUp>>

\* Mutant of TakeNumber: the bind does not advance the counter.
TakeNumberBindKeeps(t) ==
  /\ Goto(t, "number", "header")
  /\ call' = [call EXCEPT ![t].seqNo = sequenceNo]
  /\ sequenceNo' = IF call[t].op = "bind" THEN sequenceNo
                                         ELSE Successor(call[t].op, sequenceNo)
  /\ UNCHANGED <<sendBuffer, sendMutex, savedLen, wire, linkUp>>

\* The number of a request; submit_sm stores it in *a_sequenceNo here.
TakeNumber(t) ==
  /\ Goto(t, "number", "header")
  /\ call' = [call EXCEPT ![t].seqNo = sequenceNo]
  /\ sequenceNo' = Successor(call[t].op, sequenceNo)
  /\ UNCHANGED <<sendBuffer, sendMutex, savedLen, wire, linkUp>>

\* The header is serialized with a length of 0.
WriteHeader(t) ==
  /\ Goto(t, "header", "body")
  /\ sendBuffer' = B!as_smpp_buffer_copy(sendBuffer, Header(call[t].op, 0, call[t].seqNo))
  /\ UNCHANGED <<sendMutex, sequenceNo, call, savedLen, wire, linkUp>>

WriteBody(t) ==
  /\ Goto(t, "body", "save")
  /\ sendBuffer' = B!as_smpp_buffer_copy(sendBuffer, Body(call[t].op, t, call[t].seqNo))
  /\ UNCHANGED <<sendMutex, sequenceNo, call, savedLen, wire, linkUp>>

\* as_smpp_send: save dataLen, rewind, write the length, restore dataLen.
SaveLength(t) ==
  /\ Goto(t, "save", "patch")
  /\ savedLen' = [savedLen EXCEPT ![t] = sendBuffer.dataLen]
  /\ sendBuffer' = [sendBuffer EXCEPT !.dataLen = 0]
  /\ UNCHANGED <<sendMutex, sequenceNo, call, wire, linkUp>>

\* Mutant of PatchLength: dataLen is not restored.
PatchLengthOnly(t) ==
  /\ Goto(t, "patch", "send")
  /\ sendBuffer' = B!as_smpp_buffer_copy(sendBuffer, << <<"length", savedLen[t]>> >>)
  /\ savedLen' = [savedLen EXCEPT ![t] = 0]
  /\ UNCHANGED <<sendMutex, sequenceNo, call, wire, linkUp>>

PatchLength(t) ==
  /\ Goto(t, "patch", "send")
  /\ sendBuffer' = [B!as_smpp_buffer_copy(sendBuffer, << <<"length", savedLen[t]>> >>)
                      EXCEPT !.dataLen = savedLen[t]]
  /\ savedLen' = [savedLen EXCEPT ![t] = 0]
  /\ UNCHANGED <<sendMutex, sequenceNo, call, wire, linkUp>>

\* The call of thread t, with the cells of it that reached the wire.
Sent(t, cells) == [op |-> call[t].op, by |-> t, seqNo |-> call[t].seqNo, cells |-> cells]

\* Mutant of NetSend: on an error the caller returns before the unlock.
NetSendReturns(t) ==
  /\ Goto(t, "send", IF linkUp THEN "unlock" ELSE "idle")
  /\ IF linkUp THEN wire' = Append(wire, Sent(t, B!Data(sendBuffer))) ELSE UNCHANGED wire
  /\ UNCHANGED <<sendBuffer, sendMutex, sequenceNo, call, savedLen, linkUp>>

\* as_smpp_net_send.  A connection that breaks meanwhile lets some of the
\* data out; when it is broken, send fails and the caller ignores it.
NetSend(t) ==
  /\ Goto(t, "send", "unlock")
  /\ \/ /\ linkUp
        /\ wire' = Append(wire, Sent(t, B!Data(sendBuffer)))
        /\ UNCHANGED linkUp
     \/ /\ linkUp
        /\ \E k \in 0..sendBuffer.dataLen :
             wire' = Append(wire, Sent(t, SubSeq(sendBuffer.ptr, 1, k)))
        /\ linkUp' = FALSE
     \/ /\ ~linkUp
        /\ UNCHANGED <<wire, linkUp>>
  /\ UNCHANGED <<sendBuffer, sendMutex, sequenceNo, call, savedLen>>

UnlockSend(t) ==
  /\ Goto(t, "unlock", "idle")
  /\ sendMutex = t
  /\ sendMutex' = None
  /\ call' = [call EXCEPT ![t] = NoCall]
  /\ UNCHANGED <<sendBuffer, sequenceNo, savedLen, wire, linkUp>>

\* The peer or the network ends the connection.
LinkBreaks ==
  /\ linkUp
  /\ linkUp' = FALSE
  /\ UNCHANGED <<sendBuffer, sendMutex, sequenceNo, pc, call, savedLen, wire>>

-----------------------------------------------------------------------------
Build(t) ==
  \/ ResetBuffer(t) \/ TakeNumber(t) \/ WriteHeader(t) \/ WriteBody(t)
  \/ SaveLength(t) \/ PatchLength(t) \/ NetSend(t) \/ UnlockSend(t)

Next ==
  \/ \E t \in Thread : CallBind(t) \/ CallSubmit(t) \/ CallAnswer(t)
  \/ \E t \in Thread : LockSend(t) \/ Build(t)
  \/ LinkBreaks

(***************************************************************************)
(* A call runs on, send included: the peer reads what it is sent.  A mutex *)
(* that is free again and again is granted to every thread that asks.      *)
(***************************************************************************)
Fairness == \A t \in Thread : SF_vars(LockSend(t)) /\ WF_vars(Build(t))

Spec == Init /\ [][Next]_vars

FairSpec == Spec /\ Fairness

-----------------------------------------------------------------------------
(***************************************************************************)
(* Properties.                                                             *)
(***************************************************************************)
\* The points at which a thread holds sendMutex, in the order of the code.
Building == {"reset", "number", "header", "body", "save", "patch", "send", "unlock"}

\* Numbers up to INT32_MAX itself occur: a bind does not wrap the counter.
SeqNo == 1..MaxSeqNo

Cell ==
  {<<"garbage">>, <<"status", "ROK">>} \cup ({"command"} \X Op)
    \cup ({"length", "sequence"} \X Nat) \cup ({"body"} \X Thread \X Nat \X Nat)

\* Every variable has its type, and the data of the buffer lies in its memory.
TypeOK ==
  /\ \A i \in DOMAIN sendBuffer.ptr : sendBuffer.ptr[i] \in Cell
  /\ sendBuffer.dataLen \in 0..Len(sendBuffer.ptr)
  /\ sendMutex \in Thread \cup {None}
  /\ sequenceNo \in SeqNo
  /\ pc \in [Thread -> {"connected", "idle", "lock"} \cup Building]
  /\ call \in [Thread -> [op : Op \cup {"none"}, seqNo : Nat]]
  /\ savedLen \in [Thread -> Nat]
  /\ linkUp \in BOOLEAN

Prefixes(s) == {SubSeq(s, 1, k) : k \in 0..Len(s)}

(***************************************************************************)
(* Whatever the threads do meanwhile, each send puts on the wire the PDU   *)
(* of its own call, whole, with its own length and number, and nothing of  *)
(* the calls that used the buffer before.  Only the last send can be cut   *)
(* short, and then the connection is gone.                                 *)
(***************************************************************************)
WireIntact ==
  \A i \in DOMAIN wire :
    LET pdu == Pdu(wire[i].op, wire[i].by, wire[i].seqNo)
    IN \/ wire[i].cells = pdu
       \/ i = Len(wire) /\ ~linkUp /\ wire[i].cells \in Prefixes(pdu)

RequestsBetween(i, j) == {k \in i..(j - 1) : wire[k].op \in Request}

(***************************************************************************)
(* A number is not used again before all others were: two requests of the  *)
(* session with the same number are at least MaxSeqNo - 1 requests apart,  *)
(* so that a response names one outstanding request.                       *)
(***************************************************************************)
NumbersDistinct ==
  \A i, j \in DOMAIN wire :
    (/\ i < j /\ {wire[i].op, wire[j].op} \subseteq Request
     /\ Cardinality(RequestsBetween(i, j)) < MaxSeqNo - 1)
      => wire[i].seqNo # wire[j].seqNo

(***************************************************************************)
(* A call returns: no thread waits for sendMutex for ever, and the error   *)
(* of a send on a broken connection does not leave the mutex locked.       *)
(***************************************************************************)
EveryCallReturns == \A t \in Thread : pc[t] = "lock" ~> pc[t] = "idle"

(***************************************************************************)
(* The send functions implement atomic sends.  A call takes effect where   *)
(* it sends; until then the number it took counts as the next one.         *)
(***************************************************************************)
Numbered == {t \in Thread : /\ pc[t] \in {"header", "body", "save", "patch", "send"}
                            /\ call[t].op \in Request}

nextNo == IF Numbered = {} THEN sequenceNo ELSE call[sendMutex].seqNo

Abstract == INSTANCE SendPathSpec

ImplementsAtomicSend == Abstract!Spec

(***************************************************************************)
(* The answer to a deliver_sm is what the name of                          *)
(* as_smpp_deliver_sm_response says, a deliver_sm response.                *)
(***************************************************************************)
DeliverSmAnswered ==
  \A i \in DOMAIN wire :
    (wire[i].op = "deliver_sm_resp" /\ Len(wire[i].cells) >= 2)
      => wire[i].cells[2] = <<"command", "deliver_sm_resp">>

=============================================================================
