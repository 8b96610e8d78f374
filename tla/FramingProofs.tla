--------------------------- MODULE FramingProofs ----------------------------
(***************************************************************************)
(* Theorems about Framing, for any lengths of PDUs, pieces and buffers.    *)
(*                                                                         *)
(* The inductive invariant says where in the stream the worker is: the     *)
(* PDUs tile the octets written (Tiling), and the data in the buffer is    *)
(* the octets from the beginning of the first PDU not yet removed up to    *)
(* the last octet received (Position).  So the first cells of the buffer   *)
(* are a length whenever the worker reads one.                             *)
(***************************************************************************)
EXTENDS Framing, TLAPS

Types ==
  /\ sent \in Seq(Pdus)
  /\ written \in Nat
  /\ received \in Nat
  /\ linkUp \in BOOLEAN
  /\ receiveBuffer \in B!BufferOf(Nat)
  /\ Len(receiveBuffer.ptr) >= InitCapacity
  /\ handled \in Seq(Seq(Nat))
  /\ pc \in {"recv", "parse", "handle", "remove", "exit", "done"}
  /\ closed \in BOOLEAN

Inv == Types /\ Tiling /\ Position /\ HandledAsSent /\ MemoryBounded

-----------------------------------------------------------------------------
(***************************************************************************)
(* What the operations of the growing buffer do to the data in it, for any *)
(* contents and sizes.                                                     *)
(***************************************************************************)
\* A function on 1..n is a sequence of length n.
LEMMA FunctionIsSeq ==
  ASSUME NEW S, NEW n \in Nat, NEW f \in [1..n -> S]
  PROVE  f \in Seq(S) /\ Len(f) = n
OBVIOUS

\* ensure_capacity makes room for the block and keeps what is in the memory;
\* it grows the memory only if the block does not fit.
LEMMA EnsureCapacity ==
  ASSUME Slack \in Nat, NEW Cell, Garbage \in Cell,
         NEW b \in B!BufferOf(Cell), NEW n \in Nat,
         NEW e, e = B!as_smpp_buffer_ensure_capacity(b, n)
  PROVE  /\ e \in B!BufferOf(Cell)
         /\ e.dataLen = b.dataLen
         /\ b.dataLen + n <= Len(e.ptr)
         /\ \A i \in 1..Len(b.ptr) : e.ptr[i] = b.ptr[i]
         /\ \/ Len(e.ptr) = Len(b.ptr)
            \/ Len(b.ptr) < b.dataLen + n /\ Len(e.ptr) = Len(b.ptr) + n + Slack
<1> DEFINE more == B!Fresh(n + Slack)
<1>1. more \in Seq(Cell) /\ Len(more) = n + Slack
  BY DEF B!Fresh
<1>2. /\ b.ptr \in Seq(Cell) /\ Len(b.ptr) \in Nat
      /\ b.dataLen \in Nat /\ b.dataLen <= Len(b.ptr)
  BY DEF B!BufferOf
<1>3. CASE b.dataLen + n <= Len(b.ptr)
  <2>1. ~(b.dataLen + n > Len(b.ptr))
    BY <1>2, <1>3
  <2>2. e = b
    BY <2>1 DEF B!as_smpp_buffer_ensure_capacity
  <2>3. QED
    BY <1>2, <1>3, <2>2
<1>4. CASE b.dataLen + n > Len(b.ptr)
  <2>1. e = [ptr |-> b.ptr \o more, dataLen |-> b.dataLen]
    BY <1>2, <1>4 DEF B!as_smpp_buffer_ensure_capacity
  <2> HIDE DEF more
  <2>2. e.ptr = b.ptr \o more /\ e.dataLen = b.dataLen
    BY <2>1
  <2>3. /\ e.ptr \in Seq(Cell)
        /\ Len(e.ptr) = Len(b.ptr) + n + Slack
        /\ \A i \in 1..Len(b.ptr) : e.ptr[i] = b.ptr[i]
    <3> DEFINE p == b.ptr
    <3>1. p \in Seq(Cell) /\ more \in Seq(Cell) /\ Len(more) = n + Slack
      BY <1>1, <1>2
    <3> HIDE DEF p
    <3>2. /\ p \o more \in Seq(Cell)
          /\ Len(p \o more) = Len(p) + Len(more)
          /\ \A i \in 1..Len(p) : (p \o more)[i] = p[i]
      BY <3>1
    <3>3. e.ptr = p \o more /\ Len(p) = Len(b.ptr)
      BY <2>2 DEF p
    <3>4. e.ptr \in Seq(Cell)
      BY <3>2, <3>3
    <3>5. Len(e.ptr) = Len(b.ptr) + n + Slack
      <4>1. Len(e.ptr) = Len(b.ptr) + (n + Slack)
        BY <3>1, <3>2, <3>3
      <4>2. ASSUME NEW k \in Nat PROVE k + (n + Slack) = k + n + Slack
        OBVIOUS
      <4>3. Len(b.ptr) \in Nat
        BY <1>2
      <4>4. QED
        BY <4>1, <4>2, <4>3
    <3>6. \A i \in 1..Len(b.ptr) : e.ptr[i] = b.ptr[i]
      BY <3>2, <3>3 DEF p
    <3>7. QED
      BY <3>4, <3>5, <3>6
  <2>4. e \in [ptr : Seq(Cell), dataLen : Nat]
    BY <2>1, <2>2, <2>3, <1>2 DEF B!BufferOf
  <2>5. QED
    BY <1>2, <1>4, <2>2, <2>3, <2>4 DEF B!BufferOf
<1>5. QED
  BY <1>2, <1>3, <1>4

\* copy appends the cells to the data, and stays inside the memory.
LEMMA CopyData ==
  ASSUME Slack \in Nat, NEW Cell, Garbage \in Cell,
         NEW b \in B!BufferOf(Cell), NEW s \in Seq(Cell),
         NEW c, c = B!as_smpp_buffer_copy(b, s)
  PROVE  /\ c \in B!BufferOf(Cell)
         /\ c.dataLen = b.dataLen + Len(s)
         /\ \A i \in 1..b.dataLen : c.ptr[i] = b.ptr[i]
         /\ \A i \in 1..Len(s) : c.ptr[b.dataLen + i] = s[i]
         /\ \A i \in 1..Len(b.ptr) : i > c.dataLen => c.ptr[i] = b.ptr[i]
         /\ \/ Len(c.ptr) = Len(b.ptr)
            \/ /\ Len(b.ptr) < b.dataLen + Len(s)
               /\ Len(c.ptr) = Len(b.ptr) + Len(s) + Slack
<1> DEFINE e == B!as_smpp_buffer_ensure_capacity(b, Len(s))
           end == b.dataLen + Len(s)
           m == [i \in 1..Len(e.ptr) |->
                   IF b.dataLen < i /\ i <= end THEN s[i - b.dataLen] ELSE e.ptr[i]]
<1>1. Len(s) \in Nat /\ b.dataLen \in Nat /\ b.dataLen <= Len(b.ptr) /\ b.ptr \in Seq(Cell)
  BY DEF B!BufferOf
<1>2. /\ e \in B!BufferOf(Cell)
      /\ end <= Len(e.ptr)
      /\ \A i \in 1..Len(b.ptr) : e.ptr[i] = b.ptr[i]
      /\ \/ Len(e.ptr) = Len(b.ptr)
         \/ Len(b.ptr) < end /\ Len(e.ptr) = Len(b.ptr) + Len(s) + Slack
  BY <1>1, EnsureCapacity
<1>3. e.ptr \in Seq(Cell) /\ Len(e.ptr) \in Nat
  BY <1>2 DEF B!BufferOf
<1>4. c = [ptr |-> m, dataLen |-> end]
  BY DEF B!as_smpp_buffer_copy
<1> HIDE DEF e
<1>5. m \in Seq(Cell) /\ Len(m) = Len(e.ptr)
  <2>1. m \in [1..Len(e.ptr) -> Cell]
    BY <1>1, <1>3
  <2> HIDE DEF m
  <2>2. QED
    BY <1>3, <2>1, FunctionIsSeq
<1>6. c \in B!BufferOf(Cell)
  BY <1>1, <1>2, <1>4, <1>5 DEF B!BufferOf
<1>7. Len(b.ptr) <= Len(e.ptr)
  BY <1>1, <1>2, <1>3
<1>8. c.dataLen = end /\ c.ptr = m
  BY <1>4
<1>9. \A i \in 1..b.dataLen : m[i] = b.ptr[i]
  BY <1>1, <1>2, <1>3, <1>7
<1>10. \A i \in 1..Len(s) : m[b.dataLen + i] = s[i]
  BY <1>1, <1>2, <1>3
<1>11. \A i \in 1..Len(b.ptr) : i > end => m[i] = b.ptr[i]
  BY <1>1, <1>2, <1>3, <1>7
<1> HIDE DEF m
<1>12. QED
  BY <1>1, <1>2, <1>5, <1>6, <1>8, <1>9, <1>10, <1>11

\* remove, at index 0, drops len cells from the front of the data, or all of it.
LEMMA RemoveData ==
  ASSUME NEW Cell, NEW b \in B!BufferOf(Cell), NEW len \in Nat,
         NEW r, r = B!as_smpp_buffer_remove(b, 0, len)
  PROVE  /\ r \in B!BufferOf(Cell)
         /\ r.dataLen = IF b.dataLen <= len THEN 0 ELSE b.dataLen - len
         /\ \A i \in 1..r.dataLen : r.ptr[i] = b.ptr[i + len]
         /\ Len(r.ptr) = Len(b.ptr)
<1>1. /\ b.ptr \in Seq(Cell) /\ Len(b.ptr) \in Nat
      /\ b.dataLen \in Nat /\ b.dataLen <= Len(b.ptr)
  BY DEF B!BufferOf
<1>2. CASE b.dataLen <= len
  BY <1>1, <1>2 DEF B!as_smpp_buffer_remove, B!BufferOf
<1>3. CASE b.dataLen > len
  <2> DEFINE end == 0 + b.dataLen - len
             m == [i \in 1..Len(b.ptr) |->
                     IF 0 < i /\ i <= end THEN b.ptr[i + len - 0] ELSE b.ptr[i]]
  <2>1. r = [ptr |-> m, dataLen |-> end]
    BY <1>1, <1>3 DEF B!as_smpp_buffer_remove
  <2>2. m \in Seq(Cell) /\ Len(m) = Len(b.ptr)
    <3>1. m \in [1..Len(b.ptr) -> Cell]
      BY <1>1, <1>3
    <3> HIDE DEF m
    <3>2. QED
      BY <1>1, <3>1, FunctionIsSeq
  <2>3. end \in Nat /\ end <= Len(m) /\ end = b.dataLen - len
    BY <1>1, <1>3, <2>2
  <2>4. \A i \in 1..end : m[i] = b.ptr[i + len]
    BY <1>1, <1>3
  <2> HIDE DEF m, end
  <2>5. r \in B!BufferOf(Cell) /\ r.ptr = m /\ r.dataLen = end
    BY <2>1, <2>2, <2>3 DEF B!BufferOf
  <2>6. QED
    BY <1>1, <1>3, <2>2, <2>3, <2>4, <2>5
<1>4. QED
  BY <1>1, <1>2, <1>3

-----------------------------------------------------------------------------
USE LengthAssumption, SizeAssumption DEF LengthAssumption, SizeAssumption

\* A PDU is not empty, and its parts are numbers.
LEMMA PduType ==
  ASSUME NEW p \in Pdus
  PROVE  /\ p.first \in Nat /\ p.first > 0 /\ p.len \in PduLen
         /\ p.len \in Nat /\ p.len > 0 /\ LengthLen <= p.len /\ p.len <= MaxPduLen
         /\ LastOctet(p) \in Nat /\ LastOctet(p) = p.first + p.len - 1
<1>1. p.first \in Nat /\ p.first > 0 /\ p.len \in PduLen
  BY DEF Pdus
<1>2. p.len \in Nat /\ LengthLen <= p.len /\ p.len <= MaxPduLen
  BY <1>1
<1>3. p.len > 0
  BY <1>2
<1>4. QED
  BY <1>1, <1>2, <1>3 DEF LastOctet

\* The parts of the buffer.
LEMMA BufferType ==
  ASSUME receiveBuffer \in B!BufferOf(Nat)
  PROVE  /\ receiveBuffer.ptr \in Seq(Nat) /\ Len(receiveBuffer.ptr) \in Nat
         /\ receiveBuffer.dataLen \in Nat
         /\ receiveBuffer.dataLen <= Len(receiveBuffer.ptr)
BY DEF B!BufferOf

\* The end of the last PDU is a number.
LEMMA EndType ==
  ASSUME sent \in Seq(Pdus)
  PROVE  /\ End \in Nat
         /\ \A i \in DOMAIN sent : sent[i] \in Pdus /\ LastOctet(sent[i]) \in Nat
<1>1. Len(sent) \in Nat /\ DOMAIN sent = 1..Len(sent) /\ (sent # <<>> => Len(sent) > 0)
  OBVIOUS
<1>2. \A i \in DOMAIN sent : sent[i] \in Pdus
  BY <1>1
<1>3. \A i \in DOMAIN sent : LastOctet(sent[i]) \in Nat
  BY <1>2, PduType
<1>4. QED
  BY <1>1, <1>2, <1>3 DEF End

\* as_smpp_session_create and as_smpp_connect establish the invariant.
LEMMA InitInv == Init => Inv
<1> SUFFICES ASSUME Init PROVE Inv
  OBVIOUS
<1> USE DEF Init
<1>1. /\ receiveBuffer \in B!BufferOf(Nat)
      /\ receiveBuffer.dataLen = 0
      /\ Len(receiveBuffer.ptr) = InitCapacity
  BY DEF B!BufferOf, B!as_smpp_buffer_init, B!Fresh, Garbage
<1>2. Types
  <2>1. sent \in Seq(Pdus) /\ handled \in Seq(Seq(Nat))
    OBVIOUS
  <2>2. linkUp \in BOOLEAN /\ closed \in BOOLEAN
    OBVIOUS
  <2>3. Len(receiveBuffer.ptr) >= InitCapacity
    BY <1>1
  <2>4. pc \in {"recv", "parse", "handle", "remove", "exit", "done"}
    OBVIOUS
  <2>5. written \in Nat /\ received \in Nat
    OBVIOUS
  <2>6. QED
    BY <1>1, <2>1, <2>2, <2>3, <2>4, <2>5 DEF Types
<1>3. End = 0 /\ Len(sent) = 0 /\ Len(handled) = 0
  BY DEF End
<1>4. Tiling
  BY <1>3 DEF Tiling, Start
<1>5. Position
  BY <1>1, <1>3 DEF Position, Removed, Base, Start
<1>6. HandledAsSent /\ MemoryBounded
  BY <1>1, <1>3 DEF HandledAsSent, MemoryBounded
<1>7. QED
  BY <1>2, <1>4, <1>5, <1>6 DEF Inv

-----------------------------------------------------------------------------
\* A PDU that the SMSC sends continues the tiling, and leaves the worker where
\* it is.
LEMMA SendInv == ASSUME Inv, SmscSend PROVE Inv'
<1>1. PICK n \in PduLen :
        /\ sent' = Append(sent, [first |-> written + 1, len |-> n])
        /\ written' = written + n
  BY DEF SmscSend
<1> DEFINE p == [first |-> written + 1, len |-> n]
           L == Len(sent)
<1>2. /\ sent \in Seq(Pdus) /\ L \in Nat /\ written \in Nat /\ received \in Nat
      /\ written = End /\ received <= written /\ linkUp
      /\ n \in Nat /\ n > 0
  BY DEF Inv, Types, Tiling, SmscSend
<1>3. p \in Pdus /\ LastOctet(p) = written + n
  BY <1>2 DEF Pdus, LastOctet
<1>4. /\ sent' \in Seq(Pdus) /\ Len(sent') = L + 1 /\ sent'[L + 1] = p
      /\ \A i \in 1..L : sent'[i] = sent[i]
      /\ DOMAIN sent = 1..L /\ DOMAIN sent' = 1..(L + 1)
      /\ sent' # <<>>
  BY <1>1, <1>2, <1>3
<1>5. End' = written + n
  BY <1>3, <1>4 DEF End, LastOctet
<1>6. /\ \A i \in 1..(L + 1) : Start(i)' = Start(i)
      /\ Start(L + 2)' = written + n + 1
  BY <1>1, <1>2, <1>4, <1>5 DEF Start
<1>7. \A i \in 1..L : sent[i] \in Pdus /\ LastOctet(sent[i]) \in Nat
  BY <1>2, <1>4, EndType
<1>8. Types'
  BY <1>1, <1>2, <1>4 DEF Inv, Types, SmscSend
<1>9. Tiling'
  <2>0. Tiling
    BY DEF Inv
  <2>1. Start(1)' = 1
    BY <1>2, <1>6, <2>0 DEF Tiling
  <2>2. ASSUME NEW i \in DOMAIN sent'
        PROVE  Start(i + 1)' = LastOctet(sent'[i]) + 1
    <3>1. CASE i = L + 1
      <4>1. i + 1 = L + 2 /\ sent'[i] = p
        BY <1>2, <1>4, <3>1
      <4>2. ~(i + 1 <= Len(sent'))
        BY <1>2, <1>4, <4>1
      <4>3. Start(i + 1)' = End' + 1
        BY <4>2 DEF Start
      <4>4. QED
        BY <1>3, <1>5, <4>1, <4>3
    <3>2. CASE i \in 1..L
      BY <1>2, <1>4, <1>6, <2>0, <3>2 DEF Tiling
    <3>3. QED
      BY <1>2, <1>4, <3>1, <3>2
  <2>3. ASSUME NEW i \in DOMAIN sent', NEW j \in DOMAIN sent', i < j
        PROVE  LastOctet(sent'[i]) < sent'[j].first
    <3>1. i \in 1..L
      BY <1>2, <1>4, <2>3
    <3>2. CASE j = L + 1
      BY <1>2, <1>4, <1>7, <2>0, <3>1, <3>2 DEF Tiling
    <3>3. CASE j \in 1..L
      BY <1>4, <2>0, <2>3, <3>1, <3>3 DEF Tiling
    <3>4. QED
      BY <1>2, <1>4, <3>2, <3>3
  <2>4. ASSUME NEW i \in DOMAIN sent'
        PROVE  LastOctet(sent'[i]) <= End'
    <3>1. CASE i = L + 1
      BY <1>2, <1>3, <1>4, <1>5, <3>1
    <3>2. CASE i \in 1..L
      BY <1>2, <1>4, <1>5, <1>7, <2>0, <3>2 DEF Tiling
    <3>3. QED
      BY <1>2, <1>4, <3>1, <3>2
  <2>5. received' <= written' /\ written' = End'
    BY <1>1, <1>2, <1>5 DEF SmscSend
  <2>6. QED
    BY <1>2, <1>5, <2>1, <2>2, <2>3, <2>4, <2>5 DEF Tiling
<1>10. UNCHANGED <<received, receiveBuffer, commandLength, handled, pc, closed, linkUp>>
  BY DEF SmscSend
<1>11. Removed' = Removed /\ Base' = Base /\ Removed \in 0..L
  BY <1>10 DEF Removed, Base, Inv, Position
<1>12. Position'
  BY <1>2, <1>3, <1>4, <1>6, <1>7, <1>10, <1>11 DEF Inv, Position, LastOctet
<1>13. HandledAsSent' /\ MemoryBounded'
  <2>1. Len(handled) <= L /\ Len(handled) \in Nat /\ DOMAIN handled = 1..Len(handled)
    BY DEF Inv, HandledAsSent, Types
  <2>2. \A i \in DOMAIN handled : i \in DOMAIN sent /\ sent'[i] = sent[i]
    BY <1>2, <1>4, <2>1
  <2>3. HandledAsSent'
    BY <1>2, <1>4, <1>10, <2>1, <2>2 DEF Inv, HandledAsSent
  <2>4. MemoryBounded'
    BY <1>10 DEF Inv, MemoryBounded
  <2>5. QED
    BY <2>3, <2>4
<1>14. QED
  BY <1>8, <1>9, <1>12, <1>13 DEF Inv

\* The end of the connection only cuts octets off that recv did not return.
LEMMA BreakInv == ASSUME Inv, LinkBreaks PROVE Inv'
<1>1. /\ UNCHANGED <<sent, received, receiveBuffer, commandLength, handled, pc, closed>>
      /\ linkUp /\ linkUp' = FALSE /\ written' \in received..written
  BY DEF LinkBreaks
<1>2. End' = End /\ Removed' = Removed /\ Base' = Base /\ \A i : Start(i)' = Start(i)
  BY <1>1 DEF End, Removed, Base, Start, LastOctet
<1>3. End \in Nat
  BY EndType DEF Inv, Types
<1>4. Types' /\ HandledAsSent' /\ MemoryBounded'
  <2>1. Types'
    <3>1. linkUp' \in BOOLEAN
      BY <1>1
    <3>2. closed' \in BOOLEAN
      BY <1>1 DEF Inv, Types
    <3>3. written' \in Nat
      BY <1>1 DEF Inv, Types
    <3>4. QED
      BY <1>1, <3>1, <3>2, <3>3 DEF Inv, Types
  <2>2. HandledAsSent'
    BY <1>1 DEF Inv, HandledAsSent
  <2>3. MemoryBounded'
    BY <1>1 DEF Inv, MemoryBounded
  <2>4. QED
    BY <2>1, <2>2, <2>3
<1>5. Tiling'
  BY <1>1, <1>2, <1>3 DEF Inv, Types, Tiling, LastOctet
<1>6. Position'
  BY <1>1, <1>2 DEF Inv, Position, LastOctet
<1>7. QED
  BY <1>4, <1>5, <1>6 DEF Inv

-----------------------------------------------------------------------------
(***************************************************************************)
(* The worker.                                                             *)
(***************************************************************************)
\* The definitions about the stream do not depend on the worker.
LEMMA SameStream ==
  ASSUME UNCHANGED sent
  PROVE  End' = End /\ \A i : Start(i)' = Start(i)
BY DEF End, Start, LastOctet

\* The octets of a piece, one by one.
LEMMA OctetsType ==
  ASSUME NEW a \in Nat, NEW n \in Nat
  PROVE  /\ Octets(a + 1, a + n) \in Seq(Nat)
         /\ Len(Octets(a + 1, a + n)) = n
         /\ \A k \in 1..n : Octets(a + 1, a + n)[k] = a + k
<1>1. (a + n) - (a + 1) + 1 = n
  OBVIOUS
<1>2. Octets(a + 1, a + n) = [k \in 1..n |-> (a + 1) + k - 1]
  BY <1>1 DEF Octets
<1>3. Octets(a + 1, a + n) \in [1..n -> Nat]
  BY <1>2
<1>4. QED
  BY <1>2, <1>3, FunctionIsSeq

\* buffer_copy of octets.
LEMMA CopyOctets ==
  ASSUME NEW b \in B!BufferOf(Nat), NEW s \in Seq(Nat),
         NEW c, c = B!as_smpp_buffer_copy(b, s)
  PROVE  /\ c \in B!BufferOf(Nat)
         /\ c.dataLen = b.dataLen + Len(s)
         /\ \A i \in 1..b.dataLen : c.ptr[i] = b.ptr[i]
         /\ \A i \in 1..Len(s) : c.ptr[b.dataLen + i] = s[i]
         /\ \/ Len(c.ptr) = Len(b.ptr)
            \/ /\ Len(b.ptr) < b.dataLen + Len(s)
               /\ Len(c.ptr) = Len(b.ptr) + Len(s) + Slack
<1>1. Garbage \in Nat /\ Slack \in Nat
  BY DEF Garbage
<1>2. QED
  BY <1>1, CopyData

\* recv appends the next octets; with less than a PDU in the buffer, the memory
\* stays below its bound.
LEMMA ReceiveInv == ASSUME Inv, Receive PROVE Inv'
<1>1. PICK n \in 1..ChunkLen :
        /\ received + n <= written
        /\ receiveBuffer' =
             B!as_smpp_buffer_copy(receiveBuffer, Octets(received + 1, received + n))
        /\ received' = received + n
  BY DEF Receive
<1>2. UNCHANGED <<sent, written, linkUp, commandLength, handled, closed>>
  BY DEF Receive, network
<1>3. pc = "recv" /\ pc' = "parse"
  BY DEF Receive
<1> DEFINE s == Octets(received + 1, received + n)
           d == receiveBuffer.dataLen
<1>4. /\ received \in Nat /\ written \in Nat /\ n \in Nat /\ n <= ChunkLen
      /\ sent \in Seq(Pdus) /\ Len(sent) \in Nat
      /\ receiveBuffer \in B!BufferOf(Nat)
      /\ d \in Nat /\ Len(receiveBuffer.ptr) \in Nat
      /\ Len(receiveBuffer.ptr) >= InitCapacity
  BY BufferType DEF Inv, Types
<1>5. s \in Seq(Nat) /\ Len(s) = n /\ \A k \in 1..n : s[k] = received + k
  BY <1>4, OctetsType
<1>6. /\ receiveBuffer' \in B!BufferOf(Nat)
      /\ receiveBuffer'.dataLen = d + n
      /\ \A i \in 1..d : receiveBuffer'.ptr[i] = receiveBuffer.ptr[i]
      /\ \A i \in 1..n : receiveBuffer'.ptr[d + i] = s[i]
      /\ \/ Len(receiveBuffer'.ptr) = Len(receiveBuffer.ptr)
         \/ /\ Len(receiveBuffer.ptr) < d + n
            /\ Len(receiveBuffer'.ptr) = Len(receiveBuffer.ptr) + n + Slack
  <2> HIDE DEF s
  <2>1. receiveBuffer' = B!as_smpp_buffer_copy(receiveBuffer, s)
    BY <1>1 DEF s
  <2>3. /\ receiveBuffer' \in B!BufferOf(Nat)
        /\ receiveBuffer'.dataLen = receiveBuffer.dataLen + Len(s)
        /\ \A i \in 1..d : receiveBuffer'.ptr[i] = receiveBuffer.ptr[i]
        /\ \A i \in 1..Len(s) : receiveBuffer'.ptr[d + i] = s[i]
        /\ \/ Len(receiveBuffer'.ptr) = Len(receiveBuffer.ptr)
           \/ /\ Len(receiveBuffer.ptr) < d + Len(s)
              /\ Len(receiveBuffer'.ptr) = Len(receiveBuffer.ptr) + Len(s) + Slack
    <3>1. receiveBuffer \in B!BufferOf(Nat) /\ s \in Seq(Nat)
      BY <1>4, <1>5
    <3>2. QED
      BY <2>1, <3>1, CopyOctets
  <2>4. QED
    BY <1>5, <2>3
<1> HIDE DEF s
<1>7. Base' = Base /\ Removed' = Removed /\ Base = received - d
  BY <1>1, <1>2, <1>3, <1>4, <1>6 DEF Base, Removed
<1>8. End' = End /\ \A i : Start(i)' = Start(i)
  BY <1>2, SameStream
<1>9. Types'
  <2>1. linkUp' \in BOOLEAN /\ closed' \in BOOLEAN
    BY <1>2 DEF Inv, Types
  <2>2. sent' \in Seq(Pdus) /\ handled' \in Seq(Seq(Nat)) /\ written' \in Nat
    BY <1>2 DEF Inv, Types
  <2>3. Len(receiveBuffer'.ptr) >= InitCapacity
    BY <1>4, <1>6
  <2>4. received' \in Nat
    BY <1>1, <1>4
  <2>5. QED
    BY <1>3, <1>6, <2>1, <2>2, <2>3, <2>4 DEF Types
<1>10. Tiling'
  BY <1>1, <1>2, <1>8 DEF Inv, Tiling
<1>11. Position'
  <2>1. \A k \in 1..(d + n) : receiveBuffer'.ptr[k] = Base + k
    <3>1. ASSUME NEW k \in 1..(d + n) PROVE receiveBuffer'.ptr[k] = Base + k
      <4>1. CASE k \in 1..d
        BY <1>6, <4>1 DEF Inv, Position
      <4>2. CASE k > d
        <5>1. k - d \in 1..n /\ d + (k - d) = k
          BY <1>4, <4>2
        <5>2. receiveBuffer'.ptr[k] = s[k - d]
          BY <1>6, <5>1
        <5>3. QED
          BY <1>4, <1>5, <1>7, <5>1, <5>2
      <4>3. QED
        BY <1>4, <4>1, <4>2
    <3>2. QED
      BY <3>1
  <2>2. QED
    BY <1>2, <1>3, <1>6, <1>7, <1>8, <2>1 DEF Inv, Position
<1>12. HandledAsSent'
  BY <1>2 DEF Inv, HandledAsSent
<1>13. MemoryBounded'
  <2>1. CASE Len(receiveBuffer'.ptr) = Len(receiveBuffer.ptr)
    BY <2>1 DEF Inv, MemoryBounded
  <2>2. CASE /\ Len(receiveBuffer.ptr) < d + n
             /\ Len(receiveBuffer'.ptr) = Len(receiveBuffer.ptr) + n + Slack
    <3>1. d <= MaxPduLen - 1
      <4>1. Removed < Len(sent)
        \* Otherwise everything written was removed already.
        <5>1. Removed \in 0..Len(sent) /\ Base + 1 = Start(Removed + 1)
          BY DEF Inv, Position
        <5>2. ASSUME Removed = Len(sent) PROVE FALSE
          <6>1. Start(Removed + 1) = End + 1
            BY <1>4, <5>2 DEF Start
          <6>2. End \in Nat /\ written <= End
            BY EndType, <1>4 DEF Inv, Tiling
          <6>3. QED
            BY <1>1, <1>4, <1>7, <5>1, <6>1, <6>2
        <5>3. QED
          BY <1>4, <5>1, <5>2
      <4>2. received < LastOctet(sent[Removed + 1])
        BY <1>3, <4>1 DEF Inv, Position
      <4>3. Removed + 1 \in DOMAIN sent /\ Start(Removed + 1) = sent[Removed + 1].first
        BY <1>4, <4>1 DEF Inv, Position, Start
      <4>4. sent[Removed + 1] \in Pdus
        BY <1>4, <4>3, EndType
      <4>5. Base + 1 = sent[Removed + 1].first
        BY <4>3 DEF Inv, Position
      <4> DEFINE p == sent[Removed + 1]
      <4>6. /\ p.first \in Nat /\ p.len \in Nat /\ p.len <= MaxPduLen
            /\ LastOctet(p) = p.first + p.len - 1
        BY <4>4, PduType
      <4>7. received < p.first + p.len - 1 /\ received - d + 1 = p.first
        BY <1>7, <4>2, <4>5, <4>6
      <4> HIDE DEF p, d
      <4>8. QED
        BY <1>4, <4>6, <4>7
    <3>2. QED
      BY <1>4, <2>2, <3>1 DEF MemoryBounded
  <2>3. QED
    BY <1>6, <2>1, <2>2
<1>14. QED
  BY <1>9, <1>10, <1>11, <1>12, <1>13 DEF Inv

\* The first cells of the buffer are a length when the worker reads one: with
\* data in the buffer there is a PDU, and the buffer begins with it.
LEMMA LengthIsRead ==
  ASSUME Inv, pc = "parse", receiveBuffer.dataLen >= LengthLen
  PROVE  /\ Removed < Len(sent) /\ Removed + 1 \in DOMAIN sent
         /\ LengthRead(receiveBuffer.ptr) = sent[Removed + 1].len
<1> DEFINE d == receiveBuffer.dataLen
           r == Removed + 1
<1>1. /\ sent \in Seq(Pdus) /\ Len(sent) \in Nat /\ DOMAIN sent = 1..Len(sent)
      /\ received \in Nat /\ written \in Nat /\ d \in Nat
      /\ Removed \in 0..Len(sent)
      /\ Base + 1 = Start(r)
      /\ Base = received - d
      /\ \A k \in 1..d : receiveBuffer.ptr[k] = Base + k
  BY BufferType DEF Inv, Types, Position, Base
<1>2. Removed < Len(sent)
  <2>1. ASSUME Removed = Len(sent) PROVE FALSE
    <3>1. Start(r) = End + 1
      BY <1>1, <2>1 DEF Start
    <3>2. End \in Nat /\ received <= written /\ written <= End
      BY EndType, <1>1 DEF Inv, Tiling
    <3>3. d > 0
      BY <1>1
    <3>4. QED
      BY <1>1, <3>1, <3>2, <3>3
  <2>2. Removed \in 0..Len(sent) /\ Len(sent) \in Nat
    BY <1>1
  <2> HIDE DEF r, d
  <2>3. QED
    BY <2>1, <2>2
<1>3. r \in DOMAIN sent /\ Base + 1 = sent[r].first
  BY <1>1, <1>2 DEF Start
<1>4. \A k \in 1..LengthLen : receiveBuffer.ptr[k] = sent[r].first + k - 1
  <2>1. ASSUME NEW k \in 1..LengthLen
        PROVE  receiveBuffer.ptr[k] = sent[r].first + k - 1
    <3>1. k \in 1..d /\ k \in Nat /\ Base \in Int
      BY <1>1
    <3>2. receiveBuffer.ptr[k] = Base + k
      BY <1>1, <3>1
    <3>3. QED
      BY <1>3, <3>1, <3>2
  <2>2. QED
    BY <2>1
<1>5. receiveBuffer.ptr[1] = sent[r].first
  <2>1. 1 \in 1..LengthLen
    OBVIOUS
  <2>2. sent[r].first \in Nat
    BY <1>1, <1>3, EndType, PduType
  <2>3. QED
    BY <1>4, <2>1, <2>2
\* No other PDU begins there.
<1>6. ASSUME NEW i \in DOMAIN sent, receiveBuffer.ptr[1] = sent[i].first PROVE i = r
  <2>1. /\ sent[i] \in Pdus /\ sent[r] \in Pdus /\ i \in Nat /\ r \in Nat
    BY <1>1, <1>3, EndType
  <2>2. /\ LastOctet(sent[i]) >= sent[i].first /\ LastOctet(sent[r]) >= sent[r].first
        /\ sent[i].first \in Nat /\ sent[r].first \in Nat
        /\ LastOctet(sent[i]) \in Nat /\ LastOctet(sent[r]) \in Nat
    BY <2>1, PduType
  <2>3. sent[i].first = sent[r].first
    BY <1>5, <1>6
  <2> HIDE DEF r
  <2>4. /\ i < r => LastOctet(sent[i]) < sent[r].first
        /\ r < i => LastOctet(sent[r]) < sent[i].first
    BY <1>3, <1>6 DEF Inv, Tiling
  <2>5. QED
    BY <2>1, <2>2, <2>3, <2>4
<1> HIDE DEF r
<1>7. (CHOOSE i \in DOMAIN sent : receiveBuffer.ptr[1] = sent[i].first) = r
  BY <1>3, <1>5, <1>6
<1>8. LengthRead(receiveBuffer.ptr) = sent[r].len
  BY <1>3, <1>4, <1>7 DEF LengthRead
<1>9. QED
  BY <1>2, <1>3, <1>8 DEF r

\* The worker goes back to recv when the PDU at the front is not complete.
LEMMA NeedsMoreInv == ASSUME Inv, NeedsMore PROVE Inv'
<1>1. /\ UNCHANGED <<sent, written, linkUp, received, receiveBuffer, commandLength, handled, closed>>
      /\ pc = "parse" /\ pc' = "recv"
      /\ receiveBuffer.dataLen = 0 \/ ~HeaderComplete(receiveBuffer)
  BY DEF NeedsMore, network
<1>2. End' = End /\ Removed' = Removed /\ Base' = Base /\ \A i : Start(i)' = Start(i)
  BY <1>1, SameStream DEF Removed, Base
<1>3. Types' /\ Tiling' /\ HandledAsSent' /\ MemoryBounded'
  <2>1. Types'
    BY <1>1 DEF Inv, Types
  <2>2. Tiling'
    BY <1>1, <1>2 DEF Inv, Tiling
  <2>3. HandledAsSent' /\ MemoryBounded'
    BY <1>1 DEF Inv, HandledAsSent, MemoryBounded
  <2>4. QED
    BY <2>1, <2>2, <2>3
<1>4. ASSUME Removed < Len(sent) PROVE received < LastOctet(sent[Removed + 1])
  <2> DEFINE p == sent[Removed + 1]
             d == receiveBuffer.dataLen
  <2>1. /\ p \in Pdus /\ Base + 1 = p.first
        /\ Base = received - d /\ received \in Nat /\ d \in Nat
    BY <1>4, EndType, BufferType DEF Inv, Types, Position, Base, Start
  <2>2. /\ p.first \in Nat /\ p.len \in Nat /\ LengthLen <= p.len
        /\ LastOctet(p) = p.first + p.len - 1
    BY <2>1, PduType
  <2>3. d < p.len
    <3>1. CASE d < LengthLen
      BY <2>1, <2>2, <3>1
    <3>2. CASE d >= LengthLen
      <4>1. d # 0
        BY <2>1, <3>2
      <4>2. LengthRead(receiveBuffer.ptr) = p.len
        BY <1>1, <3>2, LengthIsRead
      <4>3. ~(p.len <= d)
        BY <1>1, <3>2, <4>1, <4>2 DEF HeaderComplete
      <4>4. QED
        BY <2>1, <2>2, <4>3
    <3>3. QED
      BY <2>1, <3>1, <3>2
  <2> HIDE DEF p, d
  <2>4. received < LastOctet(p)
    BY <2>1, <2>2, <2>3
  <2>5. QED
    BY <2>4 DEF p
<1>5. Position'
  BY <1>1, <1>2, <1>4 DEF Inv, Position
<1>6. QED
  BY <1>3, <1>5 DEF Inv

\* The header that is parsed is the one of the next PDU, which is all there.
LEMMA ParseInv == ASSUME Inv, ParseHeader PROVE Inv'
<1>1. /\ UNCHANGED <<sent, written, linkUp, received, receiveBuffer, handled, closed>>
      /\ pc = "parse" /\ pc' = "handle"
      /\ HeaderComplete(receiveBuffer)
      /\ commandLength' = LengthRead(receiveBuffer.ptr)
  BY DEF ParseHeader, network
<1>2. End' = End /\ Removed' = Removed /\ Base' = Base /\ \A i : Start(i)' = Start(i)
  BY <1>1, SameStream DEF Removed, Base
<1>3. Types' /\ Tiling' /\ HandledAsSent' /\ MemoryBounded'
  <2>1. Types'
    BY <1>1 DEF Inv, Types
  <2>2. Tiling'
    BY <1>1, <1>2 DEF Inv, Tiling
  <2>3. HandledAsSent' /\ MemoryBounded'
    BY <1>1 DEF Inv, HandledAsSent, MemoryBounded
  <2>4. QED
    BY <2>1, <2>2, <2>3
<1>4. /\ Removed < Len(sent)
      /\ commandLength' = sent[Removed + 1].len
      /\ commandLength' <= receiveBuffer.dataLen
  BY <1>1, LengthIsRead DEF HeaderComplete
<1>5. Position'
  BY <1>1, <1>2, <1>4 DEF Inv, Position
<1>6. QED
  BY <1>3, <1>5 DEF Inv

\* What the handler gets is the next PDU.
LEMMA HandledIsNext ==
  ASSUME Inv, HandlePdu
  PROVE  /\ Len(handled) < Len(sent) /\ Len(handled) + 1 \in DOMAIN sent
         /\ handled' = Append(handled, OctetsOf(sent[Len(handled) + 1]))
         /\ OctetsOf(sent[Len(handled) + 1]) \in Seq(Nat)
<1> DEFINE p == sent[Len(handled) + 1]
           ptr == receiveBuffer.ptr
<1>1. pc = "handle" /\ handled' = Append(handled, SubSeq(ptr, 1, commandLength))
  BY DEF HandlePdu
<1>2. /\ Removed = Len(handled) /\ Len(handled) \in Nat /\ Len(sent) \in Nat
      /\ Len(handled) < Len(sent)
      /\ commandLength = p.len /\ commandLength <= receiveBuffer.dataLen
      /\ Base + 1 = p.first
      /\ \A k \in 1..receiveBuffer.dataLen : ptr[k] = Base + k
  BY <1>1 DEF Inv, Types, Position, Removed, Start
<1>3. /\ ptr \in Seq(Nat) /\ Len(ptr) \in Nat /\ receiveBuffer.dataLen \in Nat
      /\ receiveBuffer.dataLen <= Len(ptr)
      /\ Base = received - receiveBuffer.dataLen /\ received \in Nat
  BY BufferType DEF Inv, Types, Base
<1>4. Len(handled) + 1 \in DOMAIN sent /\ p \in Pdus
  BY <1>2, EndType DEF Inv, Types
<1>5. /\ p.first \in Nat /\ p.len \in Nat /\ LastOctet(p) = p.first + p.len - 1
  BY <1>4, PduType
<1>6. OctetsOf(p) = [k \in 1..p.len |-> p.first + k - 1]
  <2>1. LastOctet(p) - p.first + 1 = p.len
    BY <1>5
  <2>2. QED
    BY <2>1 DEF OctetsOf, Octets
<1>7. OctetsOf(p) \in [1..p.len -> Nat]
  BY <1>5, <1>6
<1>8. OctetsOf(p) \in Seq(Nat)
  BY <1>5, <1>7, FunctionIsSeq
<1>9. SubSeq(ptr, 1, commandLength) = OctetsOf(p)
  <2>1. SubSeq(ptr, 1, p.len) = [k \in 1..p.len |-> ptr[k]]
    <3> HIDE DEF p, ptr
    <3>1. p.len - 1 + 1 = p.len /\ \A k \in 1..p.len : 1 + k - 1 = k
      BY <1>5
    <3>2. QED
      BY <1>2, <1>3, <1>5, <3>1
  <2>2. ASSUME NEW k \in 1..p.len PROVE ptr[k] = p.first + k - 1
    <3> HIDE DEF p, ptr
    <3>1. k \in 1..receiveBuffer.dataLen /\ k \in Nat
      BY <1>2, <1>3, <1>5
    <3>2. ptr[k] = Base + k
      BY <1>2, <3>1
    <3>3. QED
      BY <1>2, <1>3, <1>5, <3>1, <3>2
  <2>3. QED
    BY <1>2, <1>6, <2>1, <2>2
<1>10. QED
  BY <1>1, <1>2, <1>4, <1>8, <1>9

\* The dispatch handles the next PDU.
LEMMA HandleInv == ASSUME Inv, HandlePdu PROVE Inv'
<1>1. /\ UNCHANGED <<sent, written, linkUp, received, receiveBuffer, commandLength, closed>>
      /\ pc = "handle" /\ pc' = "remove"
  BY DEF HandlePdu, network
<1> DEFINE h == Len(handled)
           p == sent[h + 1]
<1>2. /\ h < Len(sent) /\ h + 1 \in DOMAIN sent
      /\ handled' = Append(handled, OctetsOf(p))
      /\ OctetsOf(p) \in Seq(Nat)
      /\ handled \in Seq(Seq(Nat)) /\ h \in Nat /\ Len(sent) \in Nat
  BY HandledIsNext DEF Inv, Types
<1>3. /\ handled' \in Seq(Seq(Nat)) /\ Len(handled') = h + 1
      /\ DOMAIN handled = 1..h /\ DOMAIN handled' = 1..(h + 1)
      /\ \A i \in 1..h : handled'[i] = handled[i]
      /\ handled'[h + 1] = OctetsOf(p)
  <2> HIDE DEF p
  <2>1. QED
    BY <1>2
<1>4. Removed = h /\ Removed' = h /\ Base' = Base /\ End' = End
      /\ \A i : Start(i)' = Start(i)
  BY <1>1, <1>2, <1>3, SameStream DEF Removed, Base
<1>5. Types'
  BY <1>1, <1>3 DEF Inv, Types
<1>6. Tiling'
  BY <1>1, <1>4 DEF Inv, Tiling
<1>7. Position'
  BY <1>1, <1>4 DEF Inv, Position
<1>8. HandledAsSent'
  <2>1. ASSUME NEW i \in DOMAIN handled' PROVE handled'[i] = OctetsOf(sent[i])
    <3>1. CASE i = h + 1
      BY <1>3, <3>1
    <3>2. CASE i \in 1..h
      BY <1>3, <3>2 DEF Inv, HandledAsSent
    <3>3. QED
      BY <1>2, <1>3, <3>1, <3>2
  <2>2. Len(handled') <= Len(sent)
    BY <1>2, <1>3
  <2>3. QED
    BY <1>1, <2>1, <2>2 DEF HandledAsSent
<1>9. MemoryBounded'
  BY <1>1 DEF Inv, MemoryBounded
<1>10. QED
  BY <1>5, <1>6, <1>7, <1>8, <1>9 DEF Inv

\* buffer_remove of octets, from the front.
LEMMA RemoveOctets ==
  ASSUME NEW b \in B!BufferOf(Nat), NEW len \in Nat, len <= b.dataLen,
         NEW r, r = B!as_smpp_buffer_remove(b, 0, len)
  PROVE  /\ r \in B!BufferOf(Nat)
         /\ r.dataLen = b.dataLen - len
         /\ \A i \in 1..r.dataLen : r.ptr[i] = b.ptr[i + len]
         /\ Len(r.ptr) = Len(b.ptr)
<1>1. b.dataLen \in Nat
  BY DEF B!BufferOf
<1>2. /\ r \in B!BufferOf(Nat)
      /\ r.dataLen = IF b.dataLen <= len THEN 0 ELSE b.dataLen - len
      /\ \A i \in 1..r.dataLen : r.ptr[i] = b.ptr[i + len]
      /\ Len(r.ptr) = Len(b.ptr)
  BY RemoveData
<1>3. QED
  BY <1>1, <1>2

\* After the PDU is removed the buffer begins with the next one.
LEMMA RemoveInv == ASSUME Inv, RemovePdu PROVE Inv'
<1> DEFINE d == receiveBuffer.dataLen
           h == Len(handled)
           len == commandLength
<1>1. /\ UNCHANGED <<sent, written, linkUp, received, handled, closed>>
      /\ pc = "remove" /\ pc' = "parse" /\ commandLength' = 0
      /\ receiveBuffer' = B!as_smpp_buffer_remove(receiveBuffer, 0, len)
  BY DEF RemovePdu, network
<1>2. /\ Removed = h - 1 /\ Removed \in 0..Len(sent) /\ Removed < Len(sent)
      /\ h \in Nat /\ Len(sent) \in Nat /\ DOMAIN sent = 1..Len(sent)
      /\ len = sent[Removed + 1].len /\ len <= d
      /\ Base + 1 = Start(Removed + 1)
      /\ Base = received - d /\ received \in Nat
      /\ receiveBuffer \in B!BufferOf(Nat) /\ d \in Nat
      /\ \A k \in 1..d : receiveBuffer.ptr[k] = Base + k
  BY <1>1, BufferType DEF Inv, Types, Position, Removed, Base
<1>3. h \in DOMAIN sent /\ Removed + 1 = h
  BY <1>2
<1>4. sent[h] \in Pdus /\ len = sent[h].len /\ len \in Nat
      /\ LastOctet(sent[h]) = sent[h].first + len - 1 /\ sent[h].first \in Nat
  BY <1>2, <1>3, EndType, PduType DEF Inv, Types
<1>5. /\ receiveBuffer' \in B!BufferOf(Nat)
      /\ receiveBuffer'.dataLen = d - len
      /\ \A i \in 1..(d - len) : receiveBuffer'.ptr[i] = receiveBuffer.ptr[i + len]
      /\ Len(receiveBuffer'.ptr) = Len(receiveBuffer.ptr)
  <2>1. receiveBuffer \in B!BufferOf(Nat) /\ len \in Nat /\ len <= receiveBuffer.dataLen
    BY <1>2, <1>4
  <2>2. /\ receiveBuffer' \in B!BufferOf(Nat)
        /\ receiveBuffer'.dataLen = receiveBuffer.dataLen - len
        /\ \A i \in 1..receiveBuffer'.dataLen :
             receiveBuffer'.ptr[i] = receiveBuffer.ptr[i + len]
        /\ Len(receiveBuffer'.ptr) = Len(receiveBuffer.ptr)
    BY <1>1, <2>1, RemoveOctets
  <2>3. QED
    BY <2>2
<1>6. End' = End /\ \A i : Start(i)' = Start(i)
  BY <1>1, SameStream
<1>7. Removed' = h /\ Base' = Base + len
  <2>1. Removed' = h
    BY <1>1 DEF Removed
  <2>2. Base' = received - (d - len)
    BY <1>1, <1>5 DEF Base
  <2> HIDE DEF len, d, h
  <2>3. QED
    BY <1>2, <1>4, <2>1, <2>2
<1>8. Types'
  <2>1. Len(receiveBuffer'.ptr) >= InitCapacity
    BY <1>5 DEF Inv, Types
  <2>2. linkUp' \in BOOLEAN /\ closed' \in BOOLEAN
    BY <1>1 DEF Inv, Types
  <2>3. QED
    BY <1>1, <1>5, <2>1, <2>2 DEF Inv, Types
<1>9. Tiling'
  BY <1>1, <1>6 DEF Inv, Tiling
<1>10. Position'
  <2>1. ASSUME NEW k \in 1..(d - len) PROVE receiveBuffer'.ptr[k] = Base + len + k
    <3>1. k + len \in 1..d /\ k \in Nat
      <4>1. d \in Nat /\ len \in Nat
        BY <1>2, <1>4
      <4> HIDE DEF d, len
      <4>2. QED
        BY <4>1
    <3>2. receiveBuffer'.ptr[k] = receiveBuffer.ptr[k + len]
      BY <1>5
    <3>3. receiveBuffer.ptr[k + len] = Base + (k + len)
      BY <1>2, <3>1
    <3>4. Base \in Int /\ len \in Int
      BY <1>2, <1>4
    <3> HIDE DEF len, d, h
    <3>5. QED
      BY <3>1, <3>2, <3>3, <3>4
  <2>2. Base + len + 1 = Start(h + 1)
    <3>1. Start(h + 1) = LastOctet(sent[h]) + 1
      BY <1>3 DEF Inv, Tiling
    <3>2. Base + 1 = sent[h].first
      BY <1>2, <1>3 DEF Start
    <3> HIDE DEF len, d, h
    <3>3. QED
      BY <1>2, <1>4, <3>1, <3>2
  <2>3. h \in 0..Len(sent)
    BY <1>2, <1>3
  <2>4. closed => pc = "done"
    BY DEF Inv, Position
  <2>5. QED
    BY <1>1, <1>5, <1>6, <1>7, <2>1, <2>2, <2>3, <2>4 DEF Position
<1>11. HandledAsSent'
  BY <1>1 DEF Inv, HandledAsSent
<1>12. MemoryBounded'
  BY <1>5 DEF Inv, MemoryBounded
<1>13. QED
  BY <1>8, <1>9, <1>10, <1>11, <1>12 DEF Inv

\* The end of the connection, and the end of the worker.
LEMMA ExitInv == ASSUME Inv, ReceiveFails \/ Exit PROVE Inv'
<1>1. /\ UNCHANGED <<sent, written, linkUp, received, receiveBuffer, commandLength, handled>>
      /\ \/ pc = "recv" /\ pc' = "exit" /\ ~linkUp /\ received = written /\ closed' = closed
         \/ pc = "exit" /\ pc' = "done" /\ closed' = TRUE
  BY DEF ReceiveFails, Exit, network
<1>2. End' = End /\ Removed' = Removed /\ Base' = Base /\ \A i : Start(i)' = Start(i)
  BY <1>1, SameStream DEF Removed, Base
<1>3. Types'
  <2>1. closed' \in BOOLEAN
    BY <1>1 DEF Inv, Types
  <2>2. QED
    BY <1>1, <2>1 DEF Inv, Types
<1>4. Tiling'
  BY <1>1, <1>2 DEF Inv, Tiling
<1>5. Position'
  BY <1>1, <1>2 DEF Inv, Position
<1>6. HandledAsSent' /\ MemoryBounded'
  BY <1>1 DEF Inv, HandledAsSent, MemoryBounded
<1>7. QED
  BY <1>3, <1>4, <1>5, <1>6 DEF Inv

\* Nothing changes.
LEMMA StutterInv == ASSUME Inv, UNCHANGED vars PROVE Inv'
<1>1. UNCHANGED <<sent, written, received, linkUp, receiveBuffer, commandLength, handled, pc, closed>>
  BY DEF vars
<1>2. End' = End /\ Removed' = Removed /\ Base' = Base /\ \A i : Start(i)' = Start(i)
  BY <1>1, SameStream DEF Removed, Base
<1>3. Types' /\ HandledAsSent' /\ MemoryBounded'
  BY <1>1 DEF Inv, Types, HandledAsSent, MemoryBounded
<1>4. Tiling' /\ Position'
  BY <1>1, <1>2 DEF Inv, Tiling, Position
<1>5. QED
  BY <1>3, <1>4 DEF Inv

-----------------------------------------------------------------------------
\* The invariant holds whatever the SMSC sends, in whatever pieces it arrives.
THEOREM Invariance == Spec => []Inv
<1>1. Init => Inv
  BY InitInv
<1>2. Inv /\ [Next]_vars => Inv'
  BY SendInv, BreakInv, ReceiveInv, NeedsMoreInv, ParseInv, HandleInv, RemoveInv,
     ExitInv, StutterInv DEF Next, Work
<1>3. QED
  BY <1>1, <1>2, PTL DEF Spec

\* The variables of the receive path keep their types, and the data of the
\* receive buffer always lies inside its memory.
THEOREM TypeCorrect == Spec => []TypeOK
<1>1. Inv => TypeOK
  <2> SUFFICES ASSUME Inv PROVE TypeOK
    OBVIOUS
  <2>1. \A i \in DOMAIN sent : sent[i] \in Pdus
    BY EndType DEF Inv, Types
  <2>2. /\ \A i \in DOMAIN receiveBuffer.ptr : receiveBuffer.ptr[i] \in Nat
        /\ receiveBuffer.dataLen \in 0..Len(receiveBuffer.ptr)
    BY BufferType DEF Inv, Types
  <2>3. commandLength \in PduLen \cup {0}
    <3>1. CASE pc \in {"handle", "remove"}
      <4>1. Removed + 1 \in DOMAIN sent /\ commandLength = sent[Removed + 1].len
        BY <3>1 DEF Inv, Types, Position
      <4>2. QED
        BY <2>1, <4>1, PduType
    <3>2. CASE pc \notin {"handle", "remove"}
      BY <3>2 DEF Inv, Position
    <3>3. QED
      BY <3>1, <3>2
  <2>4. received \in 0..written /\ written \in Nat
    BY DEF Inv, Types, Tiling
  <2>5. linkUp \in BOOLEAN /\ closed \in BOOLEAN
    BY DEF Inv, Types
  <2>6. pc \in {"recv", "parse", "handle", "remove", "exit", "done"}
    BY DEF Inv, Types
  <2>7. QED
    BY <2>1, <2>2, <2>3, <2>4, <2>5, <2>6 DEF TypeOK
<1>2. QED
  BY <1>1, Invariance, PTL

\* The worker handles the PDUs that were sent, each once and in order, for any
\* lengths of PDUs and any pieces.
THEOREM HandledCorrect == Spec => []HandledAsSent
<1>1. Inv => HandledAsSent
  BY DEF Inv
<1>2. QED
  BY <1>1, Invariance, PTL

\* A PDU that arrived and was not handled is not waiting when recv is called.
LEMMA InvDrained == Inv => DrainedAtRecv
<1> SUFFICES ASSUME Inv, pc \in {"recv", "exit", "done"},
                    NEW i \in DOMAIN sent, LastOctet(sent[i]) <= received
             PROVE  i <= Len(handled)
  BY DEF DrainedAtRecv
<1>1. /\ DOMAIN sent = 1..Len(sent) /\ Len(sent) \in Nat /\ i \in Nat
      /\ Len(handled) \in Nat /\ received \in Nat /\ Removed = Len(handled)
  BY DEF Inv, Types, Removed
<1>2. SUFFICES ASSUME i > Len(handled) PROVE FALSE
  BY <1>1
<1> DEFINE j == Len(handled) + 1
<1>3. /\ j \in DOMAIN sent /\ j <= i
      /\ received < LastOctet(sent[j])
  BY <1>1, <1>2 DEF Inv, Position
<1>4. LastOctet(sent[j]) <= LastOctet(sent[i])
  <2>1. CASE j = i
    BY <1>3, <2>1, EndType DEF Inv, Types
  <2>2. CASE j < i
    <3> HIDE DEF j
    <3>1. LastOctet(sent[j]) < sent[i].first
      BY <1>3, <2>2 DEF Inv, Tiling
    <3>2. /\ sent[i] \in Pdus /\ sent[j] \in Pdus
      BY <1>3, EndType DEF Inv, Types
    <3>3. /\ LastOctet(sent[i]) \in Nat /\ LastOctet(sent[j]) \in Nat
          /\ sent[i].first \in Nat /\ sent[i].first <= LastOctet(sent[i])
      BY <3>2, PduType
    <3>4. QED
      BY <3>1, <3>3
  <2>3. QED
    BY <1>1, <1>3, <2>1, <2>2
<1>5. LastOctet(sent[j]) \in Nat /\ LastOctet(sent[i]) \in Nat
  BY <1>3, EndType DEF Inv, Types
<1> HIDE DEF j
<1>6. QED
  BY <1>1, <1>3, <1>4, <1>5

\* The worker leaves no complete PDU in the buffer when it calls recv.
THEOREM DrainedCorrect == Spec => []DrainedAtRecv
<1>1. Inv => DrainedAtRecv
  BY InvDrained
<1>2. QED
  BY <1>1, Invariance, PTL

\* The memory of the receive buffer stays below a bound that the traffic does
\* not change.
THEOREM MemoryCorrect == Spec => []MemoryBounded
<1>1. Inv => MemoryBounded
  BY DEF Inv
<1>2. QED
  BY <1>1, Invariance, PTL

-----------------------------------------------------------------------------
(***************************************************************************)
(* The refinement of the stream of PDUs.                                   *)
(***************************************************************************)
\* What was handled was received before.
LEMMA HandledReceived ==
  ASSUME Inv, NEW i \in DOMAIN handled
  PROVE  i \in DOMAIN sent /\ LastOctet(sent[i]) <= received
<1>1. /\ DOMAIN sent = 1..Len(sent) /\ Len(sent) \in Nat
      /\ DOMAIN handled = 1..Len(handled) /\ Len(handled) \in Nat
      /\ Len(handled) <= Len(sent)
      /\ received \in Nat /\ receiveBuffer.dataLen \in Nat
      /\ Base = received - receiveBuffer.dataLen
  BY BufferType DEF Inv, Types, HandledAsSent, Base
<1>2. i \in DOMAIN sent /\ i \in Nat /\ i <= Len(handled)
  BY <1>1
<1>3. /\ sent[i] \in Pdus /\ LastOctet(sent[i]) \in Nat
      /\ sent[i].first \in Nat /\ sent[i].len \in Nat
      /\ LastOctet(sent[i]) = sent[i].first + sent[i].len - 1
  BY <1>2, EndType, PduType DEF Inv, Types
<1>4. CASE i <= Removed
  <2>1. Removed \in 0..Len(sent) /\ Base + 1 = Start(Removed + 1)
    BY DEF Inv, Position
  <2>2. CASE Removed = Len(sent)
    <3>1. Start(Removed + 1) = End + 1
      BY <1>1, <2>2 DEF Start
    <3>2. LastOctet(sent[i]) <= End /\ End \in Nat
      BY <1>2, EndType DEF Inv, Types, Tiling
    <3>3. QED
      BY <1>1, <1>3, <2>1, <3>1, <3>2
  <2>3. CASE Removed < Len(sent)
    <3>1. Removed + 1 \in DOMAIN sent /\ Start(Removed + 1) = sent[Removed + 1].first
      BY <1>1, <2>1, <2>3 DEF Start
    <3>2. i < Removed + 1
      BY <1>2, <1>4, <2>1
    <3>3. LastOctet(sent[i]) < sent[Removed + 1].first
      BY <1>2, <3>1, <3>2 DEF Inv, Tiling
    <3>4. QED
      BY <1>1, <1>3, <2>1, <3>1, <3>3
  <2>4. Removed = Len(sent) \/ Removed < Len(sent)
    <3>1. Len(sent) \in Nat
      BY <1>1
    <3>2. Removed \in 0..Len(sent)
      BY <2>1
    <3>3. Removed \in Int /\ Removed <= Len(sent)
      BY <3>1, <3>2
    <3>4. QED
      BY <3>1, <3>3
  <2>5. QED
    BY <2>2, <2>3, <2>4
<1>5. CASE ~(i <= Removed)
  <2>1. pc = "remove" /\ i = Removed + 1 /\ i = Len(handled)
    BY <1>1, <1>2, <1>5 DEF Removed
  <2>2. /\ Removed < Len(sent)
        /\ commandLength = sent[i].len /\ commandLength <= receiveBuffer.dataLen
        /\ Base + 1 = Start(i)
    BY <2>1 DEF Inv, Position
  <2>3. Base + 1 = sent[i].first
    BY <1>1, <1>2, <2>2 DEF Start
  <2>4. LastOctet(sent[i]) = Base + commandLength
    BY <1>1, <1>3, <2>2, <2>3
  <2>5. commandLength \in Nat
    BY <1>3, <2>2
  <2>6. QED
    BY <1>1, <1>2, <2>2, <2>4, <2>5
<1>6. QED
  BY <1>2, <1>4, <1>5

\* The stream as the abstract specification sees it.
stream == [i \in DOMAIN sent |-> OctetsOf(sent[i])]

LEMMA StreamType ==
  ASSUME NEW s \in Seq(Pdus), NEW f, f = [i \in DOMAIN s |-> OctetsOf(s[i])]
  PROVE  DOMAIN f = DOMAIN s /\ Len(f) = Len(s) /\ Len(s) \in Nat
         /\ DOMAIN s = 1..Len(s)
<1>1. Len(s) \in Nat /\ DOMAIN s = 1..Len(s)
  OBVIOUS
<1>2. DOMAIN f = 1..Len(s)
  BY <1>1
<1>3. f \in [1..Len(s) -> {f[i] : i \in 1..Len(s)}]
  BY <1>1
<1>4. Len(f) = Len(s)
  BY <1>1, <1>3, FunctionIsSeq
<1>5. QED
  BY <1>1, <1>2, <1>4

\* A PDU written is a PDU sent.
LEMMA SendRefines == ASSUME Inv, SmscSend PROVE Abstract!Send
<1>1. PICK n \in PduLen :
        /\ sent' = Append(sent, [first |-> written + 1, len |-> n])
        /\ written' = written + n
  BY DEF SmscSend
<1>2. Inv' /\ UNCHANGED <<handled, linkUp, closed>> /\ linkUp = TRUE /\ linkUp' = TRUE
  BY SendInv DEF SmscSend, Inv, Types
<1>3. /\ sent \in Seq(Pdus) /\ sent' \in Seq(Pdus)
      /\ written = End /\ written' = End'
  BY <1>2 DEF Inv, Types, Tiling
<1>4. lost = {} /\ lost' = {}
  <2>1. \A i \in DOMAIN sent : ~(LastOctet(sent[i]) > written)
    BY <1>3, EndType DEF Inv, Tiling
  <2>2. \A i \in DOMAIN sent' : ~(LastOctet(sent'[i]) > written')
    <3>1. ASSUME NEW i \in DOMAIN sent' PROVE LastOctet(sent'[i]) <= End'
      BY <1>2, <3>1 DEF Inv, Tiling
    <3>2. ASSUME NEW i \in DOMAIN sent' PROVE LastOctet(sent'[i]) \in Nat
      <4>1. sent'[i] \in Pdus
        BY <1>3, <3>2
      <4>2. QED
        BY <4>1, PduType
    <3>3. written' \in Nat
      BY <1>2 DEF Inv, Types
    <3>4. QED
      BY <1>3, <3>1, <3>2, <3>3
  <2>3. QED
    BY <2>1, <2>2 DEF lost
<1>5. Len(sent') = Len(sent) + 1 /\ \A i \in 1..Len(sent) : sent'[i] = sent[i]
  BY <1>1, <1>3
<1>6. Len(stream') = Len(stream) + 1
  <2>1. stream = [i \in DOMAIN sent |-> OctetsOf(sent[i])]
    BY DEF stream
  <2>2. stream' = [i \in DOMAIN sent' |-> OctetsOf(sent'[i])]
    BY DEF stream
  <2>3. Len(stream) = Len(sent)
    BY <1>3, <2>1, StreamType
  <2>4. Len(stream') = Len(sent')
    BY <1>3, <2>2, StreamType
  <2>5. QED
    BY <1>5, <2>3, <2>4
<1>7. \A i \in DOMAIN stream : stream'[i] = stream[i]
  <2>1. \A i \in 1..Len(sent) : i \in DOMAIN sent /\ i \in DOMAIN sent'
    BY <1>3, <1>5
  <2>2. QED
    BY <1>3, <1>5, <2>1 DEF stream
<1>8. QED
  BY <1>2, <1>4, <1>6, <1>7 DEF Abstract!Send, stream

\* A connection that ends loses PDUs that were not handled, the last ones.
LEMMA BreakRefines == ASSUME Inv, LinkBreaks PROVE Abstract!LinkBreaks
<1>1. /\ UNCHANGED <<sent, handled, closed>>
      /\ linkUp /\ linkUp' = FALSE /\ written' \in received..written
  BY DEF LinkBreaks
<1>2. written' \in Nat /\ received <= written' /\ received \in Nat /\ written \in Nat
  BY <1>1 DEF Inv, Types
<1>3. lost' = {i \in DOMAIN sent : LastOctet(sent[i]) > written'}
  BY <1>1 DEF lost
<1>4. \A i \in DOMAIN sent :
        /\ sent[i] \in Pdus /\ LastOctet(sent[i]) \in Nat
        /\ sent[i].first \in Nat /\ sent[i].first <= LastOctet(sent[i])
  <2>1. \A i \in DOMAIN sent : sent[i] \in Pdus
    BY EndType DEF Inv, Types
  <2>2. ASSUME NEW p \in Pdus
        PROVE  /\ LastOctet(p) \in Nat /\ p.first \in Nat
               /\ p.first <= LastOctet(p)
    BY PduType
  <2>3. QED
    BY <2>1, <2>2
<1>5. \A i \in DOMAIN handled : i \notin lost'
  BY <1>2, <1>3, <1>4, HandledReceived
<1>6. ASSUME NEW i \in DOMAIN sent, NEW j \in DOMAIN sent, i \in lost', i < j
      PROVE  j \in lost'
  <2>1. LastOctet(sent[i]) < sent[j].first
    BY <1>6 DEF Inv, Tiling
  <2>2. LastOctet(sent[i]) > written'
    BY <1>3, <1>6
  <2>3. LastOctet(sent[j]) > written'
    BY <1>2, <1>4, <2>1, <2>2
  <2>4. QED
    BY <1>3, <2>3
<1>7. DOMAIN stream = DOMAIN sent /\ stream' = stream
  BY <1>1 DEF stream
<1>8. lost' \subseteq DOMAIN sent
  BY <1>3
<1>9. QED
  BY <1>1, <1>5, <1>6, <1>7, <1>8 DEF Abstract!LinkBreaks, stream

\* A dispatch handles the next PDU, which was not lost.
LEMMA HandleRefines == ASSUME Inv, HandlePdu PROVE Abstract!Handle
<1>1. /\ UNCHANGED <<sent, written, linkUp, closed, received>> /\ pc = "handle"
      /\ UNCHANGED <<receiveBuffer, commandLength>> /\ pc' = "remove"
  BY DEF HandlePdu, network
<1> DEFINE h == Len(handled) + 1
<1>2. h \in DOMAIN sent /\ handled' = Append(handled, stream[h])
  BY HandledIsNext DEF stream
<1>3. h \notin lost
  <2>1. /\ Removed = Len(handled) /\ Len(handled) \in Nat
        /\ Len(sent) \in Nat /\ received \in Nat
        /\ receiveBuffer.dataLen \in Nat /\ Base = received - receiveBuffer.dataLen
    BY <1>1, BufferType DEF Inv, Types, Removed, Base
  <2>2. /\ commandLength = sent[h].len /\ commandLength <= receiveBuffer.dataLen
        /\ h <= Len(sent) /\ Base + 1 = Start(h)
    BY <1>1, <2>1 DEF Inv, Position
  <2>3. /\ Base + 1 = sent[h].first /\ sent[h].len \in Nat
        /\ LastOctet(sent[h]) = sent[h].first + sent[h].len - 1
    <3>1. sent[h] \in Pdus
      BY <1>2, EndType DEF Inv, Types
    <3>2. QED
      BY <2>2, <3>1, PduType DEF Start
  <2>4. LastOctet(sent[h]) <= received
    BY <2>1, <2>2, <2>3
  <2>5. LastOctet(sent[h]) \in Nat
    BY <1>2, EndType DEF Inv, Types
  <2>6. received \in Nat /\ written \in Nat /\ received <= written
    BY DEF Inv, Types, Tiling
  <2> HIDE DEF h
  <2>7. QED
    BY <2>4, <2>5, <2>6 DEF lost
<1>4. ~closed
  BY <1>1 DEF Inv, Position
<1>5. stream' = stream /\ lost' = lost /\ DOMAIN stream = DOMAIN sent
  BY <1>1 DEF stream, lost
<1>6. QED
  BY <1>1, <1>2, <1>3, <1>4, <1>5 DEF Abstract!Handle, stream

\* The session is closed when all that arrived was handled.
LEMMA ExitRefines == ASSUME Inv, Exit PROVE Abstract!Close
<1>1. /\ UNCHANGED <<sent, written, linkUp, handled>> /\ pc = "exit" /\ closed' = TRUE
  BY DEF Exit, network
<1>2. ~linkUp /\ received = written /\ received \in Nat
  BY <1>1 DEF Inv, Types, Position
<1>3. DrainedAtRecv
  BY InvDrained
<1>4. DOMAIN sent = DOMAIN handled \cup lost
  <2>1. DOMAIN handled \subseteq DOMAIN sent
    BY HandledReceived
  <2>2. lost \subseteq DOMAIN sent
    BY DEF lost
  <2>3. ASSUME NEW i \in DOMAIN sent, i \notin lost PROVE i \in DOMAIN handled
    <3>1. LastOctet(sent[i]) \in Nat
      BY EndType DEF Inv, Types
    <3>2. LastOctet(sent[i]) <= received
      BY <1>2, <2>3, <3>1 DEF lost
    <3>3. i <= Len(handled)
      BY <1>1, <1>3, <3>2 DEF DrainedAtRecv
    <3>4. /\ DOMAIN sent = 1..Len(sent) /\ DOMAIN handled = 1..Len(handled)
          /\ Len(sent) \in Nat /\ Len(handled) \in Nat
      BY DEF Inv, Types
    <3>5. QED
      BY <3>3, <3>4
  <2>4. QED
    BY <2>1, <2>2, <2>3
<1>5. stream' = stream /\ lost' = lost /\ DOMAIN stream = DOMAIN sent
  BY <1>1 DEF stream, lost
<1>6. QED
  BY <1>1, <1>2, <1>4, <1>5 DEF Abstract!Close, stream

\* The receive path implements a stream of PDUs that are handled in their order
\* until the connection is gone.
THEOREM Refinement == Spec => ImplementsPduStream
<1>1. Init => Abstract!Init
  <2> SUFFICES ASSUME Init PROVE Abstract!Init
    OBVIOUS
  <2>1. sent = <<>> /\ DOMAIN sent = {}
    BY DEF Init
  <2>2. stream = <<>> /\ lost = {}
    BY <2>1 DEF stream, lost
  <2>3. QED
    BY <2>2 DEF Init, Abstract!Init, stream
<1>2. Inv /\ [Next]_vars => [Abstract!Next]_(Abstract!vars)
  <2> SUFFICES ASSUME Inv, [Next]_vars
               PROVE  Abstract!Next \/ UNCHANGED Abstract!vars
    OBVIOUS
  <2>1. CASE SmscSend \/ LinkBreaks \/ HandlePdu \/ Exit
    BY <2>1, SendRefines, BreakRefines, HandleRefines, ExitRefines DEF Abstract!Next
  <2>2. CASE Receive \/ ReceiveFails \/ NeedsMore \/ ParseHeader \/ RemovePdu \/ UNCHANGED vars
    <3>1. UNCHANGED <<sent, written, handled, linkUp, closed>>
      BY <2>2 DEF Receive, ReceiveFails, NeedsMore, ParseHeader, RemovePdu, vars, network
    <3>2. stream' = stream /\ lost' = lost
      BY <3>1 DEF stream, lost
    <3>3. QED
      BY <3>1, <3>2 DEF Abstract!vars, stream
  <2>3. QED
    BY <2>1, <2>2 DEF Next, Work
<1>3. QED
  BY <1>1, <1>2, Invariance, PTL DEF Spec, ImplementsPduStream, Abstract!Spec

=============================================================================
