--------------------------- MODULE SendPathProofs ---------------------------
(***************************************************************************)
(* Theorems about SendPath, for any threads, lengths of bodies, sizes of   *)
(* the buffer and greatest number.                                         *)
(*                                                                         *)
(* The inductive invariant says what the thread that holds sendMutex has   *)
(* put into the buffer so far (Content), and that nobody else is past the  *)
(* lock (Exclusion).  The counter stays at most MaxSeqNo because there is  *)
(* one bind, and it comes when the counter has wrapped or is low           *)
(* (BindPending): as_smpp_bind does not wrap it.                           *)
(***************************************************************************)
EXTENDS SendPath, FiniteSetTheorems, TLAPS

Send == [op : Op, by : Thread, seqNo : Nat, cells : Seq(Cell)]

Types ==
  /\ sendBuffer \in B!BufferOf(Cell)
  /\ sendMutex \in Thread \cup {None}
  /\ sequenceNo \in SeqNo
  /\ pc \in [Thread -> {"connected", "idle", "lock"} \cup Building]
  /\ call \in [Thread -> [op : Op \cup {"none"}, seqNo : Nat]]
  /\ savedLen \in [Thread -> Nat]
  /\ wire \in Seq(Send)
  /\ linkUp \in BOOLEAN

\* The thread between lock and unlock is the one that holds the mutex.
Exclusion == \A t \in Thread : pc[t] \in Building <=> sendMutex = t

\* What a thread calls: an operation from the lock to the unlock.
Calls ==
  \A t \in Thread :
    /\ pc[t] \in {"lock"} \cup Building => call[t].op \in Op
    /\ pc[t] = "connected" => t = Starter
    /\ pc[t] \in {"lock"} \cup Building /\ call[t].op \in Answer
         => call[t].seqNo \in PeerSeqNo
    /\ pc[t] = "number" => call[t].op \in Request
    /\ call[t].op = "bind" => t = Starter /\ pc[t] # "connected"

\* The bind is still to take its number.
BindToCome ==
  \/ pc[Starter] = "connected"
  \/ call[Starter].op = "bind" /\ pc[Starter] \in {"lock", "reset", "number"}

BindPending == BindToCome => sequenceNo < MaxSeqNo

\* The number a request took is the one before the counter.
NumberTaken ==
  \A t \in Numbered :
    call[t].seqNo \in SeqNo /\ sequenceNo = Successor(call[t].op, call[t].seqNo)

FullLen(t) == HeaderLen + BodyLen[call[t].op]

\* The fields of t's PDU, with a given number in the place of the length.
Fields(t, length) ==
  Header(call[t].op, length, call[t].seqNo) \o Body(call[t].op, t, call[t].seqNo)

\* The memory begins with the first n fields of t's PDU.
Holds(t, length, n) ==
  /\ n <= Len(sendBuffer.ptr)
  /\ \A i \in 1..n : sendBuffer.ptr[i] = Fields(t, length)[i]

\* What t has put into the buffer when it is at a point of its call.
ContentOf(t) ==
  /\ pc[t] \in {"number", "header", "patch"} => sendBuffer.dataLen = 0
  /\ pc[t] = "body" => sendBuffer.dataLen = HeaderLen /\ Holds(t, 0, HeaderLen)
  /\ pc[t] = "save" => sendBuffer.dataLen = FullLen(t) /\ Holds(t, 0, FullLen(t))
  /\ pc[t] = "patch" => savedLen[t] = FullLen(t) /\ Holds(t, 0, FullLen(t))
  /\ pc[t] = "send" => sendBuffer.dataLen = FullLen(t) /\ Holds(t, FullLen(t), FullLen(t))

Content == \A t \in Thread : ContentOf(t)

Inv == Types /\ Exclusion /\ Calls /\ BindPending /\ NumberTaken /\ Content

-----------------------------------------------------------------------------
(***************************************************************************)
(* What the operations of the growing buffer do to the data in it, for any *)
(* contents and sizes.                                                     *)
(***************************************************************************)
\* A function on 1..n is a sequence of length n.
LEMMA FunctionIsSeq ==
  ASSUME NEW S, NEW n \in Nat, NEW f \in [1..n -> S]
  PROVE  f \in Seq(S) /\ Len(f) = n
OBVIOUS

\* ensure_capacity makes room for the block and keeps what is in the memory;
\* it grows the memory only if the block does not fit.
LEMMA EnsureCapacity ==
  ASSUME Slack \in Nat, NEW Item, Garbage \in Item,
         NEW b \in B!BufferOf(Item), NEW n \in Nat,
         NEW e, e = B!as_smpp_buffer_ensure_capacity(b, n)
  PROVE  /\ e \in B!BufferOf(Item)
         /\ e.dataLen = b.dataLen
         /\ b.dataLen + n <= Len(e.ptr)
         /\ \A i \in 1..Len(b.ptr) : e.ptr[i] = b.ptr[i]
         /\ \/ Len(e.ptr) = Len(b.ptr)
            \/ Len(b.ptr) < b.dataLen + n /\ Len(e.ptr) = Len(b.ptr) + n + Slack
<1> DEFINE more == B!Fresh(n + Slack)
<1>1. more \in Seq(Item) /\ Len(more) = n + Slack
  BY DEF B!Fresh
<1>2. /\ b.ptr \in Seq(Item) /\ Len(b.ptr) \in Nat
      /\ b.dataLen \in Nat /\ b.dataLen <= Len(b.ptr)
  BY DEF B!BufferOf
<1>3. CASE b.dataLen + n <= Len(b.ptr)
  <2>1. ~(b.dataLen + n > Len(b.ptr))
    BY <1>2, <1>3
  <2>2. e = b
    BY <2>1 DEF B!as_smpp_buffer_ensure_capacity
  <2>3. QED
    BY <1>2, <1>3, <2>2
<1>4. CASE b.dataLen + n > Len(b.ptr)
  <2>1. e = [ptr |-> b.ptr \o more, dataLen |-> b.dataLen]
    BY <1>2, <1>4 DEF B!as_smpp_buffer_ensure_capacity
  <2> HIDE DEF more
  <2>2. e.ptr = b.ptr \o more /\ e.dataLen = b.dataLen
    BY <2>1
  <2>3. /\ e.ptr \in Seq(Item)
        /\ Len(e.ptr) = Len(b.ptr) + n + Slack
        /\ \A i \in 1..Len(b.ptr) : e.ptr[i] = b.ptr[i]
    <3> DEFINE p == b.ptr
    <3>1. p \in Seq(Item) /\ more \in Seq(Item) /\ Len(more) = n + Slack
      BY <1>1, <1>2
    <3> HIDE DEF p
    <3>2. /\ p \o more \in Seq(Item)
          /\ Len(p \o more) = Len(p) + Len(more)
          /\ \A i \in 1..Len(p) : (p \o more)[i] = p[i]
      BY <3>1
    <3>3. e.ptr = p \o more /\ Len(p) = Len(b.ptr)
      BY <2>2 DEF p
    <3>4. e.ptr \in Seq(Item)
      BY <3>2, <3>3
    <3>5. Len(e.ptr) = Len(b.ptr) + n + Slack
      <4>1. Len(e.ptr) = Len(b.ptr) + (n + Slack)
        BY <3>1, <3>2, <3>3
      <4>2. ASSUME NEW k \in Nat PROVE k + (n + Slack) = k + n + Slack
        OBVIOUS
      <4>3. Len(b.ptr) \in Nat
        BY <1>2
      <4>4. QED
        BY <4>1, <4>2, <4>3
    <3>6. \A i \in 1..Len(b.ptr) : e.ptr[i] = b.ptr[i]
      BY <3>2, <3>3 DEF p
    <3>7. QED
      BY <3>4, <3>5, <3>6
  <2>4. e \in [ptr : Seq(Item), dataLen : Nat]
    BY <2>1, <2>2, <2>3, <1>2 DEF B!BufferOf
  <2>5. QED
    BY <1>2, <1>4, <2>2, <2>3, <2>4 DEF B!BufferOf
<1>5. QED
  BY <1>2, <1>3, <1>4

\* copy appends the cells to the data, and stays inside the memory.
LEMMA CopyData ==
  ASSUME Slack \in Nat, NEW Item, Garbage \in Item,
         NEW b \in B!BufferOf(Item), NEW s \in Seq(Item),
         NEW c, c = B!as_smpp_buffer_copy(b, s)
  PROVE  /\ c \in B!BufferOf(Item)
         /\ c.dataLen = b.dataLen + Len(s)
         /\ \A i \in 1..b.dataLen : c.ptr[i] = b.ptr[i]
         /\ \A i \in 1..Len(s) : c.ptr[b.dataLen + i] = s[i]
         /\ \A i \in 1..Len(b.ptr) : i > c.dataLen => c.ptr[i] = b.ptr[i]
         /\ \/ Len(c.ptr) = Len(b.ptr)
            \/ /\ Len(b.ptr) < b.dataLen + Len(s)
               /\ Len(c.ptr) = Len(b.ptr) + Len(s) + Slack
<1> DEFINE e == B!as_smpp_buffer_ensure_capacity(b, Len(s))
           end == b.dataLen + Len(s)
           m == [i \in 1..Len(e.ptr) |->
                   IF b.dataLen < i /\ i <= end THEN s[i - b.dataLen] ELSE e.ptr[i]]
<1>1. Len(s) \in Nat /\ b.dataLen \in Nat /\ b.dataLen <= Len(b.ptr) /\ b.ptr \in Seq(Item)
  BY DEF B!BufferOf
<1>2. /\ e \in B!BufferOf(Item)
      /\ end <= Len(e.ptr)
      /\ \A i \in 1..Len(b.ptr) : e.ptr[i] = b.ptr[i]
      /\ \/ Len(e.ptr) = Len(b.ptr)
         \/ Len(b.ptr) < end /\ Len(e.ptr) = Len(b.ptr) + Len(s) + Slack
  BY <1>1, EnsureCapacity
<1>3. e.ptr \in Seq(Item) /\ Len(e.ptr) \in Nat
  BY <1>2 DEF B!BufferOf
<1>4. c = [ptr |-> m, dataLen |-> end]
  BY DEF B!as_smpp_buffer_copy
<1> HIDE DEF e
<1>5. m \in Seq(Item) /\ Len(m) = Len(e.ptr)
  <2>1. m \in [1..Len(e.ptr) -> Item]
    BY <1>1, <1>3
  <2> HIDE DEF m
  <2>2. QED
    BY <1>3, <2>1, FunctionIsSeq
<1>6. c \in B!BufferOf(Item)
  BY <1>1, <1>2, <1>4, <1>5 DEF B!BufferOf
<1>7. Len(b.ptr) <= Len(e.ptr)
  BY <1>1, <1>2, <1>3
<1>8. c.dataLen = end /\ c.ptr = m
  BY <1>4
<1>9. \A i \in 1..b.dataLen : m[i] = b.ptr[i]
  BY <1>1, <1>2, <1>3, <1>7
<1>10. \A i \in 1..Len(s) : m[b.dataLen + i] = s[i]
  BY <1>1, <1>2, <1>3
<1>11. \A i \in 1..Len(b.ptr) : i > end => m[i] = b.ptr[i]
  BY <1>1, <1>2, <1>3, <1>7
<1> HIDE DEF m
<1>12. QED
  BY <1>1, <1>2, <1>5, <1>6, <1>8, <1>9, <1>10, <1>11

-----------------------------------------------------------------------------
USE ThreadAssumption, SeqNoAssumption, SizeAssumption
    DEF ThreadAssumption, SeqNoAssumption, SizeAssumption

-----------------------------------------------------------------------------
(***************************************************************************)
(* Facts about the PDUs and the threads.                                   *)
(***************************************************************************)
\* The parts of a concatenation, and where they are.
LEMMA Concatenation ==
  ASSUME NEW S, NEW h \in Seq(S), NEW b \in Seq(S)
  PROVE  /\ h \o b \in Seq(S) /\ Len(h \o b) = Len(h) + Len(b)
         /\ \A i \in 1..Len(h) : (h \o b)[i] = h[i]
         /\ \A i \in 1..Len(b) : (h \o b)[Len(h) + i] = b[i]
OBVIOUS

\* A PDU has the fields of its header and of its body, whatever its length
\* field says; that field is the first.
LEMMA PduFields ==
  ASSUME NEW op \in Op, NEW t \in Thread, NEW n \in Nat, NEW length \in Nat,
         NEW h, h = Header(op, length, n), NEW b, b = Body(op, t, n)
  PROVE  /\ h \in Seq(Cell) /\ Len(h) = HeaderLen
         /\ b \in Seq(Cell) /\ Len(b) = BodyLen[op] /\ BodyLen[op] \in Nat
         /\ h \o b \in Seq(Cell) /\ Len(h \o b) = HeaderLen + BodyLen[op]
         /\ \A i \in 1..HeaderLen : (h \o b)[i] = h[i]
         /\ \A i \in 1..BodyLen[op] : (h \o b)[HeaderLen + i] = b[i]
         /\ h[1] = <<"length", length>>
         /\ \A i \in 2..HeaderLen : h[i] = Header(op, 0, n)[i]
<1>1. h \in Seq(Cell) /\ Len(h) = HeaderLen
  <2>1. CommandId(op) \in Op
    BY DEF CommandId, Op, Answer
  <2>2. /\ <<"length", length>> \in Cell /\ <<"command", CommandId(op)>> \in Cell
        /\ <<"status", "ROK">> \in Cell /\ <<"sequence", n>> \in Cell
    BY <2>1 DEF Cell
  <2>3. h = << <<"length", length>>, <<"command", CommandId(op)>>,
               <<"status", "ROK">>, <<"sequence", n>> >>
    BY DEF Header
  <2>4. QED
    BY <2>2, <2>3 DEF HeaderLen
<1>2. BodyLen[op] \in Nat
  OBVIOUS
<1>3. b \in Seq(Cell) /\ Len(b) = BodyLen[op]
  <2>1. \A i \in 1..BodyLen[op] : <<"body", t, n, i>> \in Cell
    BY <1>2 DEF Cell
  <2>2. b \in [1..BodyLen[op] -> Cell]
    BY <2>1 DEF Body
  <2>3. QED
    BY <1>2, <2>2, FunctionIsSeq
<1>4. /\ h[1] = <<"length", length>>
      /\ \A i \in 2..HeaderLen : h[i] = Header(op, 0, n)[i]
  BY DEF Header, HeaderLen
<1>5. HeaderLen = 4
  BY DEF HeaderLen
<1> HIDE DEF HeaderLen
<1>6. /\ h \o b \in Seq(Cell) /\ Len(h \o b) = Len(h) + Len(b)
      /\ \A i \in 1..Len(h) : (h \o b)[i] = h[i]
      /\ \A i \in 1..Len(b) : (h \o b)[Len(h) + i] = b[i]
  BY <1>1, <1>3, Concatenation
<1>7. /\ Len(h \o b) = HeaderLen + BodyLen[op]
      /\ \A i \in 1..HeaderLen : (h \o b)[i] = h[i]
      /\ \A i \in 1..BodyLen[op] : (h \o b)[HeaderLen + i] = b[i]
  BY <1>1, <1>3, <1>6
<1>8. QED
  BY <1>1, <1>2, <1>3, <1>4, <1>6, <1>7

\* The fields of a thread's PDU with the length of it, and with another one:
\* only the first differs.
LEMMA PduOfCall ==
  ASSUME NEW t \in Thread, call[t].op \in Op, call[t].seqNo \in Nat, NEW length \in Nat,
         NEW p, p = Fields(t, length), NEW z, z = Fields(t, 0)
  PROVE  /\ p \in Seq(Cell) /\ Len(p) = FullLen(t)
         /\ FullLen(t) \in Nat /\ FullLen(t) >= HeaderLen
         /\ p[1] = <<"length", length>>
         /\ \A i \in 2..FullLen(t) : p[i] = z[i]
<1> DEFINE op == call[t].op
           n == call[t].seqNo
           h == Header(op, length, n)
           g == Header(op, 0, n)
           b == Body(op, t, n)
<1>1. /\ op \in Op /\ n \in Nat
      /\ h = Header(op, length, n) /\ g = Header(op, 0, n) /\ b = Body(op, t, n)
      /\ p = h \o b /\ z = g \o b /\ FullLen(t) = HeaderLen + BodyLen[op]
  BY DEF Fields, FullLen
<1> HIDE DEF op, n, h, g, b
<1>2. /\ p \in Seq(Cell) /\ Len(p) = FullLen(t)
  <2>1. h \o b \in Seq(Cell)
    BY <1>1, PduFields
  <2>2. Len(h \o b) = HeaderLen + BodyLen[op]
    BY <1>1, PduFields
  <2>3. QED
    BY <1>1, <2>1, <2>2
<1>3. BodyLen[op] \in Nat
  BY <1>1
<1>4. FullLen(t) \in Nat /\ FullLen(t) >= HeaderLen
  BY <1>1, <1>3 DEF HeaderLen
<1>5. \A i \in 1..HeaderLen : p[i] = h[i] /\ z[i] = g[i]
  <2>1. \A i \in 1..HeaderLen : (h \o b)[i] = h[i]
    BY <1>1, PduFields
  <2>2. \A i \in 1..HeaderLen : (g \o b)[i] = g[i]
    BY <1>1, PduFields
  <2>3. QED
    BY <1>1, <2>1, <2>2
<1>6. \A i \in 1..BodyLen[op] : p[HeaderLen + i] = b[i] /\ z[HeaderLen + i] = b[i]
  <2>1. /\ op \in Op /\ n \in Nat /\ b = Body(op, t, n)
        /\ h = Header(op, length, n) /\ g = Header(op, 0, n)
    BY <1>1
  <2>2. \A i \in 1..BodyLen[op] : (h \o b)[HeaderLen + i] = b[i]
    BY <2>1, PduFields, SMTT(30)
  <2>3. \A i \in 1..BodyLen[op] : (g \o b)[HeaderLen + i] = b[i]
    BY <2>1, PduFields, SMTT(30)
  <2>4. QED
    BY <1>1, <2>2, <2>3
<1>7. h[1] = <<"length", length>> /\ \A i \in 2..HeaderLen : h[i] = g[i]
  <2>1. h[1] = <<"length", length>>
    BY <1>1, PduFields
  <2>2. \A i \in 2..HeaderLen : h[i] = Header(op, 0, n)[i]
    BY <1>1, PduFields
  <2>3. QED
    BY <1>1, <2>1, <2>2
<1>8. ASSUME NEW i \in 2..FullLen(t) PROVE p[i] = z[i]
  <2>1. CASE i <= HeaderLen
    BY <1>5, <1>7, <2>1 DEF HeaderLen
  <2>2. CASE i > HeaderLen
    <3>1. i - HeaderLen \in 1..BodyLen[op] /\ HeaderLen + (i - HeaderLen) = i
      BY <1>1, <1>3, <2>2 DEF HeaderLen
    <3>2. QED
      BY <1>6, <3>1
  <2>3. QED
    BY <1>4, <2>1, <2>2 DEF HeaderLen
<1>9. p[1] = <<"length", length>>
  BY <1>5, <1>7 DEF HeaderLen
<1>10. QED
  BY <1>2, <1>4, <1>8, <1>9

\* The parts of the buffer.
LEMMA BufferType ==
  ASSUME sendBuffer \in B!BufferOf(Cell)
  PROVE  /\ sendBuffer.ptr \in Seq(Cell) /\ Len(sendBuffer.ptr) \in Nat
         /\ sendBuffer.dataLen \in Nat
         /\ sendBuffer.dataLen <= Len(sendBuffer.ptr)
BY DEF B!BufferOf

\* Reset keeps the memory.
LEMMA ResetType ==
  ASSUME sendBuffer \in B!BufferOf(Cell), NEW n \in Nat, n <= Len(sendBuffer.ptr),
         sendBuffer' = [sendBuffer EXCEPT !.dataLen = n]
  PROVE  /\ sendBuffer' \in B!BufferOf(Cell)
         /\ sendBuffer'.ptr = sendBuffer.ptr /\ sendBuffer'.dataLen = n
BY DEF B!BufferOf

\* as_smpp_buffer_copy, for a buffer of fields.
LEMMA CopyFields ==
  ASSUME NEW b \in B!BufferOf(Cell), NEW s \in Seq(Cell),
         NEW c, c = B!as_smpp_buffer_copy(b, s)
  PROVE  /\ c \in B!BufferOf(Cell)
         /\ c.dataLen = b.dataLen + Len(s)
         /\ \A i \in 1..b.dataLen : c.ptr[i] = b.ptr[i]
         /\ \A i \in 1..Len(s) : c.ptr[b.dataLen + i] = s[i]
         /\ \A i \in 1..Len(b.ptr) : i > c.dataLen => c.ptr[i] = b.ptr[i]
         /\ Len(c.ptr) >= Len(b.ptr)
<1>1. Garbage \in Cell /\ Slack \in Nat
  BY DEF Garbage, Cell
<1>2. Len(b.ptr) \in Nat /\ Len(s) \in Nat
  BY DEF B!BufferOf
<1>3. QED
  BY <1>1, <1>2, CopyData

\* Where a step of a thread goes.
LEMMA GotoType ==
  ASSUME Types, NEW t \in Thread, NEW from, NEW to, Goto(t, from, to)
  PROVE  /\ pc[t] = from /\ pc'[t] = to
         /\ \A u \in Thread : u # t => pc'[u] = pc[u]
         /\ to \in {"connected", "idle", "lock"} \cup Building
              => pc' \in [Thread -> {"connected", "idle", "lock"} \cup Building]
BY DEF Types, Goto

\* A thread that builds is alone.
LEMMA Alone ==
  ASSUME Inv, NEW t \in Thread, pc[t] \in Building
  PROVE  /\ sendMutex = t
         /\ \A u \in Thread : u # t => pc[u] \notin Building
BY DEF Inv, Exclusion

LEMMA InitInv == Init => Inv
<1> SUFFICES ASSUME Init PROVE Inv
  OBVIOUS
<1> USE DEF Init
<1>1. sendBuffer \in B!BufferOf(Cell)
  <2>1. Garbage \in Cell
    BY DEF Cell, Garbage
  <2>2. QED
    BY <2>1 DEF B!BufferOf, B!as_smpp_buffer_init, B!Fresh
<1>2. Types
  BY <1>1 DEF Types, SeqNo, NoCall, Send
<1>3. Exclusion
  BY DEF Exclusion, Building
<1>4. Calls
  BY DEF Calls, NoCall, Building, Answer
<1>5. BindPending /\ NumberTaken /\ Content
  BY DEF BindPending, NumberTaken, Content, ContentOf, Numbered
<1>6. QED
  BY <1>2, <1>3, <1>4, <1>5 DEF Inv

-----------------------------------------------------------------------------
(***************************************************************************)
(* Every step preserves the invariant.                                     *)
(***************************************************************************)
\* A step of the thread that builds its PDU behind its number concerns that
\* thread only; what is left to show is what it did to the buffer.
LEMMA BuildFrame ==
  ASSUME Inv, NEW t \in Thread,
         NEW from \in {"header", "body", "save", "patch", "send"},
         NEW to \in {"body", "save", "patch", "send", "unlock"},
         Goto(t, from, to), UNCHANGED <<sendMutex, sequenceNo, call>>
  PROVE  /\ pc[t] = from /\ pc'[t] = to
         /\ pc' \in [Thread -> {"connected", "idle", "lock"} \cup Building]
         /\ call[t].op \in Op /\ call[t].seqNo \in Nat
         /\ Exclusion' /\ Calls' /\ BindPending' /\ NumberTaken'
         /\ ContentOf(t)' => Content'
<1>1. /\ pc[t] = from /\ pc'[t] = to
      /\ \A u \in Thread : u # t => pc'[u] = pc[u]
      /\ pc' \in [Thread -> {"connected", "idle", "lock"} \cup Building]
  BY GotoType DEF Inv, Building
<1>2. from \in Building /\ to \in Building
  BY DEF Building
<1>3. \A u \in Thread : u # t => pc[u] \notin Building
  BY <1>1, <1>2, Alone
<1>4. call[t].op \in Op /\ call[t].seqNo \in Nat
  BY <1>1, <1>2 DEF Inv, Calls, Types
<1>5. Exclusion'
  BY <1>1, <1>2 DEF Inv, Exclusion
<1>6. Calls'
  <2>1. ASSUME NEW u \in Thread, pc'[u] \in {"lock"} \cup Building
        PROVE  pc[u] \in {"lock"} \cup Building
    BY <1>1, <1>2, <2>1
  <2>2. ASSUME NEW u \in Thread, pc'[u] \in {"connected", "number"}
        PROVE  pc[u] = pc'[u]
    BY <1>1, <2>2
  <2>3. QED
    BY <2>1, <2>2 DEF Inv, Calls
<1>7. BindPending'
  <2>1. BindToCome' => BindToCome
    BY <1>1 DEF BindToCome, Thread
  <2>2. QED
    BY <2>1 DEF Inv, BindPending
<1>8. NumberTaken'
  <2>1. Numbered' \subseteq Numbered
    BY <1>1 DEF Numbered
  <2>2. QED
    BY <2>1 DEF Inv, NumberTaken
<1>9. ASSUME ContentOf(t)' PROVE Content'
  <2>1. ASSUME NEW u \in Thread, u # t PROVE ContentOf(u)'
    <3>1. pc'[u] \notin Building
      BY <1>1, <1>3, <2>1
    <3>2. QED
      BY <3>1 DEF ContentOf, Building
  <2>2. QED
    BY <1>9, <2>1 DEF Content
<1>10. QED
  BY <1>1, <1>4, <1>5, <1>6, <1>7, <1>8, <1>9

LEMMA WriteHeaderInv == ASSUME Inv, NEW t \in Thread, WriteHeader(t) PROVE Inv'
<1> DEFINE h == Header(call[t].op, 0, call[t].seqNo)
           b == Body(call[t].op, t, call[t].seqNo)
<1>1. /\ Goto(t, "header", "body")
      /\ UNCHANGED <<sendMutex, sequenceNo, call, savedLen, wire, linkUp>>
      /\ sendBuffer' = B!as_smpp_buffer_copy(sendBuffer, h)
      /\ h = Header(call[t].op, 0, call[t].seqNo)
      /\ b = Body(call[t].op, t, call[t].seqNo)
      /\ Fields(t, 0)' = h \o b
  BY DEF WriteHeader, Fields
<1> HIDE DEF h, b
<1>2. /\ pc[t] = "header" /\ pc'[t] = "body"
      /\ pc' \in [Thread -> {"connected", "idle", "lock"} \cup Building]
      /\ call[t].op \in Op /\ call[t].seqNo \in Nat
      /\ Exclusion' /\ Calls' /\ BindPending' /\ NumberTaken'
      /\ ContentOf(t)' => Content'
  BY <1>1, BuildFrame
<1>3. /\ h \in Seq(Cell) /\ Len(h) = HeaderLen
      /\ \A i \in 1..HeaderLen : (h \o b)[i] = h[i]
  BY <1>1, <1>2, PduFields
<1>4. sendBuffer \in B!BufferOf(Cell) /\ sendBuffer.dataLen = 0
  BY <1>2 DEF Inv, Types, Content, ContentOf
<1>5. /\ sendBuffer' \in B!BufferOf(Cell)
      /\ sendBuffer'.dataLen = sendBuffer.dataLen + Len(h)
      /\ \A i \in 1..Len(h) : sendBuffer'.ptr[sendBuffer.dataLen + i] = h[i]
  <2>1. sendBuffer \in B!BufferOf(Cell) /\ h \in Seq(Cell)
    BY <1>3, <1>4
  <2>2. QED
    BY <1>1, <2>1, CopyFields
<1>6. /\ sendBuffer'.dataLen = HeaderLen
      /\ \A i \in 1..HeaderLen : sendBuffer'.ptr[i] = h[i]
  BY <1>3, <1>4, <1>5 DEF HeaderLen
<1>7. HeaderLen <= Len(sendBuffer'.ptr)
  BY <1>5, <1>6 DEF B!BufferOf
<1>8. ContentOf(t)'
  <2>1. Holds(t, 0, HeaderLen)'
    BY <1>1, <1>3, <1>6, <1>7 DEF Holds
  <2>2. QED
    BY <1>2, <1>6, <2>1 DEF ContentOf
<1>9. Types'
  BY <1>1, <1>2, <1>5 DEF Inv, Types
<1>10. QED
  BY <1>2, <1>8, <1>9 DEF Inv

LEMMA WriteBodyInv == ASSUME Inv, NEW t \in Thread, WriteBody(t) PROVE Inv'
<1> DEFINE h == Header(call[t].op, 0, call[t].seqNo)
           b == Body(call[t].op, t, call[t].seqNo)
<1>1. /\ Goto(t, "body", "save")
      /\ UNCHANGED <<sendMutex, sequenceNo, call, savedLen, wire, linkUp>>
      /\ sendBuffer' = B!as_smpp_buffer_copy(sendBuffer, b)
      /\ h = Header(call[t].op, 0, call[t].seqNo)
      /\ b = Body(call[t].op, t, call[t].seqNo)
      /\ Fields(t, 0)' = h \o b /\ Fields(t, 0) = h \o b
      /\ FullLen(t)' = FullLen(t) /\ FullLen(t) = HeaderLen + BodyLen[call[t].op]
  BY DEF WriteBody, Fields, FullLen
<1> HIDE DEF h, b
<1>2. /\ pc[t] = "body" /\ pc'[t] = "save"
      /\ pc' \in [Thread -> {"connected", "idle", "lock"} \cup Building]
      /\ call[t].op \in Op /\ call[t].seqNo \in Nat
      /\ Exclusion' /\ Calls' /\ BindPending' /\ NumberTaken'
      /\ ContentOf(t)' => Content'
  BY <1>1, BuildFrame
<1>3. /\ b \in Seq(Cell) /\ Len(b) = BodyLen[call[t].op] /\ Len(b) \in Nat
      /\ \A i \in 1..Len(b) : (h \o b)[HeaderLen + i] = b[i]
  <2> DEFINE op == call[t].op
             n == call[t].seqNo
  <2>1. op \in Op /\ n \in Nat /\ h = Header(op, 0, n) /\ b = Body(op, t, n)
    BY <1>1, <1>2
  <2>2. op = call[t].op
    OBVIOUS
  <2> HIDE DEF op, n
  <2>3. /\ b \in Seq(Cell) /\ Len(b) = BodyLen[op] /\ BodyLen[op] \in Nat
        /\ \A i \in 1..BodyLen[op] : (h \o b)[HeaderLen + i] = b[i]
    <3>1. b \in Seq(Cell)
      BY <2>1, PduFields, SMTT(30)
    <3>2. Len(b) = BodyLen[op]
      BY <2>1, PduFields, SMTT(30)
    <3>3. BodyLen[op] \in Nat
      BY <2>1, PduFields, SMTT(30)
    <3>4. \A i \in 1..BodyLen[op] : (h \o b)[HeaderLen + i] = b[i]
      BY <2>1, PduFields, SMTT(30)
    <3>5. QED
      BY <3>1, <3>2, <3>3, <3>4
  <2>4. QED
    BY <2>2, <2>3
<1>4. /\ sendBuffer \in B!BufferOf(Cell) /\ sendBuffer.dataLen = HeaderLen
      /\ Holds(t, 0, HeaderLen)
  BY <1>2 DEF Inv, Types, Content, ContentOf
<1>5. /\ sendBuffer' \in B!BufferOf(Cell)
      /\ sendBuffer'.dataLen = sendBuffer.dataLen + Len(b)
      /\ \A i \in 1..sendBuffer.dataLen : sendBuffer'.ptr[i] = sendBuffer.ptr[i]
      /\ \A i \in 1..Len(b) : sendBuffer'.ptr[sendBuffer.dataLen + i] = b[i]
  <2>1. sendBuffer \in B!BufferOf(Cell) /\ b \in Seq(Cell)
    BY <1>3, <1>4
  <2>2. QED
    BY <1>1, <2>1, CopyFields
<1>6. sendBuffer'.dataLen = FullLen(t) /\ FullLen(t) <= Len(sendBuffer'.ptr)
  BY <1>1, <1>3, <1>4, <1>5 DEF B!BufferOf
<1>7. \A i \in 1..FullLen(t) : sendBuffer'.ptr[i] = (h \o b)[i]
  <2>1. ASSUME NEW i \in 1..HeaderLen PROVE sendBuffer'.ptr[i] = (h \o b)[i]
    BY <1>1, <1>4, <1>5 DEF Holds
  <2>2. ASSUME NEW i \in 1..Len(b)
        PROVE  sendBuffer'.ptr[HeaderLen + i] = (h \o b)[HeaderLen + i]
    BY <1>3, <1>4, <1>5
  <2>3. ASSUME NEW i \in 1..FullLen(t), i \notin 1..HeaderLen
        PROVE  /\ i - HeaderLen \in 1..Len(b)
               /\ HeaderLen + (i - HeaderLen) = i
    BY <1>1, <1>3, <2>3 DEF HeaderLen
  <2>4. QED
    BY <2>1, <2>2, <2>3
<1>8. ContentOf(t)'
  <2>1. Holds(t, 0, FullLen(t))'
    BY <1>1, <1>6, <1>7 DEF Holds
  <2>2. QED
    BY <1>1, <1>2, <1>6, <2>1 DEF ContentOf
<1>9. Types'
  BY <1>1, <1>2, <1>5 DEF Inv, Types
<1>10. QED
  BY <1>2, <1>8, <1>9 DEF Inv

LEMMA SaveLengthInv == ASSUME Inv, NEW t \in Thread, SaveLength(t) PROVE Inv'
<1>1. /\ Goto(t, "save", "patch")
      /\ UNCHANGED <<sendMutex, sequenceNo, call, wire, linkUp>>
      /\ savedLen' = [savedLen EXCEPT ![t] = sendBuffer.dataLen]
      /\ sendBuffer' = [sendBuffer EXCEPT !.dataLen = 0]
      /\ Fields(t, 0)' = Fields(t, 0) /\ FullLen(t)' = FullLen(t)
  BY DEF SaveLength, Fields, FullLen
<1>2. /\ pc[t] = "save" /\ pc'[t] = "patch"
      /\ pc' \in [Thread -> {"connected", "idle", "lock"} \cup Building]
      /\ Exclusion' /\ Calls' /\ BindPending' /\ NumberTaken'
      /\ ContentOf(t)' => Content'
  BY <1>1, BuildFrame
<1>3. /\ sendBuffer \in B!BufferOf(Cell) /\ sendBuffer.dataLen = FullLen(t)
      /\ Holds(t, 0, FullLen(t)) /\ savedLen \in [Thread -> Nat]
  BY <1>2 DEF Inv, Types, Content, ContentOf
<1>4. sendBuffer.dataLen \in Nat /\ 0 <= Len(sendBuffer.ptr)
  BY <1>3, BufferType
<1>5. /\ sendBuffer' \in B!BufferOf(Cell)
      /\ sendBuffer'.ptr = sendBuffer.ptr /\ sendBuffer'.dataLen = 0
  BY <1>1, <1>3, <1>4, ResetType
<1>6. savedLen'[t] = FullLen(t) /\ savedLen' \in [Thread -> Nat]
  BY <1>1, <1>3, <1>4
<1>7. ContentOf(t)'
  <2>1. Holds(t, 0, FullLen(t))'
    BY <1>1, <1>3, <1>5 DEF Holds
  <2>2. QED
    BY <1>1, <1>2, <1>5, <1>6, <2>1 DEF ContentOf
<1>8. Types'
  BY <1>1, <1>2, <1>5, <1>6 DEF Inv, Types
<1>9. QED
  BY <1>2, <1>7, <1>8 DEF Inv

\* The length is written over the first field, and the data is whole again.
LEMMA PatchLengthInv == ASSUME Inv, NEW t \in Thread, PatchLength(t) PROVE Inv'
<1> DEFINE s == << <<"length", savedLen[t]>> >>
           c == B!as_smpp_buffer_copy(sendBuffer, s)
<1>1. /\ Goto(t, "patch", "send")
      /\ UNCHANGED <<sendMutex, sequenceNo, call, wire, linkUp>>
      /\ savedLen' = [savedLen EXCEPT ![t] = 0]
      /\ sendBuffer' = [c EXCEPT !.dataLen = savedLen[t]]
      /\ FullLen(t)' = FullLen(t)
      /\ Fields(t, FullLen(t))' = Fields(t, FullLen(t))
  BY DEF PatchLength, Fields, FullLen
<1>2. /\ pc[t] = "patch" /\ pc'[t] = "send"
      /\ pc' \in [Thread -> {"connected", "idle", "lock"} \cup Building]
      /\ call[t].op \in Op /\ call[t].seqNo \in Nat
      /\ Exclusion' /\ Calls' /\ BindPending' /\ NumberTaken'
      /\ ContentOf(t)' => Content'
  BY <1>1, BuildFrame
<1>3. /\ sendBuffer \in B!BufferOf(Cell) /\ sendBuffer.dataLen = 0
      /\ savedLen[t] = FullLen(t) /\ Holds(t, 0, FullLen(t))
      /\ savedLen \in [Thread -> Nat]
  BY <1>2 DEF Inv, Types, Content, ContentOf
<1>4. /\ FullLen(t) \in Nat /\ FullLen(t) >= HeaderLen
      /\ Fields(t, FullLen(t))[1] = <<"length", FullLen(t)>>
      /\ \A i \in 2..FullLen(t) : Fields(t, FullLen(t))[i] = Fields(t, 0)[i]
  <2>1. FullLen(t) \in Nat
    BY <1>3
  <2>2. QED
    BY <1>2, <2>1, PduOfCall
<1>5. s \in Seq(Cell) /\ Len(s) = 1 /\ s[1] = <<"length", FullLen(t)>>
  <2>1. <<"length", savedLen[t]>> \in Cell
    BY <1>3 DEF Cell
  <2>2. QED
    BY <1>3, <2>1
<1> HIDE DEF s
<1>6. /\ c \in B!BufferOf(Cell)
      /\ \A i \in 1..Len(s) : c.ptr[sendBuffer.dataLen + i] = s[i]
      /\ \A i \in 1..Len(sendBuffer.ptr) : i > c.dataLen => c.ptr[i] = sendBuffer.ptr[i]
      /\ c.dataLen = sendBuffer.dataLen + Len(s)
      /\ Len(c.ptr) >= Len(sendBuffer.ptr)
  <2>1. sendBuffer \in B!BufferOf(Cell) /\ s \in Seq(Cell)
    BY <1>3, <1>5
  <2>2. QED
    BY <2>1, CopyFields
<1> HIDE DEF c
<1>7. Len(sendBuffer.ptr) \in Nat /\ Len(c.ptr) \in Nat
  BY <1>3, <1>6 DEF B!BufferOf
<1>8. FullLen(t) <= Len(c.ptr)
  BY <1>3, <1>4, <1>6, <1>7 DEF Holds
<1>9. /\ sendBuffer' \in B!BufferOf(Cell)
      /\ sendBuffer'.ptr = c.ptr /\ sendBuffer'.dataLen = FullLen(t)
  BY <1>1, <1>3, <1>4, <1>6, <1>8 DEF B!BufferOf
<1>10. \A i \in 1..FullLen(t) : sendBuffer'.ptr[i] = Fields(t, FullLen(t))[i]
  <2>1. sendBuffer'.ptr[1] = Fields(t, FullLen(t))[1]
    BY <1>3, <1>4, <1>5, <1>6, <1>9
  <2>2. ASSUME NEW i \in 2..FullLen(t)
        PROVE  sendBuffer'.ptr[i] = Fields(t, FullLen(t))[i]
    <3>1. i \in 1..Len(sendBuffer.ptr) /\ i \in 1..FullLen(t) /\ i > c.dataLen
      BY <1>3, <1>4, <1>5, <1>6, <1>7 DEF Holds
    <3>2. sendBuffer.ptr[i] = Fields(t, 0)[i]
      BY <1>3, <3>1 DEF Holds
    <3>3. QED
      BY <1>4, <1>6, <1>9, <3>1, <3>2
  <2>3. QED
    BY <1>4, <2>1, <2>2
<1>11. ContentOf(t)'
  <2>1. Holds(t, FullLen(t), FullLen(t))'
    BY <1>1, <1>8, <1>9, <1>10 DEF Holds
  <2>2. QED
    BY <1>1, <1>2, <1>9, <2>1 DEF ContentOf
<1>12. Types'
  BY <1>1, <1>2, <1>3, <1>9 DEF Inv, Types
<1>13. QED
  BY <1>2, <1>11, <1>12 DEF Inv

LEMMA NetSendInv == ASSUME Inv, NEW t \in Thread, NetSend(t) PROVE Inv'
<1>1. /\ Goto(t, "send", "unlock")
      /\ UNCHANGED <<sendBuffer, sendMutex, sequenceNo, call, savedLen>>
  BY DEF NetSend
<1>2. /\ pc[t] = "send" /\ pc'[t] = "unlock"
      /\ pc' \in [Thread -> {"connected", "idle", "lock"} \cup Building]
      /\ call[t].op \in Op /\ call[t].seqNo \in Nat
      /\ Exclusion' /\ Calls' /\ BindPending' /\ NumberTaken'
      /\ ContentOf(t)' => Content'
  BY <1>1, BuildFrame
<1>3. ContentOf(t)'
  BY <1>2 DEF ContentOf
<1>4. linkUp' \in BOOLEAN
  BY DEF NetSend, Inv, Types
<1>5. wire' \in Seq(Send)
  <2>1. wire \in Seq(Send) /\ sendBuffer \in B!BufferOf(Cell)
    BY DEF Inv, Types
  <2>2. /\ sendBuffer.ptr \in Seq(Cell) /\ Len(sendBuffer.ptr) \in Nat
        /\ sendBuffer.dataLen \in 0..Len(sendBuffer.ptr)
    BY <2>1, BufferType
  <2>3. ASSUME NEW k \in 0..sendBuffer.dataLen
        PROVE  Sent(t, SubSeq(sendBuffer.ptr, 1, k)) \in Send
    <3>1. SubSeq(sendBuffer.ptr, 1, k) \in Seq(Cell)
      BY <2>2
    <3>2. QED
      BY <1>2, <3>1 DEF Sent, Send
  <2>4. Sent(t, B!Data(sendBuffer)) \in Send
    BY <2>2, <2>3 DEF B!Data
  <2>5. QED
    BY <2>1, <2>3, <2>4 DEF NetSend
<1>6. Types'
  BY <1>1, <1>2, <1>4, <1>5 DEF Inv, Types
<1>7. QED
  BY <1>2, <1>3, <1>6 DEF Inv

LEMMA ResetInv == ASSUME Inv, NEW t \in Thread, ResetBuffer(t) PROVE Inv'
<1> DEFINE to == IF call[t].op \in Request THEN "number" ELSE "header"
<1>1. /\ Goto(t, "reset", to) /\ to \in {"number", "header"}
      /\ UNCHANGED <<sendMutex, sequenceNo, call, savedLen, wire, linkUp>>
      /\ sendBuffer' = [sendBuffer EXCEPT !.dataLen = 0]
      /\ to = "number" <=> call[t].op \in Request
  BY DEF ResetBuffer
<1> HIDE DEF to
<1>2. /\ pc[t] = "reset" /\ pc'[t] = to
      /\ \A u \in Thread : u # t => pc'[u] = pc[u]
      /\ pc' \in [Thread -> {"connected", "idle", "lock"} \cup Building]
  BY <1>1, GotoType DEF Inv, Building
<1>3. pc[t] \in Building /\ pc'[t] \in Building
  BY <1>1, <1>2 DEF Building
<1>4. \A u \in Thread : u # t => pc'[u] \notin Building
  BY <1>2, <1>3, Alone
<1>5. /\ sendBuffer' \in B!BufferOf(Cell) /\ sendBuffer'.dataLen = 0
  <2>1. sendBuffer \in B!BufferOf(Cell)
    BY DEF Inv, Types
  <2>2. 0 \in Nat /\ 0 <= Len(sendBuffer.ptr)
    BY <2>1, BufferType
  <2>3. QED
    BY <1>1, <2>1, <2>2, ResetType
<1>6. Exclusion'
  BY <1>1, <1>2, <1>3 DEF Inv, Exclusion
<1>7. Calls'
  <2>1. ASSUME NEW u \in Thread, pc'[u] \in {"lock"} \cup Building
        PROVE  pc[u] \in {"lock"} \cup Building
    BY <1>2, <1>3, <2>1
  <2>2. ASSUME NEW u \in Thread, pc'[u] = "connected"
        PROVE  pc[u] = "connected"
    BY <1>1, <1>2, <2>2
  <2>3. ASSUME NEW u \in Thread, pc'[u] = "number" PROVE call[u].op \in Request
    BY <1>1, <1>2, <2>3 DEF Inv, Calls
  <2>4. QED
    BY <1>1, <2>1, <2>2, <2>3 DEF Inv, Calls
<1>8. BindPending'
  <2>1. BindToCome' => BindToCome
    BY <1>1, <1>2 DEF BindToCome, Thread
  <2>2. QED
    BY <1>1, <2>1 DEF Inv, BindPending
<1>9. NumberTaken'
  <2>1. Numbered' \subseteq Numbered
    BY <1>1, <1>2 DEF Numbered
  <2>2. QED
    BY <1>1, <2>1 DEF Inv, NumberTaken
<1>10. Content'
  <2>1. ASSUME NEW u \in Thread PROVE ContentOf(u)'
    <3>1. CASE u = t
      BY <1>1, <1>2, <1>5, <3>1 DEF ContentOf
    <3>2. CASE u # t
      BY <1>4, <3>2 DEF ContentOf, Building
    <3>3. QED
      BY <3>1, <3>2
  <2>2. QED
    BY <2>1 DEF Content
<1>11. Types'
  BY <1>1, <1>2, <1>5 DEF Inv, Types
<1>12. QED
  BY <1>6, <1>7, <1>8, <1>9, <1>10, <1>11 DEF Inv

\* The number that follows one in SeqNo is in SeqNo again: a submit_sm wraps
\* the counter, and the bind takes a number below the greatest.
LEMMA SuccessorType ==
  ASSUME NEW op \in Request, NEW n \in SeqNo, op = "bind" => n < MaxSeqNo
  PROVE  /\ Successor(op, n) \in SeqNo
         /\ op # "bind" => Successor(op, n) < MaxSeqNo
BY DEF Successor, SeqNo, Request

LEMMA TakeNumberInv == ASSUME Inv, NEW t \in Thread, TakeNumber(t) PROVE Inv'
<1>1. /\ Goto(t, "number", "header")
      /\ UNCHANGED <<sendBuffer, sendMutex, savedLen, wire, linkUp>>
      /\ call' = [call EXCEPT ![t].seqNo = sequenceNo]
      /\ sequenceNo' = Successor(call[t].op, sequenceNo)
  BY DEF TakeNumber
<1>2. /\ pc[t] = "number" /\ pc'[t] = "header"
      /\ \A u \in Thread : u # t => pc'[u] = pc[u]
      /\ pc' \in [Thread -> {"connected", "idle", "lock"} \cup Building]
  BY <1>1, GotoType DEF Inv, Building
<1>3. pc[t] \in Building /\ pc'[t] \in Building
  BY <1>2 DEF Building
<1>4. \A u \in Thread : u # t => pc'[u] \notin Building
  BY <1>2, <1>3, Alone
<1>5. call[t].op \in Request /\ sequenceNo \in SeqNo
  BY <1>2 DEF Inv, Types, Calls
<1>6. call[t].op = "bind" => sequenceNo < MaxSeqNo
  <2>1. call[t].op = "bind" => t = Starter
    BY DEF Inv, Calls
  <2>2. call[t].op = "bind" => BindToCome
    BY <1>2, <2>1 DEF BindToCome
  <2>3. QED
    BY <2>2 DEF Inv, BindPending
<1>7. /\ sequenceNo' \in SeqNo
      /\ call[t].op # "bind" => sequenceNo' < MaxSeqNo
  BY <1>1, <1>5, <1>6, SuccessorType
<1>8. /\ call' \in [Thread -> [op : Op \cup {"none"}, seqNo : Nat]]
      /\ call'[t].op = call[t].op /\ call'[t].seqNo = sequenceNo
      /\ \A u \in Thread : u # t => call'[u] = call[u]
  <2>1. call \in [Thread -> [op : Op \cup {"none"}, seqNo : Nat]]
    BY DEF Inv, Types
  <2>2. sequenceNo \in Nat
    BY <1>5 DEF SeqNo
  <2>3. call' = [call EXCEPT ![t] = [call[t] EXCEPT !.seqNo = sequenceNo]]
    BY <1>1
  <2>4. [call[t] EXCEPT !.seqNo = sequenceNo] \in [op : Op \cup {"none"}, seqNo : Nat]
    BY <2>1, <2>2
  <2>5. QED
    BY <2>1, <2>3, <2>4
<1>9. Exclusion'
  BY <1>1, <1>2, <1>3 DEF Inv, Exclusion
<1>10. Calls'
  <2>1. ASSUME NEW u \in Thread, u # t
        PROVE  pc'[u] = pc[u] /\ call'[u] = call[u]
    BY <1>2, <1>8, <2>1
  <2>2. call[t].op \in Op /\ call[t].op \notin Answer
    BY <1>5 DEF Op, Request, Answer
  <2>3. call[t].op = "bind" => t = Starter
    BY DEF Inv, Calls
  <2>4. QED
    BY <1>2, <1>8, <2>1, <2>2, <2>3 DEF Inv, Calls
<1>11. BindPending'
  <2>1. SUFFICES ASSUME BindToCome' PROVE sequenceNo' < MaxSeqNo
    BY DEF BindPending
  <2>2. Starter \in Thread /\ Starter # t /\ BindToCome
    BY <1>2, <1>8, <2>1 DEF BindToCome, Thread
  <2>3. call[t].op # "bind"
    BY <2>2 DEF Inv, Calls
  <2>4. QED
    BY <1>7, <2>3
<1>12. NumberTaken'
  <2>1. ASSUME NEW u \in Numbered' PROVE u = t
    BY <1>4, <2>1 DEF Numbered, Building
  <2>2. QED
    BY <1>1, <1>5, <1>8, <2>1 DEF NumberTaken
<1>13. Content'
  <2>1. ASSUME NEW u \in Thread PROVE ContentOf(u)'
    <3>1. CASE u = t
      BY <1>1, <1>2, <3>1 DEF Inv, Content, ContentOf
    <3>2. CASE u # t
      BY <1>4, <3>2 DEF ContentOf, Building
    <3>3. QED
      BY <3>1, <3>2
  <2>2. QED
    BY <2>1 DEF Content
<1>14. Types'
  BY <1>1, <1>2, <1>7, <1>8 DEF Inv, Types
<1>15. QED
  BY <1>9, <1>10, <1>11, <1>12, <1>13, <1>14 DEF Inv

\* A thread that starts a call is not behind the lock yet.
LEMMA CallInv ==
  ASSUME Inv, NEW t \in Thread, NEW from \in {"idle", "connected"}, NEW op \in Op, NEW n \in Nat,
         Call(t, from, op, n),
         op = "bind" => from = "connected" /\ t = Starter,
         op \in Answer => n \in PeerSeqNo
  PROVE  Inv'
<1>1. /\ Goto(t, from, "lock")
      /\ UNCHANGED <<sendBuffer, sendMutex, sequenceNo, savedLen, wire, linkUp>>
      /\ call' = [call EXCEPT ![t] = [op |-> op, seqNo |-> n]]
  BY DEF Call
<1>2. /\ pc[t] = from /\ pc'[t] = "lock"
      /\ \A u \in Thread : u # t => pc'[u] = pc[u]
      /\ pc' \in [Thread -> {"connected", "idle", "lock"} \cup Building]
  BY <1>1, GotoType DEF Inv
<1>3. pc[t] \notin Building /\ pc'[t] \notin Building
  BY <1>2 DEF Building
<1>4. /\ call' \in [Thread -> [op : Op \cup {"none"}, seqNo : Nat]]
      /\ call'[t].op = op /\ call'[t].seqNo = n
      /\ \A u \in Thread : u # t => call'[u] = call[u]
  BY <1>1 DEF Inv, Types
<1>5. Exclusion'
  BY <1>1, <1>2, <1>3 DEF Inv, Exclusion
<1>6. Calls'
  <2>1. ASSUME NEW u \in Thread, u # t
        PROVE  pc'[u] = pc[u] /\ call'[u] = call[u]
    BY <1>2, <1>4, <2>1
  <2>2. QED
    BY <1>2, <1>4, <2>1 DEF Inv, Calls
<1>7. BindPending'
  <2>1. BindToCome' => BindToCome
    BY <1>2, <1>4 DEF BindToCome, Thread
  <2>2. QED
    BY <1>1, <2>1 DEF Inv, BindPending
<1>8. NumberTaken'
  <2>1. ASSUME NEW u \in Numbered' PROVE u \in Numbered /\ call'[u] = call[u]
    BY <1>2, <1>4, <2>1 DEF Numbered
  <2>2. QED
    BY <1>1, <2>1 DEF Inv, NumberTaken
<1>9. Content'
  <2>1. ASSUME NEW u \in Thread PROVE ContentOf(u)'
    <3>1. CASE u = t
      BY <1>2, <3>1 DEF ContentOf
    <3>2. CASE u # t
      <4>1. pc'[u] = pc[u] /\ call'[u] = call[u]
        BY <1>2, <1>4, <3>2
      <4>2. ContentOf(u)
        BY DEF Inv, Content
      <4>3. QED
        BY <1>1, <4>1, <4>2 DEF ContentOf, Holds, FullLen, Fields
    <3>3. QED
      BY <3>1, <3>2
  <2>2. QED
    BY <2>1 DEF Content
<1>10. Types'
  BY <1>1, <1>2, <1>4 DEF Inv, Types
<1>11. QED
  BY <1>5, <1>6, <1>7, <1>8, <1>9, <1>10 DEF Inv

LEMMA LockInv == ASSUME Inv, NEW t \in Thread, LockSend(t) PROVE Inv'
<1>1. /\ Goto(t, "lock", "reset") /\ sendMutex = None /\ sendMutex' = t
      /\ UNCHANGED <<sendBuffer, sequenceNo, call, savedLen, wire, linkUp>>
  BY DEF LockSend
<1>2. /\ pc[t] = "lock" /\ pc'[t] = "reset"
      /\ \A u \in Thread : u # t => pc'[u] = pc[u]
      /\ pc' \in [Thread -> {"connected", "idle", "lock"} \cup Building]
  BY <1>1, GotoType DEF Inv, Building
<1>3. \A u \in Thread : pc[u] \notin Building
  BY <1>1 DEF Inv, Exclusion
<1>4. Exclusion'
  BY <1>1, <1>2, <1>3 DEF Exclusion, Building
<1>5. Calls'
  <2>1. ASSUME NEW u \in Thread, u # t PROVE pc'[u] = pc[u]
    BY <1>2, <2>1
  <2>2. QED
    BY <1>1, <1>2, <2>1 DEF Inv, Calls
<1>6. BindPending'
  <2>1. BindToCome' => BindToCome
    BY <1>1, <1>2 DEF BindToCome, Thread
  <2>2. QED
    BY <1>1, <2>1 DEF Inv, BindPending
<1>7. NumberTaken' /\ Content'
  <2>1. \A u \in Thread : u # t => pc'[u] \notin Building
    BY <1>2, <1>3
  <2>2. Numbered' = {}
    BY <1>2, <2>1 DEF Numbered, Building
  <2>3. ASSUME NEW u \in Thread PROVE ContentOf(u)'
    BY <1>2, <2>1 DEF ContentOf, Building
  <2>4. QED
    BY <2>2, <2>3 DEF NumberTaken, Content
<1>8. Types'
  BY <1>1, <1>2 DEF Inv, Types
<1>9. QED
  BY <1>4, <1>5, <1>6, <1>7, <1>8 DEF Inv

LEMMA UnlockInv == ASSUME Inv, NEW t \in Thread, UnlockSend(t) PROVE Inv'
<1>1. /\ Goto(t, "unlock", "idle") /\ sendMutex = t /\ sendMutex' = None
      /\ call' = [call EXCEPT ![t] = NoCall]
      /\ UNCHANGED <<sendBuffer, sequenceNo, savedLen, wire, linkUp>>
  BY DEF UnlockSend
<1>2. /\ pc[t] = "unlock" /\ pc'[t] = "idle"
      /\ \A u \in Thread : u # t => pc'[u] = pc[u]
      /\ pc' \in [Thread -> {"connected", "idle", "lock"} \cup Building]
  BY <1>1, GotoType DEF Inv, Building
<1>3. \A u \in Thread : pc'[u] \notin Building
  BY <1>2, Alone DEF Building
<1>4. /\ call' \in [Thread -> [op : Op \cup {"none"}, seqNo : Nat]]
      /\ call'[t].op = "none"
      /\ \A u \in Thread : u # t => call'[u] = call[u]
  BY <1>1 DEF Inv, Types, NoCall
<1>5. Exclusion'
  BY <1>1, <1>3 DEF Exclusion
<1>6. Calls'
  <2>1. ASSUME NEW u \in Thread, u # t
        PROVE  pc'[u] = pc[u] /\ call'[u] = call[u]
    BY <1>2, <1>4, <2>1
  <2>2. QED
    BY <1>2, <1>3, <1>4, <2>1 DEF Inv, Calls
<1>7. BindPending'
  <2>1. BindToCome' => BindToCome
    BY <1>2, <1>4 DEF BindToCome, Thread
  <2>2. QED
    BY <1>1, <2>1 DEF Inv, BindPending
<1>8. NumberTaken' /\ Content'
  <2>1. Numbered' = {}
    BY <1>3 DEF Numbered, Building
  <2>2. ASSUME NEW u \in Thread PROVE ContentOf(u)'
    BY <1>3 DEF ContentOf, Building
  <2>3. QED
    BY <2>1, <2>2 DEF NumberTaken, Content
<1>9. Types'
  BY <1>1, <1>2, <1>4 DEF Inv, Types
<1>10. QED
  BY <1>5, <1>6, <1>7, <1>8, <1>9 DEF Inv

\* What happens to the connection does not concern the buffer.
LEMMA FrameInv ==
  ASSUME Inv, linkUp' \in BOOLEAN,
         UNCHANGED <<sendBuffer, sendMutex, sequenceNo, pc, call, savedLen, wire>>
  PROVE  Inv'
<1>1. Types'
  BY DEF Inv, Types
<1>2. Exclusion' /\ Calls' /\ BindPending'
  BY DEF Inv, Exclusion, Calls, BindPending, BindToCome
<1>3. NumberTaken'
  BY DEF Inv, NumberTaken, Numbered
<1>4. Content'
  BY DEF Inv, Content, ContentOf, Holds, FullLen, Fields
<1>5. QED
  BY <1>1, <1>2, <1>3, <1>4 DEF Inv

\* The calls of a thread, and what they call.
LEMMA StartInv ==
  ASSUME Inv, NEW t \in Thread, CallBind(t) \/ CallSubmit(t) \/ CallAnswer(t)
  PROVE  Inv'
<1>1. {"bind", "submit_sm"} \subseteq Op /\ "bind" \notin Answer /\ "submit_sm" \notin Answer
  BY DEF Op, Request, Answer
<1>2. CASE CallBind(t)
  <2>1. t = Starter /\ Call(t, "connected", "bind", 0)
    BY <1>2 DEF CallBind
  <2>2. QED
    BY <1>1, <2>1, CallInv
<1>3. CASE CallSubmit(t)
  <2>1. Call(t, "idle", "submit_sm", 0)
    BY <1>3 DEF CallSubmit
  <2>2. QED
    BY <1>1, <2>1, CallInv
<1>4. CASE CallAnswer(t)
  <2>1. PICK op \in Answer, n \in PeerSeqNo : Call(t, "idle", op, n)
    BY <1>4 DEF CallAnswer
  <2>2. op \in Op /\ op # "bind" /\ n \in Nat
    BY <1>1 DEF Op
  <2>3. QED
    BY <2>1, <2>2, CallInv
<1>5. QED
  BY <1>2, <1>3, <1>4

LEMMA StepInv == Inv /\ [Next]_vars => Inv'
<1> SUFFICES ASSUME Inv, [Next]_vars PROVE Inv'
  OBVIOUS
<1>1. ASSUME NEW t \in Thread, CallBind(t) \/ CallSubmit(t) \/ CallAnswer(t) PROVE Inv'
  BY <1>1, StartInv
<1>2. ASSUME NEW t \in Thread, LockSend(t) PROVE Inv'
  BY <1>2, LockInv
<1>3. ASSUME NEW t \in Thread, Build(t) PROVE Inv'
  BY <1>3, ResetInv, TakeNumberInv, WriteHeaderInv, WriteBodyInv, SaveLengthInv,
     PatchLengthInv, NetSendInv, UnlockInv
     DEF Build
<1>4. CASE LinkBreaks
  BY <1>4, FrameInv DEF LinkBreaks
<1>5. CASE UNCHANGED vars
  BY <1>5, FrameInv DEF vars, Inv, Types
<1>6. QED
  BY <1>1, <1>2, <1>3, <1>4, <1>5 DEF Next

-----------------------------------------------------------------------------
(***************************************************************************)
(* Theorems.                                                               *)
(***************************************************************************)
\* What every thread has put into the buffer is what its own call put there,
\* and it is alone in doing so: the invariant of the send functions.
THEOREM Invariance == Spec => []Inv
BY InitInv, StepInv, PTL DEF Spec

\* Every variable has its type in every state: the data of sendBuffer lies in
\* its memory, and sequenceNo passes INT32_MAX in no state, though
\* as_smpp_bind increments it without the test of as_smpp_get_sequence_no.
THEOREM TypeCorrect == Spec => []TypeOK
<1>1. Inv => TypeOK
  BY BufferType DEF Inv, Types, TypeOK
<1>2. QED
  BY <1>1, Invariance, PTL

\* Two sequences that agree on their first fields have the same prefixes.
LEMMA SamePrefix ==
  ASSUME NEW S, NEW p \in Seq(S), NEW q \in Seq(S), NEW n \in Nat,
         n <= Len(p), n <= Len(q), \A i \in 1..n : p[i] = q[i],
         NEW k \in 0..n
  PROVE  SubSeq(p, 1, k) = SubSeq(q, 1, k)
<1>1. k - 1 + 1 = k /\ k \in Nat /\ k <= Len(p) /\ k <= Len(q)
  OBVIOUS
<1>2. SubSeq(p, 1, k) = [i \in 1..k |-> p[i]]
  BY <1>1
<1>3. SubSeq(q, 1, k) = [i \in 1..k |-> q[i]]
  BY <1>1
<1>4. \A i \in 1..k : p[i] = q[i]
  BY <1>1
<1>5. QED
  BY <1>2, <1>3, <1>4

\* What is handed to send is the PDU of the call.
LEMMA BufferIsPdu ==
  ASSUME Inv, NEW t \in Thread, pc[t] = "send",
         NEW pdu, pdu = Pdu(call[t].op, t, call[t].seqNo)
  PROVE  /\ sendBuffer.dataLen = Len(pdu) /\ Len(pdu) \in Nat
         /\ \A k \in 0..Len(pdu) : SubSeq(sendBuffer.ptr, 1, k) = SubSeq(pdu, 1, k)
         /\ B!Data(sendBuffer) = pdu
<1>1. pdu = Fields(t, FullLen(t))
  BY DEF Pdu, Fields, FullLen
<1>2. call[t].op \in Op /\ call[t].seqNo \in Nat
  BY DEF Inv, Calls, Building, Types
<1>3. /\ sendBuffer \in B!BufferOf(Cell) /\ sendBuffer.dataLen = FullLen(t)
      /\ Holds(t, FullLen(t), FullLen(t))
  BY DEF Inv, Types, Content, ContentOf
<1>4. FullLen(t) \in Nat /\ sendBuffer.ptr \in Seq(Cell)
  BY <1>3, BufferType
<1>5. pdu \in Seq(Cell) /\ Len(pdu) = FullLen(t)
  BY <1>1, <1>2, <1>4, PduOfCall
<1>6. \A k \in 0..Len(pdu) : SubSeq(sendBuffer.ptr, 1, k) = SubSeq(pdu, 1, k)
  <2>1. \A i \in 1..FullLen(t) : sendBuffer.ptr[i] = pdu[i]
    BY <1>1, <1>3 DEF Holds
  <2>2. FullLen(t) <= Len(sendBuffer.ptr)
    BY <1>3 DEF Holds
  <2>3. QED
    BY <1>4, <1>5, <2>1, <2>2, SamePrefix
<1>7. SubSeq(pdu, 1, Len(pdu)) = pdu
  BY <1>5
<1>8. QED
  BY <1>3, <1>4, <1>5, <1>6, <1>7 DEF B!Data

\* What a send puts on the wire: the PDU of the call, or the beginning of it
\* with the end of the connection, or nothing without one.
LEMMA SendsPdu ==
  ASSUME Inv, NEW t \in Thread, NetSend(t),
         NEW pdu, pdu = Pdu(call[t].op, t, call[t].seqNo)
  PROVE  \/ linkUp /\ wire' = Append(wire, Sent(t, pdu)) /\ UNCHANGED linkUp
         \/ /\ linkUp
            /\ \E k \in 0..Len(pdu) : wire' = Append(wire, Sent(t, SubSeq(pdu, 1, k)))
            /\ linkUp' = FALSE
         \/ ~linkUp /\ UNCHANGED <<wire, linkUp>>
<1>1. pc[t] = "send"
  BY GotoType DEF NetSend, Inv
<1>2. /\ sendBuffer.dataLen = Len(pdu)
      /\ \A k \in 0..Len(pdu) : SubSeq(sendBuffer.ptr, 1, k) = SubSeq(pdu, 1, k)
      /\ B!Data(sendBuffer) = pdu
  BY <1>1, BufferIsPdu
<1>3. QED
  BY <1>2 DEF NetSend

\* The sends that are done stay as they are.
LEMMA WireStep ==
  ASSUME WireIntact, wire \in Seq(Send), linkUp \in BOOLEAN,
         NEW t \in Thread, Inv, NetSend(t)
  PROVE  WireIntact'
<1> DEFINE pdu == Pdu(call[t].op, t, call[t].seqNo)
           n == Len(wire)
<1>1. CASE ~linkUp
  BY <1>1, SendsPdu DEF WireIntact
<1>2. CASE linkUp
  <2>1. PICK cells :
          /\ wire' = Append(wire, Sent(t, cells))
          /\ cells = pdu \/ (~linkUp' /\ cells \in Prefixes(pdu))
    <3>1. pdu = Pdu(call[t].op, t, call[t].seqNo)
      OBVIOUS
    <3> HIDE DEF pdu
    <3>2. \/ wire' = Append(wire, Sent(t, pdu))
          \/ /\ ~linkUp'
             /\ \E k \in 0..Len(pdu) : wire' = Append(wire, Sent(t, SubSeq(pdu, 1, k)))
      BY <1>2, <3>1, SendsPdu
    <3>3. ASSUME NEW k \in 0..Len(pdu) PROVE SubSeq(pdu, 1, k) \in Prefixes(pdu)
      BY DEF Prefixes
    <3>4. CASE wire' = Append(wire, Sent(t, pdu))
      BY <3>4
    <3>5. CASE /\ ~linkUp'
               /\ \E k \in 0..Len(pdu) : wire' = Append(wire, Sent(t, SubSeq(pdu, 1, k)))
      BY <3>3, <3>5
    <3>6. QED
      BY <3>2, <3>4, <3>5
  <2>2. /\ n \in Nat /\ DOMAIN wire = 1..n /\ DOMAIN wire' = 1..(n + 1) /\ Len(wire') = n + 1
        /\ wire'[n + 1] = Sent(t, cells) /\ \A i \in 1..n : wire'[i] = wire[i]
    BY <2>1
  <2>3. ASSUME NEW i \in 1..n
        PROVE  wire[i].cells = Pdu(wire[i].op, wire[i].by, wire[i].seqNo)
    BY <1>2, <2>2 DEF WireIntact
  <2>4. Sent(t, cells) = [op |-> call[t].op, by |-> t, seqNo |-> call[t].seqNo, cells |-> cells]
    BY DEF Sent
  <2>5. ASSUME NEW i \in DOMAIN wire'
        PROVE  LET sent == Pdu(wire'[i].op, wire'[i].by, wire'[i].seqNo)
               IN \/ wire'[i].cells = sent
                  \/ i = Len(wire') /\ ~linkUp' /\ wire'[i].cells \in Prefixes(sent)
    <3>1. CASE i = n + 1
      BY <2>1, <2>2, <2>4, <3>1
    <3>2. CASE i \in 1..n
      BY <2>2, <2>3, <3>2
    <3>3. QED
      BY <2>2, <3>1, <3>2
  <2>6. QED
    BY <2>5 DEF WireIntact, Prefixes
<1>3. QED
  BY <1>1, <1>2

\* Each send puts the PDU of its own call on the wire, whole, whatever the
\* other threads do with the one buffer; only the last can be cut short.
THEOREM WireCorrect == Spec => []WireIntact
<1>1. Init => WireIntact
  BY DEF Init, WireIntact
<1>2. Inv /\ WireIntact /\ [Next]_vars => WireIntact'
  <2> SUFFICES ASSUME Inv, WireIntact, [Next]_vars PROVE WireIntact'
    OBVIOUS
  <2>1. CASE \E t \in Thread : NetSend(t)
    BY <2>1, WireStep DEF Inv, Types
  <2>2. CASE LinkBreaks
    BY <2>2 DEF LinkBreaks, WireIntact
  <2>3. CASE UNCHANGED <<wire, linkUp>>
    BY <2>3 DEF WireIntact
  <2>4. [Next]_vars => \/ \E t \in Thread : NetSend(t)
                      \/ LinkBreaks
                      \/ UNCHANGED <<wire, linkUp>>
    BY DEF Next, vars, Build, CallBind, CallSubmit, CallAnswer, Call, LockSend,
       ResetBuffer, TakeNumber, WriteHeader, WriteBody, SaveLength, PatchLength, UnlockSend
  <2>5. QED
    BY <2>1, <2>2, <2>3, <2>4
<1>3. QED
  BY <1>1, <1>2, Invariance, PTL DEF Spec

-----------------------------------------------------------------------------
(***************************************************************************)
(* The refinement.  A call takes effect in NetSend, and the number that a  *)
(* request took is the next one until then.                                *)
(***************************************************************************)
\* Without a request behind its number, the counter is the next number; with
\* one, the number it took is.
LEMMA NextNumber ==
  ASSUME Inv
  PROVE  /\ Numbered = {} => nextNo = sequenceNo
         /\ \A t \in Numbered : Numbered = {t} /\ nextNo = call[t].seqNo
<1>1. ASSUME NEW t \in Numbered PROVE Numbered = {t} /\ nextNo = call[t].seqNo
  <2>1. t \in Thread /\ pc[t] \in Building
    BY DEF Numbered, Building
  <2>2. sendMutex = t /\ \A u \in Thread : u # t => pc[u] \notin Building
    BY <2>1, Alone
  <2>3. QED
    BY <2>2 DEF nextNo, Numbered, Building
<1>2. QED
  BY <1>1 DEF nextNo

\* A send is an atomic send of the call, with the next number for a request.
LEMMA SendRefines ==
  ASSUME Inv, Inv', NEW t \in Thread, NetSend(t)
  PROVE  Abstract!Next
<1> DEFINE op == call[t].op
           n == call[t].seqNo
           pdu == Pdu(op, t, n)
<1>1. /\ pc[t] = "send" /\ pc'[t] = "unlock"
      /\ \A u \in Thread : u # t => pc'[u] = pc[u]
  BY GotoType DEF NetSend, Inv
<1>2. UNCHANGED <<sequenceNo, call, sendMutex>>
  BY DEF NetSend
<1>3. op \in Op /\ n \in Nat /\ (op \in Answer => n \in PeerSeqNo)
  BY <1>1 DEF Inv, Calls, Types, Building
<1>4. \A u \in Thread : u # t => pc[u] \notin Building
  BY <1>1, Alone DEF Building
<1>5. Numbered' = {}
  BY <1>1, <1>4 DEF Numbered, Building
<1>6. nextNo' = sequenceNo
  BY <1>2, <1>5, NextNumber DEF nextNo
<1>7. Abstract!Transmit(op, t, n)
  <2>1. pdu = Pdu(call[t].op, t, call[t].seqNo)
    OBVIOUS
  <2>2. \A cells : Sent(t, cells) = [op |-> op, by |-> t, seqNo |-> n, cells |-> cells]
    BY DEF Sent
  <2> HIDE DEF pdu
  <2>3. \/ linkUp /\ wire' = Append(wire, Sent(t, pdu)) /\ UNCHANGED linkUp
        \/ /\ linkUp
           /\ \E k \in 0..Len(pdu) : wire' = Append(wire, Sent(t, SubSeq(pdu, 1, k)))
           /\ linkUp' = FALSE
        \/ ~linkUp /\ UNCHANGED <<wire, linkUp>>
    BY <2>1, SendsPdu
  <2>4. QED
    BY <2>1, <2>2, <2>3 DEF Abstract!Transmit
<1>8. CASE op \in Request
  <2>1. t \in Numbered
    BY <1>1, <1>8 DEF Numbered
  <2>2. nextNo = n /\ sequenceNo = Successor(op, n)
    BY <2>1, NextNumber DEF Inv, NumberTaken
  <2>3. Abstract!SendRequest(op, t)
    BY <1>6, <1>7, <2>2 DEF Abstract!SendRequest
  <2>4. QED
    BY <1>8, <2>3 DEF Abstract!Next
<1>9. CASE op \notin Request
  <2>1. Numbered = {}
    BY <1>1, <1>4, <1>9 DEF Numbered, Building
  <2>2. nextNo' = nextNo
    BY <1>6, <2>1, NextNumber
  <2>3. op \in Answer /\ n \in PeerSeqNo
    BY <1>3, <1>9 DEF Op
  <2>4. Abstract!SendAnswer(op, t, n)
    BY <1>7, <2>2 DEF Abstract!SendAnswer
  <2>5. QED
    BY <2>3, <2>4 DEF Abstract!Next
<1>10. QED
  BY <1>8, <1>9

\* The steps that take no number, and change nothing of the call of the thread
\* that builds, keep the next number.
LEMMA KeepsNumber ==
  ASSUME Inv, Numbered' = Numbered, sequenceNo' = sequenceNo,
         Numbered # {} => sendMutex' = sendMutex /\ call'[sendMutex] = call[sendMutex]
  PROVE  nextNo' = nextNo
BY DEF nextNo

\* The number that TakeNumber takes was the next one before.
LEMMA TakeKeepsNumber ==
  ASSUME Inv, NEW t \in Thread, TakeNumber(t)
  PROVE  nextNo' = nextNo
<1>1. /\ pc[t] = "number" /\ pc'[t] = "header" /\ UNCHANGED sendMutex
      /\ call' = [call EXCEPT ![t].seqNo = sequenceNo]
  BY GotoType DEF TakeNumber, Inv
<1>2. /\ sendMutex = t /\ \A u \in Thread : u # t => pc[u] \notin Building
  BY <1>1, Alone DEF Building
<1>3. Numbered = {}
  BY <1>1, <1>2 DEF Numbered, Building
<1>4. call[t].op \in Request /\ call \in [Thread -> [op : Op \cup {"none"}, seqNo : Nat]]
  BY <1>1 DEF Inv, Calls, Types
<1>5. call'[t].op = call[t].op /\ call'[t].seqNo = sequenceNo
  BY <1>1, <1>4
<1>6. t \in Numbered'
  BY <1>1, <1>4, <1>5 DEF Numbered
<1>7. QED
  BY <1>1, <1>2, <1>3, <1>5, <1>6 DEF nextNo

\* No step but a send changes what SendPathSpec sees of a thread.
LEMMA BuildStutters ==
  ASSUME Inv, NEW t \in Thread,
         \/ CallBind(t) \/ CallSubmit(t) \/ CallAnswer(t) \/ LockSend(t)
         \/ ResetBuffer(t) \/ TakeNumber(t) \/ WriteHeader(t) \/ WriteBody(t)
         \/ SaveLength(t) \/ PatchLength(t) \/ UnlockSend(t)
  PROVE  UNCHANGED Abstract!vars
<1>1. UNCHANGED <<wire, linkUp>>
  BY DEF CallBind, CallSubmit, CallAnswer, Call, LockSend, ResetBuffer, TakeNumber,
     WriteHeader, WriteBody, SaveLength, PatchLength, UnlockSend
<1>2. nextNo' = nextNo
  <2>1. CASE CallBind(t) \/ CallSubmit(t) \/ CallAnswer(t)
    <3>1. PICK from \in {"idle", "connected"}, op \in Op, n \in Nat : Call(t, from, op, n)
      BY <2>1 DEF CallBind, CallSubmit, CallAnswer, Op, Request
    <3>2. /\ pc[t] = from /\ pc'[t] = "lock"
          /\ \A u \in Thread : u # t => pc'[u] = pc[u]
          /\ \A u \in Thread : u # t => call'[u] = call[u]
          /\ UNCHANGED <<sequenceNo, sendMutex>>
      BY <3>1, GotoType DEF Call, Inv, Types
    <3>3. Numbered' = Numbered /\ t \notin Numbered
      BY <3>2 DEF Numbered
    <3>4. \A u \in Numbered : u \in Thread /\ u # t /\ sendMutex = u
      BY <3>3, Alone DEF Numbered, Building
    <3>5. Numbered # {} => call'[sendMutex] = call[sendMutex]
      BY <3>2, <3>4
    <3>6. QED
      BY <3>2, <3>3, <3>5, KeepsNumber
  <2>2. CASE LockSend(t)
    <3>1. /\ pc[t] = "lock" /\ pc'[t] = "reset" /\ sendMutex = None
          /\ \A u \in Thread : u # t => pc'[u] = pc[u]
          /\ UNCHANGED <<sequenceNo, call>>
      BY <2>2, GotoType DEF LockSend, Inv
    <3>2. \A u \in Thread : pc[u] \notin Building
      BY <3>1 DEF Inv, Exclusion
    <3>3. Numbered = {} /\ Numbered' = {}
      BY <3>1, <3>2 DEF Numbered, Building
    <3>4. QED
      BY <3>1, <3>3, KeepsNumber
  <2>3. CASE ResetBuffer(t)
    <3>1. /\ pc[t] = "reset" /\ UNCHANGED <<sequenceNo, call, sendMutex>>
          /\ pc'[t] = "number" \/ (pc'[t] = "header" /\ call[t].op \notin Request)
          /\ \A u \in Thread : u # t => pc'[u] = pc[u]
      <4>1. /\ pc[t] = "reset" /\ UNCHANGED <<sequenceNo, call, sendMutex>>
            /\ pc'[t] = IF call[t].op \in Request THEN "number" ELSE "header"
            /\ \A u \in Thread : u # t => pc'[u] = pc[u]
        BY <2>3, GotoType DEF ResetBuffer, Inv
      <4>2. QED
        BY <4>1
    <3>2. Numbered' = Numbered
      BY <3>1 DEF Numbered
    <3>3. QED
      BY <3>1, <3>2, KeepsNumber
  <2>4. CASE WriteHeader(t) \/ WriteBody(t) \/ SaveLength(t) \/ PatchLength(t)
    <3>1. /\ pc[t] \in {"header", "body", "save", "patch"}
          /\ pc'[t] \in {"body", "save", "patch", "send"}
          /\ \A u \in Thread : u # t => pc'[u] = pc[u]
          /\ UNCHANGED <<sequenceNo, call, sendMutex>>
      BY <2>4, GotoType DEF WriteHeader, WriteBody, SaveLength, PatchLength, Inv
    <3>2. Numbered' = Numbered
      BY <3>1 DEF Numbered
    <3>3. QED
      BY <3>1, <3>2, KeepsNumber
  <2>5. CASE UnlockSend(t)
    <3>1. /\ pc[t] = "unlock" /\ pc'[t] = "idle" /\ UNCHANGED sequenceNo
          /\ \A u \in Thread : u # t => pc'[u] = pc[u]
      BY <2>5, GotoType DEF UnlockSend, Inv
    <3>2. \A u \in Thread : u # t => pc[u] \notin Building
      BY <3>1, Alone DEF Building
    <3>3. Numbered = {} /\ Numbered' = {}
      BY <3>1, <3>2 DEF Numbered, Building
    <3>4. QED
      BY <3>1, <3>3, KeepsNumber
  <2>6. QED
    BY <2>1, <2>2, <2>3, <2>4, <2>5, TakeKeepsNumber
<1>3. QED
  BY <1>1, <1>2 DEF Abstract!vars

\* The steps of the threads are steps of SendPathSpec.
LEMMA StepRefines == Inv /\ Inv' /\ [Next]_vars => [Abstract!Next]_(Abstract!vars)
<1> SUFFICES ASSUME Inv, Inv', [Next]_vars
             PROVE  Abstract!Next \/ UNCHANGED Abstract!vars
  OBVIOUS
<1>1. ASSUME NEW t \in Thread, NetSend(t) PROVE Abstract!Next
  BY <1>1, SendRefines
<1>2. CASE LinkBreaks
  <2>1. UNCHANGED <<wire, nextNo>>
    BY <1>2 DEF LinkBreaks, nextNo, Numbered
  <2>2. QED
    BY <1>2, <2>1 DEF LinkBreaks, Abstract!Next, Abstract!LinkBreaks
<1>3. CASE UNCHANGED vars
  BY <1>3 DEF vars, Abstract!vars, nextNo, Numbered
<1>4. QED
  BY <1>1, <1>2, <1>3, BuildStutters DEF Next, Build

\* The send functions implement atomic sends: a call takes effect where it
\* sends, and requests are numbered in the order in which they go out.
THEOREM Refinement == Spec => ImplementsAtomicSend
<1>1. Init => Abstract!Init
  BY DEF Init, Abstract!Init, nextNo, Numbered
<1>2. QED
  BY <1>1, StepRefines, Invariance, PTL DEF Spec, ImplementsAtomicSend, Abstract!Spec

-----------------------------------------------------------------------------
(***************************************************************************)
(* The numbers.  Behind a request with number s, the next number has       *)
(* advanced by the requests since, and has wrapped at most once.  The      *)
(* proof goes over the steps of SendPathSpec, which sees the sends only.   *)
(***************************************************************************)
\* The requests among the sends w from the i-th on, up to the j-th.
RequestsIn(w, i, j) == {k \in i..(j - 1) : w[k].op \in Request}

\* The number of requests from the i-th send on.
Since(w, i) == Cardinality(RequestsIn(w, i, Len(w) + 1))

\* A counter that was s and was advanced d times can be n.
Advanced(s, d, n) ==
  \/ n = s + d
  \/ s < MaxSeqNo /\ n = s + d - (MaxSeqNo - 1)
  \/ n = s + d - MaxSeqNo

\* The requests in w have numbers from which the next number is n.
LeadTo(w, n) ==
  \A i \in DOMAIN w :
    w[i].op \in Request =>
      /\ w[i].seqNo \in SeqNo
      /\ Since(w, i) < MaxSeqNo => Advanced(w[i].seqNo, Since(w, i), n)

\* Behind the end of the connection the counter goes on without sends.
NumbersLead == linkUp => LeadTo(wire, nextNo)

DistinctIn(w) ==
  \A i, j \in DOMAIN w :
    (/\ i < j /\ {w[i].op, w[j].op} \subseteq Request
     /\ Cardinality(RequestsIn(w, i, j)) < MaxSeqNo - 1)
      => w[i].seqNo # w[j].seqNo

\* One more request advances the counter once more.
LEMMA AdvanceOnce ==
  ASSUME NEW s \in SeqNo, NEW d \in Nat, NEW n \in SeqNo, NEW op \in Request,
         Advanced(s, d, n), d + 1 < MaxSeqNo, Successor(op, n) \in SeqNo
  PROVE  Advanced(s, d + 1, Successor(op, n))
BY DEF Advanced, SeqNo, Successor, Request

\* A counter that was advanced, but less than MaxSeqNo - 1 times, has moved.
LEMMA AdvancedMoves ==
  ASSUME NEW s \in SeqNo, NEW d \in Nat, NEW n \in SeqNo,
         Advanced(s, d, n), d > 0, d < MaxSeqNo - 1
  PROVE  n # s
BY DEF Advanced, SeqNo

\* The requests are counted.
LEMMA SinceType ==
  ASSUME NEW w \in Seq(Send), NEW i \in DOMAIN w
  PROVE  /\ IsFiniteSet(RequestsIn(w, i, Len(w) + 1))
         /\ Since(w, i) \in Nat
         /\ w[i].op \in Request => Since(w, i) > 0
<1> DEFINE R == RequestsIn(w, i, Len(w) + 1)
<1>1. Len(w) \in Nat /\ DOMAIN w = 1..Len(w) /\ i \in Int
  OBVIOUS
<1>2. IsFiniteSet(i..(Len(w) + 1 - 1))
  BY <1>1, FS_Interval
<1>3. IsFiniteSet(R)
  BY <1>2, FS_Subset DEF RequestsIn
<1>4. Cardinality(R) \in Nat /\ (Cardinality(R) = 0 <=> R = {})
  BY <1>3, FS_CardinalityType, FS_EmptySet
<1>5. w[i].op \in Request => i \in R
  BY <1>1 DEF RequestsIn
<1>6. QED
  BY <1>3, <1>4, <1>5 DEF Since

\* A send that is added comes behind the others.
LEMMA AppendSend ==
  ASSUME NEW w \in Seq(Send), NEW m \in Send
  PROVE  /\ Len(w) \in Nat /\ DOMAIN w = 1..Len(w)
         /\ Len(Append(w, m)) = Len(w) + 1 /\ DOMAIN Append(w, m) = 1..(Len(w) + 1)
         /\ Append(w, m)[Len(w) + 1] = m /\ \A i \in 1..Len(w) : Append(w, m)[i] = w[i]
OBVIOUS

\* It does not count between two that were there before.
LEMMA AppendBetween ==
  ASSUME NEW w \in Seq(Send), NEW m \in Send,
         NEW i \in 1..(Len(w) + 1), NEW j \in 1..(Len(w) + 1)
  PROVE  RequestsIn(Append(w, m), i, j) = RequestsIn(w, i, j)
<1>1. \A k \in i..(j - 1) : k \in 1..Len(w)
  BY AppendSend
<1>2. \A k \in i..(j - 1) : Append(w, m)[k] = w[k]
  BY <1>1, AppendSend
<1>3. QED
  BY <1>2 DEF RequestsIn

\* It is counted behind each of them if it is a request.
LEMMA AppendSince ==
  ASSUME NEW w \in Seq(Send), NEW m \in Send, NEW i \in 1..(Len(w) + 1)
  PROVE  Since(Append(w, m), i)
           = Cardinality(RequestsIn(w, i, Len(w) + 1)) + IF m.op \in Request THEN 1 ELSE 0
<1> DEFINE v == Append(w, m)
           n == Len(w)
           R == RequestsIn(w, i, n + 1)
<1>1. /\ n \in Nat /\ Len(v) = n + 1 /\ v[n + 1] = m
      /\ \A k \in 1..n : v[k] = w[k]
  BY AppendSend
<1> HIDE DEF v, n
<1>2. i..(n + 1) = (i..n) \cup {n + 1} /\ Len(v) + 1 - 1 = n + 1 /\ n + 1 - 1 = n
  BY <1>1 DEF n
<1>3. RequestsIn(v, i, Len(v) + 1) = {k \in i..(n + 1) : v[k].op \in Request}
  BY <1>2 DEF RequestsIn
<1>4. R = {k \in i..n : v[k].op \in Request}
  <2>1. \A k \in i..n : v[k] = w[k]
    BY <1>1 DEF n
  <2>2. n + 1 - 1 = n
    BY <1>1
  <2>3. RequestsIn(w, i, n + 1) = {k \in i..n : w[k].op \in Request}
    BY <1>1, <2>2 DEF RequestsIn
  <2>4. QED
    BY <2>1, <2>3
<1>5. IsFiniteSet(R) /\ n + 1 \notin R
  <2>1. i \in Int /\ n \in Int
    BY <1>1
  <2>2. IsFiniteSet(i..n)
    BY <2>1, FS_Interval
  <2>3. QED
    BY <1>1, <1>4, <2>1, <2>2, FS_Subset
<1>6. Cardinality(R) \in Nat /\ Cardinality(R \cup {n + 1}) = Cardinality(R) + 1
  BY <1>5, FS_AddElement, FS_CardinalityType
<1>7. RequestsIn(v, i, Len(v) + 1) = IF m.op \in Request THEN R \cup {n + 1} ELSE R
  BY <1>1, <1>2, <1>3, <1>4
<1>8. Since(v, i) = Cardinality(R) + IF m.op \in Request THEN 1 ELSE 0
  BY <1>6, <1>7 DEF Since
<1>9. QED
  BY <1>8 DEF v, n

\* A send keeps the numbers apart.
LEMMA AppendNumbers ==
  ASSUME NEW w \in Seq(Send), NEW next \in SeqNo, LeadTo(w, next), DistinctIn(w),
         NEW m \in Send, NEW v, v = Append(w, m), NEW after \in SeqNo,
         \/ m.op \in Request /\ m.seqNo = next /\ after = Successor(m.op, next)
         \/ m.op \notin Request /\ after = next
  PROVE  LeadTo(v, after) /\ DistinctIn(v)
<1> DEFINE n == Len(w)
<1>1. /\ n \in Nat /\ DOMAIN w = 1..n /\ DOMAIN v = 1..(n + 1)
      /\ v[n + 1] = m /\ \A i \in 1..n : v[i] = w[i]
  BY AppendSend
<1>2. /\ \A i, j \in 1..(n + 1) : RequestsIn(v, i, j) = RequestsIn(w, i, j)
      /\ \A i \in 1..n : Since(v, i) = IF m.op \in Request THEN Since(w, i) + 1 ELSE Since(w, i)
      /\ m.op \in Request => Since(v, n + 1) = 1
  <2>1. ASSUME NEW i \in 1..(n + 1), NEW j \in 1..(n + 1)
        PROVE  RequestsIn(v, i, j) = RequestsIn(w, i, j)
    BY AppendBetween
  <2>2. ASSUME NEW i \in 1..n
        PROVE  Since(v, i) = IF m.op \in Request THEN Since(w, i) + 1 ELSE Since(w, i)
    <3>1. Since(v, i) = Since(w, i) + IF m.op \in Request THEN 1 ELSE 0
      BY <1>1, AppendSince DEF Since
    <3>2. Since(w, i) \in Nat
      BY <1>1, SinceType
    <3>3. QED
      BY <3>1, <3>2
  <2>3. m.op \in Request => Since(v, n + 1) = 1
    <3>1. Cardinality(RequestsIn(w, n + 1, n + 1)) = 0
      <4>1. RequestsIn(w, n + 1, n + 1) = {}
        BY <1>1 DEF RequestsIn
      <4>2. QED
        BY <4>1, FS_EmptySet
    <3>2. Since(v, n + 1) = 0 + IF m.op \in Request THEN 1 ELSE 0
      BY <1>1, <3>1, AppendSince
    <3>3. QED
      BY <3>2
  <2>4. QED
    BY <2>1, <2>2, <2>3
<1> HIDE DEF n
<1>3. ASSUME NEW i \in 1..n, w[i].op \in Request
      PROVE  /\ w[i].seqNo \in SeqNo /\ Since(w, i) \in Nat /\ Since(w, i) > 0
             /\ Since(w, i) < MaxSeqNo => Advanced(w[i].seqNo, Since(w, i), next)
  BY <1>1, <1>2, <1>3, SinceType DEF LeadTo
<1>4. ASSUME NEW i \in 1..(n + 1), v[i].op \in Request
      PROVE  /\ v[i].seqNo \in SeqNo
             /\ Since(v, i) < MaxSeqNo => Advanced(v[i].seqNo, Since(v, i), after)
  <2>1. CASE i = n + 1
    <3>1. m.op \in Request /\ m.seqNo = next /\ after = Successor(m.op, next)
      BY <1>1, <1>2, <1>4, <2>1
    <3>2. Advanced(next, 0, next) /\ 0 + 1 < MaxSeqNo /\ 0 + 1 = 1
      BY DEF Advanced, SeqNo
    <3>3. Advanced(next, 1, after)
      BY <3>1, <3>2, AdvanceOnce
    <3>4. Since(v, i) = 1 /\ v[i].seqNo = next
      BY <1>1, <1>2, <2>1, <3>1
    <3>5. QED
      BY <3>3, <3>4
  <2>2. CASE i \in 1..n
    <3>1. v[i] = w[i] /\ w[i].op \in Request
      BY <1>1, <1>2, <1>4, <2>2
    <3>2. CASE m.op \notin Request
      BY <1>1, <1>2, <1>3, <2>2, <3>1, <3>2
    <3>3. CASE m.op \in Request
      <4>1. Since(v, i) = Since(w, i) + 1 /\ after = Successor(m.op, next)
        BY <1>1, <1>2, <2>2, <3>3
      <4>2. Since(w, i) \in Nat /\ w[i].seqNo \in SeqNo
        BY <1>3, <2>2, <3>1
      <4>3. ASSUME Since(w, i) + 1 < MaxSeqNo
            PROVE  Advanced(w[i].seqNo, Since(w, i) + 1, after)
        <5>1. Since(w, i) < MaxSeqNo
          BY <4>2, <4>3
        <5>2. Advanced(w[i].seqNo, Since(w, i), next)
          BY <1>3, <2>2, <3>1, <5>1
        <5>3. QED
          BY <3>3, <4>1, <4>2, <4>3, <5>2, AdvanceOnce
      <4>4. QED
        BY <3>1, <4>1, <4>2, <4>3
    <3>4. QED
      BY <3>2, <3>3
  <2>3. QED
    BY <1>1, <1>2, <2>1, <2>2
<1>5. LeadTo(v, after)
  BY <1>1, <1>2, <1>4 DEF LeadTo
<1>6. ASSUME NEW i \in 1..(n + 1), NEW j \in 1..(n + 1),
             i < j, v[i].op \in Request, v[j].op \in Request,
             Cardinality(RequestsIn(v, i, j)) < MaxSeqNo - 1
      PROVE  v[i].seqNo # v[j].seqNo
  <2>1. /\ i \in 1..n /\ v[i] = w[i]
        /\ Cardinality(RequestsIn(w, i, j)) < MaxSeqNo - 1
    BY <1>1, <1>2, <1>6
  <2>2. CASE j \in 1..n
    <3>1. v[j] = w[j] /\ {w[i].op, w[j].op} \subseteq Request
      BY <1>1, <1>2, <1>6, <2>1, <2>2
    <3>2. QED
      BY <1>1, <1>2, <1>6, <2>1, <2>2, <3>1 DEF DistinctIn
  <2>3. CASE j = n + 1
    <3>1. v[j] = m /\ m.seqNo = next
      BY <1>1, <1>2, <1>6, <2>3
    <3>2. Since(w, i) < MaxSeqNo - 1
      BY <2>1, <2>3 DEF Since, n
    <3>3. /\ w[i].seqNo \in SeqNo /\ Since(w, i) \in Nat /\ Since(w, i) > 0
          /\ Advanced(w[i].seqNo, Since(w, i), next)
      BY <1>3, <1>6, <2>1, <3>2
    <3>4. next # w[i].seqNo
      BY <3>2, <3>3, AdvancedMoves
    <3>5. QED
      BY <2>1, <3>1, <3>4
  <2>4. QED
    BY <1>1, <1>2, <2>2, <2>3
<1>7. DistinctIn(v)
  BY <1>1, <1>2, <1>6 DEF DistinctIn
<1>8. QED
  BY <1>5, <1>7

\* The next number is a number of the session.
NextTyped == nextNo \in SeqNo

LEMMA NextType == Inv => NextTyped
<1> SUFFICES ASSUME Inv PROVE nextNo \in SeqNo
  BY DEF NextTyped
<1>1. CASE Numbered = {}
  BY <1>1, NextNumber DEF Inv, Types
<1>2. CASE Numbered # {}
  BY <1>2, NextNumber DEF Inv, NumberTaken
<1>3. QED
  BY <1>1, <1>2

Numbers == NextTyped /\ NumbersLead /\ DistinctIn(wire)

\* Steps of SendPathSpec keep the numbers apart.
LEMMA NumbersStep ==
  ASSUME Numbers, Inv, Inv', NextTyped', [Abstract!Next]_(Abstract!vars)
  PROVE  Numbers'
<1>1. wire \in Seq(Send) /\ wire' \in Seq(Send) /\ linkUp \in BOOLEAN
  BY DEF Inv, Types
<1>2. CASE UNCHANGED wire /\ (linkUp' => linkUp /\ UNCHANGED nextNo)
  BY <1>2 DEF Numbers, NumbersLead
<1>3. ASSUME linkUp, NEW m, wire' = Append(wire, m),
             \/ m.op \in Request /\ m.seqNo = nextNo /\ nextNo' = Successor(m.op, nextNo)
             \/ m.op \notin Request /\ nextNo' = nextNo
      PROVE  Numbers'
  <2>1. Len(wire) + 1 \in DOMAIN wire' /\ wire'[Len(wire) + 1] = m
    BY <1>1, <1>3
  <2>2. m \in Send
    BY <1>1, <2>1
  <2>3. nextNo \in SeqNo /\ LeadTo(wire, nextNo) /\ DistinctIn(wire)
    BY <1>3 DEF Numbers, NumbersLead, NextTyped
  <2>4. LeadTo(wire', nextNo') /\ DistinctIn(wire')
    BY <1>1, <1>3, <2>2, <2>3, AppendNumbers DEF NextTyped
  <2>5. QED
    BY <2>4 DEF Numbers, NumbersLead
<1>4. Request \subseteq Op /\ Answer \subseteq Op /\ Request \cap Answer = {}
  BY DEF Op, Request, Answer
<1>5. ASSUME NEW op \in Op, NEW t \in Thread, NEW s \in Nat, Abstract!Transmit(op, t, s),
             \/ op \in Request /\ s = nextNo /\ nextNo' = Successor(op, nextNo)
             \/ op \notin Request /\ nextNo' = nextNo
      PROVE  Numbers'
  <2>1. CASE ~linkUp
    BY <1>2, <1>5, <2>1 DEF Abstract!Transmit
  <2>2. CASE linkUp
    <3>1. PICK cells :
            wire' = Append(wire, [op |-> op, by |-> t, seqNo |-> s, cells |-> cells])
      BY <1>5, <2>2 DEF Abstract!Transmit
    <3>2. PICK m : m = [op |-> op, by |-> t, seqNo |-> s, cells |-> cells]
      OBVIOUS
    <3>3. wire' = Append(wire, m) /\ m.op = op /\ m.seqNo = s
      BY <3>1, <3>2
    <3>4. QED
      BY <1>3, <1>5, <2>2, <3>3
  <2>3. QED
    BY <2>1, <2>2
<1>6. CASE \E op \in Request, t \in Thread : Abstract!SendRequest(op, t)
  <2>1. nextNo \in Nat
    BY DEF Numbers, NextTyped, SeqNo
  <2>2. QED
    BY <1>4, <1>5, <1>6, <2>1 DEF Abstract!SendRequest
<1>7. CASE \E op \in Answer, t \in Thread, s \in PeerSeqNo : Abstract!SendAnswer(op, t, s)
  BY <1>4, <1>5, <1>7 DEF Abstract!SendAnswer
<1>8. CASE Abstract!LinkBreaks
  BY <1>2, <1>8 DEF Abstract!LinkBreaks
<1>9. CASE UNCHANGED Abstract!vars
  BY <1>2, <1>9 DEF Abstract!vars
<1>10. QED
  BY <1>6, <1>7, <1>8, <1>9 DEF Abstract!Next

\* Two requests with the same number are at least MaxSeqNo - 1 requests apart,
\* so that a response names one outstanding request, whichever threads took the
\* numbers, and though a bind may give out the greatest number.
THEOREM NumbersCorrect == Spec => []NumbersDistinct
<1>1. Init => Numbers
  <2> SUFFICES ASSUME Init PROVE Numbers
    OBVIOUS
  <2>1. DOMAIN wire = {}
    BY DEF Init
  <2>2. NextTyped
    BY InitInv, NextType
  <2>3. QED
    BY <2>1, <2>2 DEF Numbers, NumbersLead, LeadTo, DistinctIn
<1>2. Inv' => NextTyped'
  BY NextType, PTL
<1>3. Numbers /\ Inv /\ Inv' /\ [Next]_vars => Numbers'
  BY <1>2, StepRefines, NumbersStep
<1>4. Numbers => NumbersDistinct
  BY DEF Numbers, DistinctIn, RequestsIn, NumbersDistinct, RequestsBetween
<1>5. QED
  BY <1>1, <1>3, <1>4, Invariance, PTL DEF Spec

=============================================================================
