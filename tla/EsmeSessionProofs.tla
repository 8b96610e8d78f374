------------------------- MODULE EsmeSessionProofs --------------------------
(***************************************************************************)
(* Theorems about EsmeSession, for any number of threads, submits and      *)
(* requests of the SMSC.                                                   *)
(*                                                                         *)
(* The inductive invariant joins the session state to the progress of its  *)
(* two writers, esme_start and the worker (Progress), what the worker has  *)
(* read to what it reported and answered (Current, Reports, Answers), what *)
(* the SMSC sent to what it was sent (SmscOrder), and a submit that holds  *)
(* sendMutex to the number it took (Calls).                                *)
(***************************************************************************)
EXTENDS EsmeSession, FiniteSetTheorems, SequenceTheorems, TLAPS

Op == Request \cup Answer

\* A PDU, or the beginning of one.
Cells    == {<<>>} \cup {<<op>> : op \in Op} \cup (Op \X Nat)
Sending  == [op : Op, by : Thread, seqNo : Nat, cells : Cells]
Received == [op : SmscAnswer \cup SmscRequest, seqNo : Nat, status : {"ok", "error"}]

Types ==
  /\ state \in State
  /\ awaiting \in [Thread -> State \cup {None}]
  /\ wire \in Seq(Sending) /\ nextNo \in Nat
  /\ sent \in Seq(Received) /\ handled \in Seq(Received) /\ lost \subseteq DOMAIN sent
  /\ linkUp \in BOOLEAN
  /\ pc \in [App -> {"connect", "failed", "open", "create", "bind", "idle", "wait", "bound"}]
  /\ worker \in {"none", "runs", "done"}
  /\ reported \in Seq(Received)

\* esme_start stores OPENED before there is a worker, and the worker stores the
\* other states.
Progress ==
  /\ \A t \in App : pc[t] \in {"connect", "failed", "open", "create", "bind"} => t = Starter
  /\ state = "undefined" <=> pc[Starter] \in {"connect", "failed", "open"}
  /\ pc[Starter] \in {"connect", "failed", "open", "create"} => worker = "none"
  /\ worker = "none" => state \in {"undefined", "opened"} /\ handled = <<>>
  /\ worker = "runs" => state \in {"opened", "bound"}
  /\ worker = "done" <=> state = "closed"

\* The work left for a PDU, when some is left.
LeftFor(op) ==
  CASE op = "bind_resp" -> {<<"handler", "bound">>, <<"bound">>}
    [] op = "submit_sm_resp" -> {<<"handler">>}
    [] op = "enquire_link" -> {<<"answer">>}
    [] op = "deliver_sm" -> {<<"handler", "answer">>, <<"answer">>}

HandlerDue == todo \in {<<"handler">>, <<"handler", "bound">>, <<"handler", "answer">>}
AnswerDue  == todo \in {<<"answer">>, <<"handler", "answer">>}

\* The worker works on the PDU it has read last.
Current ==
  todo # <<>> =>
    /\ worker = "runs"
    /\ handled # <<>> /\ header = handled[Len(handled)]
    /\ todo \in LeftFor(header.op)

\* The worker reads what was sent, and closes the session at the end of it.
Stream ==
  /\ Len(handled) <= Len(sent) /\ \A i \in DOMAIN handled : handled[i] = sent[i]
  /\ state = "closed" => ~linkUp /\ todo = <<>> /\ DOMAIN sent = DOMAIN handled \cup lost

\* What was read was reported, unless the handler is to be called yet.
Reports ==
  /\ \A i \in DOMAIN reported : \E j \in DOMAIN handled : reported[i] = handled[j]
  /\ \A j \in DOMAIN handled : handled[j].op \in Handlers =>
       \/ \E i \in DOMAIN reported : reported[i] = handled[j]
       \/ j = Len(handled) /\ HandlerDue

\* The SMSC responds to requests it was sent, sends messages to sessions it
\* bound, and numbers its requests.
SmscOrder ==
  /\ \A i \in DOMAIN sent :
       /\ sent[i].op = "bind_resp" => \E j \in DOMAIN wire : wire[j].op = "bind"
       /\ sent[i].op = "submit_sm_resp" =>
            \E j \in DOMAIN wire : wire[j].op = "submit_sm" /\ wire[j].seqNo = sent[i].seqNo
       /\ sent[i].op = "deliver_sm" => \E j \in DOMAIN sent : j < i /\ sent[j].op = "bind_resp"
       /\ sent[i].op \in SmscRequest => sent[i].seqNo \in 1..Requested(sent)
  /\ \A i, j \in DOMAIN sent :
       i < j /\ sent[i].op \in SmscRequest /\ sent[j].op \in SmscRequest
         => sent[i].seqNo < sent[j].seqNo
  /\ Requested(sent) <= MaxRequests

\* The number of a submit_sm that is out was stored.
NumbersKnown == \A i \in DOMAIN wire : wire[i].op = "submit_sm" => wire[i].seqNo \in known

BindHandled == \E j \in DOMAIN handled : handled[j].op = "bind_resp"

\* Whoever has seen BOUND has seen it behind the response to the bind.
BoundFollowsResponse ==
  /\ state = "bound" => BindHandled
  /\ \A t \in App : pc[t] = "bound" => BindHandled

\* The request that the worker is still to answer has no answer.
NotYetAnswered ==
  \A i \in DOMAIN wire : wire[i].op \in Answer =>
    \E j \in DOMAIN handled : AnswerFor(wire[i], handled[j]) /\ (AnswerDue => j < Len(handled))

\* A submit that holds sendMutex has the next number, and stores it first.
Calls ==
  \/ call = NoCall
  \/ /\ call.by \in Thread /\ call.no = nextNo /\ BindHandled
     /\ \/ call.todo = <<"store", "send">>
        \/ call.todo = <<"send">> /\ call.no \in known

Answers == AnsweredInOrder /\ NotYetAnswered /\ AnsweredAfterHandler

Inv ==
  /\ Types /\ Progress /\ Current /\ Stream /\ Reports /\ SmscOrder
  /\ NumbersKnown /\ BoundFollowsResponse /\ SubmitsFollowBind /\ Answers /\ Calls

USE ThreadAssumption, HandlerAssumption, BoundAssumption
    DEF ThreadAssumption, HandlerAssumption, BoundAssumption

-----------------------------------------------------------------------------
(***************************************************************************)
(* Facts about the operators.                                              *)
(***************************************************************************)
\* What is appended is last, and the rest stays.
LEMMA AppendFacts ==
  ASSUME NEW S, NEW s \in Seq(S), NEW e \in S
  PROVE  /\ Len(s) \in Nat
         /\ Append(s, e) \in Seq(S) /\ Len(Append(s, e)) = Len(s) + 1
         /\ DOMAIN s = 1..Len(s) /\ DOMAIN Append(s, e) = 1..(Len(s) + 1)
         /\ \A i \in 1..Len(s) : Append(s, e)[i] = s[i]
         /\ Append(s, e)[Len(s) + 1] = e
OBVIOUS

\* A sequence that has s as its beginning and one PDU more.
LEMMA ReceivedAppend ==
  ASSUME NEW s \in Seq(Received), NEW m \in Received, NEW v, v = Append(s, m)
  PROVE  /\ v \in Seq(Received) /\ Len(s) \in Nat /\ Len(v) = Len(s) + 1
         /\ DOMAIN s = 1..Len(s) /\ DOMAIN v = 1..(Len(s) + 1)
         /\ \A i \in DOMAIN s : i \in DOMAIN v /\ v[i] = s[i]
         /\ v[Len(s) + 1] = m
  BY AppendFacts

LEMMA RequestedEmpty == Requested(<<>>) = 0
<1>1. {i \in DOMAIN <<>> : <<>>[i].op \in SmscRequest} = {}
  OBVIOUS
<1>2. QED
  BY <1>1, FS_EmptySet DEF Requested

\* Requested counts.
LEMMA RequestedAppend ==
  ASSUME NEW s \in Seq(Received), NEW m \in Received
  PROVE  /\ Requested(s) \in Nat
         /\ Requested(Append(s, m)) = Requested(s) + IF m.op \in SmscRequest THEN 1 ELSE 0
<1> DEFINE n == Len(s)
           v == Append(s, m)
           R == {i \in DOMAIN s : s[i].op \in SmscRequest}
           Q == {i \in DOMAIN v : v[i].op \in SmscRequest}
<1>1. /\ n \in Nat /\ DOMAIN s = 1..n /\ DOMAIN v = 1..(n + 1)
      /\ \A i \in 1..n : v[i] = s[i]
      /\ v[n + 1] = m
  BY AppendFacts
<1>2. IsFiniteSet(R) /\ n + 1 \notin R
  <2>1. IsFiniteSet(1..n)
    <3>1. 1 \in Int /\ n \in Int
      BY <1>1
    <3>2. QED
      BY <3>1, FS_Interval
  <2>2. R \subseteq 1..n
    BY <1>1
  <2>3. QED
    BY <1>1, <2>1, <2>2, FS_Subset
<1> HIDE DEF n, v
<1>3. Q = IF m.op \in SmscRequest THEN R \cup {n + 1} ELSE R
  BY <1>1
<1>4. Requested(s) = Cardinality(R) /\ Requested(v) = Cardinality(Q)
  BY DEF Requested
<1>5. Cardinality(R) \in Nat
  BY <1>2, FS_CardinalityType
<1>6. Cardinality(R \cup {n + 1}) = Cardinality(R) + 1
  BY <1>2, FS_AddElement
<1> HIDE DEF R, Q
<1>7. Requested(v) = Requested(s) + IF m.op \in SmscRequest THEN 1 ELSE 0
  BY <1>3, <1>4, <1>5, <1>6
<1>8. QED
  BY <1>4, <1>5, <1>7 DEF v

\* The beginnings of a PDU.
LEMMA CellsOfPdu ==
  ASSUME NEW op \in Op, NEW t, NEW n \in Nat
  PROVE  /\ Pdu(op, t, n) \in Cells
         /\ \A k \in 0..Len(Pdu(op, t, n)) : SubSeq(Pdu(op, t, n), 1, k) \in Cells
<1> DEFINE p == <<op, n>>
<1>1. Pdu(op, t, n) = p
  BY DEF Pdu
<1>2. /\ p \in Seq(Op \cup Nat) /\ Len(p) = 2 /\ p[1] = op
      /\ <<>> \in Seq(Op \cup Nat) /\ <<op>> \in Seq(Op \cup Nat)
      /\ Len(<<>>) = 0 /\ Len(<<op>>) = 1 /\ <<op>>[1] = op
  OBVIOUS
<1>3. p \in Cells /\ <<op>> \in Cells /\ <<>> \in Cells
  BY DEF Cells
<1> HIDE DEF p
<1>4. ASSUME NEW k \in 0..2
      PROVE  /\ SubSeq(p, 1, k) \in Seq(Op \cup Nat) /\ Len(SubSeq(p, 1, k)) = k
             /\ \A i \in 1..k : SubSeq(p, 1, k)[i] = p[i]
  BY <1>2
<1>5. SubSeq(p, 1, 0) = <<>>
  BY <1>2, <1>4, SeqEqual
<1>6. SubSeq(p, 1, 1) = <<op>>
  <2>1. \A i \in 1..1 : SubSeq(p, 1, 1)[i] = <<op>>[i]
    BY <1>2, <1>4
  <2>2. Len(SubSeq(p, 1, 1)) = 1 /\ SubSeq(p, 1, 1) \in Seq(Op \cup Nat)
    BY <1>4
  <2>3. QED
    BY <1>2, <2>1, <2>2, SeqEqual
<1>7. SubSeq(p, 1, 2) = p
  <2>1. \A i \in 1..2 : SubSeq(p, 1, 2)[i] = p[i]
    BY <1>4
  <2>2. Len(SubSeq(p, 1, 2)) = 2 /\ SubSeq(p, 1, 2) \in Seq(Op \cup Nat)
    BY <1>4
  <2>3. QED
    BY <1>2, <2>1, <2>2, SeqEqual
<1>8. \A k \in 0..2 : k = 0 \/ k = 1 \/ k = 2
  OBVIOUS
<1>9. QED
  BY <1>1, <1>2, <1>3, <1>5, <1>6, <1>7, <1>8

-----------------------------------------------------------------------------
(***************************************************************************)
(* What the steps do.                                                      *)
(***************************************************************************)
\* A PDU goes out, whole or in part, or is lost without a connection.
GoesOut(op, n) ==
  \/ ~linkUp /\ wire' = wire
  \/ linkUp /\ \E m \in Sending : m.op = op /\ m.seqNo = n /\ wire' = Append(wire, m)

\* A send may break the connection, and nothing else changes but the wire.
OnlySends ==
  /\ UNCHANGED <<state, awaiting, sent, handled>>
  /\ linkUp' \in BOOLEAN /\ (linkUp' => linkUp)
  /\ lost' \subseteq DOMAIN sent
  /\ state = "closed" => lost' = lost

LEMMA TransmitEffect ==
  ASSUME NEW op \in Op, NEW t \in Thread, NEW n \in Nat, Out!Transmit(op, t, n)
  PROVE  GoesOut(op, n)
<1>1. CASE ~linkUp
  BY <1>1 DEF GoesOut, Out!Transmit
<1>2. CASE linkUp
  <2>1. PICK c \in Cells :
          wire' = Append(wire, [op |-> op, by |-> t, seqNo |-> n, cells |-> c])
    BY <1>2, CellsOfPdu DEF Out!Transmit
  <2>2. [op |-> op, by |-> t, seqNo |-> n, cells |-> c] \in Sending
    BY DEF Sending
  <2>3. QED
    BY <1>2, <2>1, <2>2 DEF GoesOut
<1>3. QED
  BY <1>1, <1>2

LEMMA RequestEffect ==
  ASSUME Types, Stream, NEW op \in Request, NEW t \in Thread, Sends(Out!SendRequest(op, t))
  PROVE  OnlySends /\ GoesOut(op, nextNo) /\ nextNo' = nextNo + 1
<1>1. Out!SendRequest(op, t)
  BY DEF Sends
<1>2. OnlySends
  <2>1. UNCHANGED <<state, awaiting>>
    BY DEF Sends, Quiet
  <2>2. CASE linkUp' = linkUp /\ UNCHANGED incoming
    BY <2>1, <2>2 DEF Types, OnlySends, incoming
  <2>3. CASE In!LinkBreaks
    BY <2>1, <2>3 DEF Types, Stream, OnlySends, In!LinkBreaks
  <2>4. QED
    BY <2>2, <2>3 DEF Sends
<1>3. op \in Op /\ nextNo \in Nat
  BY DEF Op, Types
<1>4. QED
  BY <1>1, <1>2, <1>3, TransmitEffect DEF Out!SendRequest, Successor

LEMMA AnswerEffect ==
  ASSUME Types, Stream, header \in Received, header.op \in SmscRequest, Sends(SendsAnswer)
  PROVE  /\ OnlySends /\ GoesOut(AnswerTo[header.op], header.seqNo) /\ UNCHANGED nextNo
         /\ AnswerTo[header.op] \in Answer
<1>1. Out!SendAnswer(AnswerTo[header.op], Worker, header.seqNo)
  BY DEF Sends, SendsAnswer
<1>2. OnlySends
  <2>1. UNCHANGED <<state, awaiting>>
    BY DEF Sends, Quiet
  <2>2. CASE linkUp' = linkUp /\ UNCHANGED incoming
    BY <2>1, <2>2 DEF Types, OnlySends, incoming
  <2>3. CASE In!LinkBreaks
    BY <2>1, <2>3 DEF Types, Stream, OnlySends, In!LinkBreaks
  <2>4. QED
    BY <2>2, <2>3 DEF Sends
<1>3. AnswerTo[header.op] \in Answer
  BY DEF SmscRequest, AnswerTo, Answer
<1>4. AnswerTo[header.op] \in Op /\ Worker \in Thread /\ header.seqNo \in Nat
  BY <1>3 DEF Op, Thread, Received
<1>5. QED
  BY <1>1, <1>2, <1>3, <1>4, TransmitEffect DEF Out!SendAnswer

\* What is sent is behind what was sent before.
WireGrows(op, n) ==
  /\ wire' \in Seq(Sending)
  /\ \A i \in DOMAIN wire : i \in DOMAIN wire' /\ wire'[i] = wire[i]
  /\ \A i \in DOMAIN wire' : i \notin DOMAIN wire =>
       /\ wire'[i].op = op /\ wire'[i].seqNo = n /\ linkUp
       /\ \A k \in DOMAIN wire : k < i
       /\ DOMAIN wire' = DOMAIN wire \cup {i}
  /\ linkUp => \E i \in DOMAIN wire' : i \notin DOMAIN wire

LEMMA GoesOutEffect ==
  ASSUME Types, NEW op \in Op, NEW n \in Nat, GoesOut(op, n)
  PROVE  WireGrows(op, n)
<1>1. wire \in Seq(Sending)
  BY DEF Types
<1>2. CASE ~linkUp
  BY <1>1, <1>2 DEF GoesOut, WireGrows
<1>3. CASE linkUp
  <2>1. PICK m \in Sending : m.op = op /\ m.seqNo = n /\ wire' = Append(wire, m)
    BY <1>3 DEF GoesOut
  <2> DEFINE v == Append(wire, m)
             k == Len(wire)
  <2>2. /\ v \in Seq(Sending) /\ k \in Nat
        /\ DOMAIN wire = 1..k /\ DOMAIN v = 1..(k + 1)
        /\ \A i \in 1..k : v[i] = wire[i]
        /\ v[k + 1] = m
    BY <1>1, AppendFacts
  <2>3. wire' = v
    BY <2>1
  <2> HIDE DEF v, k
  <2>4. \A i \in 1..(k + 1) : i \notin 1..k => i = k + 1
    BY <2>2
  <2>5. k + 1 \in 1..(k + 1) /\ k + 1 \notin 1..k /\ 1..(k + 1) = 1..k \cup {k + 1}
    BY <2>2
  <2>6. \A i \in 1..k : i \in 1..(k + 1) /\ i < k + 1
    BY <2>2
  <2>7. QED
    BY <1>3, <2>1, <2>2, <2>3, <2>4, <2>5, <2>6 DEF WireGrows
<1>4. QED
  BY <1>2, <1>3 DEF Types

\* The worker does the work for the PDU it has read last, in its order.
LEMMA WorkStepEffect ==
  ASSUME Types, Current, NEW step, WorkStep(step)
  PROVE  /\ UNCHANGED <<worker, header, pc, call, known>> /\ worker = "runs"
         /\ handled # <<>> /\ header = handled[Len(handled)] /\ header \in Received
         /\ \/ /\ step = "handler" /\ header.op = "bind_resp"
               /\ todo = <<"handler", "bound">> /\ todo' = <<"bound">>
            \/ /\ step = "handler" /\ header.op = "submit_sm_resp"
               /\ todo = <<"handler">> /\ todo' = <<>>
            \/ /\ step = "handler" /\ header.op = "deliver_sm"
               /\ todo = <<"handler", "answer">> /\ todo' = <<"answer">>
            \/ /\ step = "bound" /\ header.op = "bind_resp"
               /\ todo = <<"bound">> /\ todo' = <<>>
            \/ /\ step = "answer" /\ header.op \in SmscRequest
               /\ todo = <<"answer">> /\ todo' = <<>>
<1>1. /\ UNCHANGED <<worker, header, pc, call, known>> /\ worker = "runs"
      /\ todo # <<>> /\ step = Head(todo) /\ todo' = Tail(todo)
  BY DEF WorkStep, app
<1>2. handled # <<>> /\ header = handled[Len(handled)] /\ todo \in LeftFor(header.op)
  BY <1>1 DEF Current
<1>3. header \in Received
  BY <1>2 DEF Types
<1>4. header.op \in {"bind_resp", "submit_sm_resp", "enquire_link", "deliver_sm"}
  BY <1>3 DEF Received, SmscAnswer, SmscRequest
<1>5. \/ header.op = "bind_resp" /\ todo \in {<<"handler", "bound">>, <<"bound">>}
      \/ header.op = "submit_sm_resp" /\ todo = <<"handler">>
      \/ header.op = "enquire_link" /\ todo = <<"answer">>
      \/ header.op = "deliver_sm" /\ todo \in {<<"handler", "answer">>, <<"answer">>}
  BY <1>2, <1>4 DEF LeftFor
<1>6. /\ \A x, y : Head(<<x, y>>) = x /\ Tail(<<x, y>>) = <<y>>
      /\ \A x : Head(<<x>>) = x /\ Tail(<<x>>) = <<>>
  OBVIOUS
<1>7. QED
  BY <1>1, <1>2, <1>3, <1>5, <1>6 DEF SmscRequest

-----------------------------------------------------------------------------
(***************************************************************************)
(* A part of the invariant holds on while its variables stay.              *)
(***************************************************************************)
LEMMA Frames ==
  ASSUME Inv
  PROVE  /\ UNCHANGED <<pc, state, worker, handled>> => Progress'
         /\ UNCHANGED <<todo, worker, handled, header>> => Current'
         /\ UNCHANGED <<handled, sent, state, linkUp, todo, lost>> => Stream'
         /\ UNCHANGED <<reported, handled, todo>> => Reports'
         /\ UNCHANGED <<sent, wire>> => SmscOrder'
         /\ UNCHANGED <<wire, known>> => NumbersKnown'
         /\ UNCHANGED <<state, handled, pc>> => BoundFollowsResponse'
         /\ UNCHANGED <<wire, handled>> => SubmitsFollowBind'
         /\ UNCHANGED <<wire, handled, linkUp, todo, reported>> => Answers'
         /\ UNCHANGED <<call, nextNo, handled, known>> => Calls'
<1>1. UNCHANGED <<pc, state, worker, handled>> => Progress'
  BY DEF Inv, Progress
<1>2. UNCHANGED <<todo, worker, handled, header>> => Current'
  BY DEF Inv, Current, LeftFor
<1>3. UNCHANGED <<handled, sent, state, linkUp, todo, lost>> => Stream'
  BY DEF Inv, Stream
<1>4. UNCHANGED <<reported, handled, todo>> => Reports'
  BY DEF Inv, Reports, HandlerDue
<1>5. UNCHANGED <<sent, wire>> => SmscOrder'
  BY DEF Inv, SmscOrder, Requested
<1>6. UNCHANGED <<wire, known>> => NumbersKnown'
  BY DEF Inv, NumbersKnown
<1>7. UNCHANGED <<state, handled, pc>> => BoundFollowsResponse'
  BY DEF Inv, BoundFollowsResponse, BindHandled
<1>8. UNCHANGED <<wire, handled>> => SubmitsFollowBind'
  BY DEF Inv, SubmitsFollowBind
<1>9. UNCHANGED <<wire, handled, linkUp, todo, reported>> => Answers'
  BY DEF Inv, Answers, AnsweredInOrder, Answered, AnswerFor, NotYetAnswered, AnswerDue,
         AnsweredAfterHandler, Contains
<1>10. UNCHANGED <<call, nextNo, handled, known>> => Calls'
  BY DEF Inv, Calls, NoCall, BindHandled
<1>11. QED
  BY <1>1, <1>2, <1>3, <1>4, <1>5, <1>6, <1>7, <1>8, <1>9, <1>10

\* The SMSC got a PDU more: what it sent is still in order.
LEMMA SmscOrderGrows ==
  ASSUME SmscOrder, UNCHANGED sent,
         \A i \in DOMAIN wire : i \in DOMAIN wire' /\ wire'[i] = wire[i]
  PROVE  SmscOrder'
BY DEF SmscOrder, Requested

LEMMA StreamGrows ==
  ASSUME Types, Stream, OnlySends, todo' = todo \/ worker = "runs", Progress
  PROVE  Stream'
BY DEF Types, Stream, OnlySends, Progress

\* A request that goes out leaves the answers as they are.
LEMMA RequestSent ==
  ASSUME Inv, NEW op \in Request, NEW n \in Nat, OnlySends, GoesOut(op, n),
         UNCHANGED <<worker, header, todo, reported>>, known \subseteq known',
         op = "submit_sm" =>
           n \in known' /\ BindHandled /\ \E j \in DOMAIN wire : wire[j].op = "bind"
  PROVE  /\ wire' \in Seq(Sending)
         /\ Current' /\ Stream' /\ Reports' /\ SmscOrder' /\ NumbersKnown'
         /\ SubmitsFollowBind' /\ Answers'
<1>1. /\ wire' \in Seq(Sending)
      /\ \A i \in DOMAIN wire : i \in DOMAIN wire' /\ wire'[i] = wire[i]
      /\ \A i \in DOMAIN wire' : i \notin DOMAIN wire =>
           /\ wire'[i].op = op /\ wire'[i].seqNo = n /\ linkUp
           /\ \A k \in DOMAIN wire : k < i
  <2>1. op \in Op /\ Types
    BY DEF Op, Inv
  <2>2. WireGrows(op, n)
    BY <2>1, GoesOutEffect
  <2>3. QED
    BY <2>2 DEF WireGrows
<1>2. /\ UNCHANGED <<state, sent, handled>>
      /\ linkUp' \in BOOLEAN /\ (linkUp' => linkUp)
  BY DEF OnlySends
<1>3. Current' /\ Reports'
  BY <1>2, Frames
<1>4. Stream'
  BY StreamGrows DEF Inv
<1>5. SmscOrder'
  BY <1>1, <1>2, SmscOrderGrows DEF Inv
<1>6. NumbersKnown'
  BY <1>1 DEF Inv, NumbersKnown
<1>7. SubmitsFollowBind'
  BY <1>1, <1>2 DEF Inv, SubmitsFollowBind, BindHandled
<1>8. /\ op \notin Answer
      /\ \A r \in Received, i \in DOMAIN wire' :
           AnswerFor(wire'[i], r) => i \in DOMAIN wire /\ wire'[i] = wire[i]
  <2>1. op \notin Answer
    BY DEF Request, Answer
  <2>2. \A m, r : AnswerFor(m, r) => m.op \in Answer
    BY DEF AnswerFor, SmscRequest, AnswerTo, Answer
  <2>3. QED
    BY <1>1, <2>1, <2>2
<1>9. Answers'
  <2>1. \A j \in DOMAIN handled : handled[j] \in Received
    BY DEF Inv, Types
  <2>2. AnsweredInOrder'
    BY <1>1, <1>2, <1>8, <2>1 DEF Inv, Answers, AnsweredInOrder, Answered, Contains
  <2>3. NotYetAnswered'
    BY <1>1, <1>2, <1>8 DEF Inv, Answers, NotYetAnswered, AnswerDue
  <2>4. AnsweredAfterHandler'
    BY <1>1, <1>8 DEF Inv, Answers, AnsweredAfterHandler, Answer
  <2>5. QED
    BY <2>2, <2>3, <2>4 DEF Answers
<1>10. QED
  BY <1>1, <1>3, <1>4, <1>5, <1>6, <1>7, <1>9

-----------------------------------------------------------------------------
(***************************************************************************)
(* The invariant holds in the beginning, and every step keeps it.          *)
(***************************************************************************)
LEMMA InitInv ==
  ASSUME Init
  PROVE  Inv
<1>1. /\ state = "undefined" /\ awaiting = [t \in Thread |-> None]
      /\ wire = <<>> /\ nextNo = 1 /\ linkUp = TRUE
      /\ sent = <<>> /\ handled = <<>> /\ lost = {}
      /\ pc = [t \in App |-> IF t = Starter THEN "connect" ELSE "idle"]
      /\ worker = "none" /\ todo = <<>> /\ reported = <<>> /\ call = NoCall /\ known = {}
  BY DEF Init, Session!Init, Out!Init, In!Init
<1>2. Types
  BY <1>1 DEF Types, State
<1>3. Progress
  BY <1>1 DEF Progress
<1>4. DOMAIN wire = {} /\ DOMAIN sent = {} /\ DOMAIN handled = {} /\ DOMAIN reported = {}
  BY <1>1
<1>5. Current /\ Stream
  BY <1>1, <1>4 DEF Current, Stream
<1>6. Reports /\ SmscOrder /\ NumbersKnown /\ BoundFollowsResponse /\ SubmitsFollowBind
  BY <1>1, <1>4, RequestedEmpty DEF Reports, SmscOrder, NumbersKnown, BoundFollowsResponse, SubmitsFollowBind
<1>7. Answers
  BY <1>4 DEF Answers, AnsweredInOrder, NotYetAnswered, AnsweredAfterHandler
<1>8. Calls
  BY <1>1 DEF Calls
<1>9. QED
  BY <1>2, <1>3, <1>5, <1>6, <1>7, <1>8 DEF Inv

\* The threads of the application: steps that send nothing.
LEMMA ConnectInv ==
  ASSUME Inv, NEW t \in App, Connect(t) \/ ConnectFails(t)
  PROVE  Inv'
<1>1. /\ t = Starter /\ pc[t] = "connect"
      /\ pc' = [pc EXCEPT ![t] = "open"] \/ pc' = [pc EXCEPT ![t] = "failed"]
      /\ UNCHANGED <<state, awaiting, wire, nextNo, sent, handled, lost, linkUp,
                     worker, header, todo, reported, call, known>>
  BY DEF Connect, ConnectFails, StartStep, StartOrder, Quiet, outgoing, incoming, work
<1>2. Types'
  BY <1>1 DEF Inv, Types
<1>3. Progress'
  BY <1>1 DEF Inv, Types, Progress
<1>4. BoundFollowsResponse'
  BY <1>1 DEF Inv, Types, BoundFollowsResponse, BindHandled
<1>5. QED
  BY <1>1, <1>2, <1>3, <1>4, Frames DEF Inv

LEMMA SetOpenedInv ==
  ASSUME Inv, NEW t \in App, SetOpened(t)
  PROVE  Inv'
<1>1. /\ t = Starter /\ pc[t] = "open" /\ pc' = [pc EXCEPT ![t] = "create"]
      /\ state' = "opened"
      /\ UNCHANGED <<awaiting, wire, nextNo, sent, handled, lost, linkUp,
                     worker, header, todo, reported, call, known>>
  BY DEF SetOpened, StartStep, StartOrder, SetState, outgoing, incoming, work
<1>2. Types'
  BY <1>1 DEF Inv, Types, State
<1>3. Progress'
  BY <1>1 DEF Inv, Types, Progress
<1>4. Stream'
  BY <1>1 DEF Inv, Stream
<1>5. BoundFollowsResponse'
  BY <1>1 DEF Inv, Types, BoundFollowsResponse, BindHandled
<1>6. QED
  BY <1>1, <1>2, <1>3, <1>4, <1>5, Frames DEF Inv

LEMMA CreateWorkerInv ==
  ASSUME Inv, NEW t \in App, CreateWorker(t)
  PROVE  Inv'
<1>1. /\ t = Starter /\ pc[t] = "create" /\ pc' = [pc EXCEPT ![t] = "bind"]
      /\ worker' \in {"none", "runs"}
      /\ UNCHANGED <<state, awaiting, wire, nextNo, sent, handled, lost, linkUp,
                     header, todo, reported, call, known>>
  BY DEF CreateWorker, StartStep, StartOrder, Quiet, outgoing, incoming
<1>2. Types'
  BY <1>1 DEF Inv, Types
<1>3. worker = "none" /\ state = "opened"
  BY <1>1 DEF Inv, Progress
<1>4. Progress'
  BY <1>1, <1>3 DEF Inv, Types, Progress
<1>5. Current'
  BY <1>1, <1>3 DEF Inv, Current
<1>6. BoundFollowsResponse'
  BY <1>1 DEF Inv, Types, BoundFollowsResponse, BindHandled
<1>7. QED
  BY <1>1, <1>2, <1>4, <1>5, <1>6, Frames DEF Inv

LEMMA WaitInv ==
  ASSUME Inv, NEW t \in App, CallWait(t) \/ EndWait(t)
  PROVE  Inv'
<1>1. UNCHANGED <<state, wire, nextNo, sent, handled, lost, linkUp,
                  worker, header, todo, reported, call, known>>
  BY DEF CallWait, EndWait, WaitOver, Session!CallWait, Session!EndWait,
         outgoing, incoming, work
<1>2. /\ t \in Thread
      /\ \E s \in State \cup {None} : awaiting' = [awaiting EXCEPT ![t] = s]
  BY DEF CallWait, EndWait, WaitOver, Session!CallWait, Session!EndWait, Thread
<1>3. /\ pc[t] \in {"idle", "bound", "wait"}
      /\ \E p \in {"wait", "bound", "idle"} :
           pc' = [pc EXCEPT ![t] = p] /\ (p = "bound" => state = "bound")
  BY DEF CallWait, EndWait, WaitOver, Session!EndWait
<1>4. Types'
  BY <1>1, <1>2, <1>3 DEF Inv, Types
<1>5. Progress'
  BY <1>1, <1>3 DEF Inv, Types, Progress
<1>6. BoundFollowsResponse'
  BY <1>1, <1>3 DEF Inv, Types, BoundFollowsResponse, BindHandled
<1>7. QED
  BY <1>1, <1>4, <1>5, <1>6, Frames DEF Inv

\* The requests: the bind, the submits of the threads and those of the handler.
LEMMA BindInv ==
  ASSUME Inv, NEW t \in App, Bind(t)
  PROVE  Inv'
<1>1. /\ t = Starter /\ pc[t] = "bind" /\ pc' = [pc EXCEPT ![t] = "idle"] /\ call = NoCall
      /\ Sends(Out!SendRequest("bind", t))
      /\ UNCHANGED <<worker, header, todo, reported, call, known>>
  BY DEF Bind, StartStep, StartOrder, SendFree, work
<1>2. "bind" \in Request /\ t \in Thread /\ Types /\ Stream
  BY DEF Request, Thread, Inv
<1>3. OnlySends /\ GoesOut("bind", nextNo) /\ nextNo' = nextNo + 1
  BY <1>1, <1>2, RequestEffect
<1>4. nextNo \in Nat
  BY DEF Inv, Types
<1>5. /\ wire' \in Seq(Sending)
      /\ Current' /\ Stream' /\ Reports' /\ SmscOrder' /\ NumbersKnown'
      /\ SubmitsFollowBind' /\ Answers'
  BY <1>1, <1>2, <1>3, <1>4, RequestSent
<1>6. Types'
  BY <1>1, <1>3, <1>4, <1>5 DEF Inv, Types, OnlySends
<1>7. Progress'
  BY <1>1, <1>3 DEF Inv, Types, Progress, OnlySends
<1>8. BoundFollowsResponse'
  BY <1>1, <1>3 DEF Inv, Types, BoundFollowsResponse, BindHandled, OnlySends
<1>9. Calls'
  BY <1>1 DEF Calls, NoCall
<1>10. QED
  BY <1>5, <1>6, <1>7, <1>8, <1>9 DEF Inv

\* The response to the bind, once handled, has its bind on the wire.
LEMMA BindOnWire ==
  ASSUME Inv, BindHandled
  PROVE  \E j \in DOMAIN wire : wire[j].op = "bind"
<1>1. PICK j \in DOMAIN handled : handled[j].op = "bind_resp"
  BY DEF BindHandled
<1>2. j \in DOMAIN sent /\ sent[j].op = "bind_resp"
  BY <1>1 DEF Inv, Types, Stream
<1>3. QED
  BY <1>2 DEF Inv, SmscOrder

LEMMA BeginSubmitInv ==
  ASSUME Inv, NEW t \in Thread, BindHandled, BeginSubmit(t)
  PROVE  Inv'
<1>1. /\ call' = [by |-> t, no |-> nextNo, todo |-> <<"store", "send">>]
      /\ UNCHANGED <<state, awaiting, wire, nextNo, sent, handled, lost, linkUp, pc,
                     worker, header, todo, reported, known>>
  BY DEF BeginSubmit, SubmitOrder, Quiet, outgoing, incoming, work
<1>2. Types'
  BY <1>1 DEF Inv, Types
<1>3. Calls'
  BY <1>1 DEF Calls, BindHandled
<1>4. QED
  BY <1>1, <1>2, <1>3, Frames DEF Inv

LEMMA CallSubmitInv ==
  ASSUME Inv, NEW t \in App, CallSubmit(t)
  PROVE  Inv'
<1>1. t \in Thread /\ pc[t] = "bound" /\ BeginSubmit(t)
  BY DEF CallSubmit, Thread
<1>2. BindHandled
  BY <1>1 DEF Inv, BoundFollowsResponse
<1>3. QED
  BY <1>1, <1>2, BeginSubmitInv

\* The SMSC sends nothing but enquire_link before it was sent a bind and has
\* answered it.
LEMMA ReportsFollowBind ==
  ASSUME Inv, NEW j \in DOMAIN handled, handled[j].op \in Handlers
  PROVE  BindHandled
<1>1. handled \in Seq(Received) /\ sent \in Seq(Received)
  BY DEF Inv, Types
<1>2. j \in DOMAIN sent /\ sent[j] = handled[j]
  BY <1>1 DEF Inv, Stream
<1>3. CASE handled[j].op = "bind_resp"
  BY <1>3 DEF BindHandled
<1>4. CASE handled[j].op = "submit_sm_resp"
  <2>1. PICK k \in DOMAIN wire : wire[k].op = "submit_sm"
    BY <1>2, <1>4 DEF Inv, SmscOrder
  <2>2. QED
    BY <2>1 DEF Inv, SubmitsFollowBind, BindHandled
<1>5. CASE handled[j].op = "deliver_sm"
  <2>1. PICK k \in DOMAIN sent : k < j /\ sent[k].op = "bind_resp"
    BY <1>2, <1>5 DEF Inv, SmscOrder
  <2>2. k \in DOMAIN handled /\ handled[k] = sent[k]
    BY <1>1, <2>1 DEF Inv, Stream
  <2>3. QED
    BY <2>1, <2>2 DEF BindHandled
<1>6. QED
  BY <1>3, <1>4, <1>5

LEMMA HandlerSubmitsInv ==
  ASSUME Inv, HandlerSubmits
  PROVE  Inv'
<1>1. Worker \in Thread /\ todo # <<>> /\ header.op \in Handlers /\ BeginSubmit(Worker)
  BY DEF HandlerSubmits, Thread
<1>2. handled # <<>> /\ handled[Len(handled)].op \in Handlers
  BY <1>1 DEF Inv, Current
<1>3. Len(handled) \in DOMAIN handled
  BY <1>2 DEF Inv, Types
<1>4. QED
  BY <1>1, <1>2, <1>3, ReportsFollowBind, BeginSubmitInv

\* The steps of a submit that holds sendMutex.
LEMMA SubmitStepEffect ==
  ASSUME Calls, NEW step, SubmitStep(step)
  PROVE  /\ UNCHANGED <<pc, worker, header, todo, reported>>
         /\ call.by \in Thread /\ call.no = nextNo /\ BindHandled
         /\ \/ /\ step = "store" /\ call.todo = <<"store", "send">>
               /\ call' = [call EXCEPT !.todo = <<"send">>]
            \/ /\ step = "send" /\ call.todo = <<"send">> /\ call.no \in known
               /\ call' = NoCall
<1>1. /\ call.todo # <<>> /\ Head(call.todo) = step
      /\ call' = IF Tail(call.todo) = <<>> THEN NoCall ELSE [call EXCEPT !.todo = Tail(call.todo)]
      /\ UNCHANGED <<pc, worker, header, todo, reported>>
  BY DEF SubmitStep, work
<1>2. call # NoCall
  BY <1>1 DEF NoCall
<1>3. /\ Head(<<"store", "send">>) = "store" /\ Tail(<<"store", "send">>) = <<"send">>
      /\ Head(<<"send">>) = "send" /\ Tail(<<"send">>) = <<>> /\ <<"send">> # <<>>
  OBVIOUS
<1>4. QED
  BY <1>1, <1>2, <1>3 DEF Calls

LEMMA StoreNumberInv ==
  ASSUME Inv, StoreNumber
  PROVE  Inv'
<1>1. /\ SubmitStep("store") /\ known' = known \cup {call.no}
      /\ UNCHANGED <<state, awaiting, wire, nextNo, sent, handled, lost, linkUp>>
  BY DEF StoreNumber, Quiet, outgoing, incoming
<1>2. /\ UNCHANGED <<pc, worker, header, todo, reported>>
      /\ call.by \in Thread /\ call.no = nextNo /\ BindHandled
      /\ call.todo = <<"store", "send">> /\ call' = [call EXCEPT !.todo = <<"send">>]
  BY <1>1, SubmitStepEffect DEF Inv
<1>3. Types'
  BY <1>1, <1>2 DEF Inv, Types
<1>4. NumbersKnown'
  BY <1>1 DEF Inv, NumbersKnown
<1>5. Calls'
  <2>1. call # NoCall
    BY <1>2 DEF NoCall
  <2>2. call'.by = call.by /\ call'.no = call.no /\ call'.todo = <<"send">>
    BY <1>2, <2>1 DEF Inv, Calls
  <2>3. QED
    BY <1>1, <1>2, <2>2 DEF Calls, BindHandled
<1>6. QED
  BY <1>1, <1>2, <1>3, <1>4, <1>5, Frames DEF Inv

LEMMA SendSubmitInv ==
  ASSUME Inv, SendSubmit
  PROVE  Inv'
<1>1. /\ SubmitStep("send") /\ UNCHANGED known
      /\ Sends(Out!SendRequest("submit_sm", call.by))
  BY DEF SendSubmit
<1>2. /\ UNCHANGED <<pc, worker, header, todo, reported>>
      /\ call.by \in Thread /\ call.no = nextNo /\ BindHandled
      /\ call.no \in known /\ call' = NoCall
  BY <1>1, SubmitStepEffect DEF Inv
<1>3. "submit_sm" \in Request /\ Types /\ Stream
  BY DEF Request, Inv
<1>4. OnlySends /\ GoesOut("submit_sm", nextNo) /\ nextNo' = nextNo + 1
  BY <1>1, <1>2, <1>3, RequestEffect
<1>5. nextNo \in Nat /\ nextNo \in known'
  BY <1>1, <1>2 DEF Inv, Types
<1>6. \E j \in DOMAIN wire : wire[j].op = "bind"
  BY <1>2, BindOnWire
<1>7. /\ wire' \in Seq(Sending)
      /\ Current' /\ Stream' /\ Reports' /\ SmscOrder' /\ NumbersKnown'
      /\ SubmitsFollowBind' /\ Answers'
  BY <1>1, <1>2, <1>3, <1>4, <1>5, <1>6, RequestSent
<1>8. Types'
  BY <1>2, <1>4, <1>5, <1>7 DEF Inv, Types, OnlySends
<1>9. Progress' /\ BoundFollowsResponse'
  BY <1>2, <1>4, Frames DEF OnlySends
<1>10. Calls'
  BY <1>2 DEF Calls, NoCall
<1>11. QED
  BY <1>7, <1>8, <1>9, <1>10 DEF Inv

\* The number of a request of the SMSC tells which one it is.
LEMMA OneRequest ==
  ASSUME Inv, NEW j \in DOMAIN handled, NEW l \in DOMAIN handled,
         NEW m, AnswerFor(m, handled[j]), AnswerFor(m, handled[l])
  PROVE  j = l
<1>1. handled \in Seq(Received) /\ sent \in Seq(Received)
  BY DEF Inv, Types
<1>2. /\ j \in DOMAIN sent /\ handled[j] = sent[j]
      /\ l \in DOMAIN sent /\ handled[l] = sent[l]
  BY <1>1 DEF Inv, Stream
<1>3. /\ sent[j].op \in SmscRequest /\ sent[l].op \in SmscRequest
      /\ sent[j].seqNo = sent[l].seqNo /\ sent[j].seqNo \in Nat
  <2>1. sent[j] \in Received
    BY <1>1, <1>2
  <2>2. /\ handled[j].op \in SmscRequest /\ m.seqNo = handled[j].seqNo
        /\ handled[l].op \in SmscRequest /\ m.seqNo = handled[l].seqNo
    BY DEF AnswerFor
  <2>3. QED
    BY <1>2, <2>1, <2>2 DEF Received
<1>4. j \in Nat /\ l \in Nat
  BY <1>1
<1>5. ~(j < l) /\ ~(l < j)
  BY <1>2, <1>3 DEF Inv, SmscOrder
<1>6. QED
  BY <1>4, <1>5

LEMMA ReadPduInv ==
  ASSUME Inv, ReadPdu
  PROVE  Inv'
<1> DEFINE n == Len(handled)
           r == sent[n + 1]
<1>1. /\ worker = "runs" /\ todo = <<>>
      /\ n + 1 \in DOMAIN sent \ lost
      /\ handled' = Append(handled, r)
      /\ header' = Last(handled') /\ todo' = WorkFor[header'.op]
      /\ UNCHANGED <<state, awaiting, wire, nextNo, sent, lost, linkUp, pc, worker,
                     reported, call, known>>
  BY DEF ReadPdu, Quiet, In!Handle, outgoing, app
<1>2. handled \in Seq(Received) /\ sent \in Seq(Received) /\ r \in Received
  BY <1>1 DEF Inv, Types
<1>3. /\ n \in Nat /\ handled' \in Seq(Received) /\ Len(handled') = n + 1
      /\ DOMAIN handled = 1..n /\ DOMAIN handled' = 1..(n + 1)
      /\ \A i \in 1..n : handled'[i] = handled[i]
      /\ handled'[n + 1] = r
  BY <1>1, <1>2, AppendFacts
<1>4. r = sent[n + 1]
  OBVIOUS
<1> HIDE DEF n, r
<1>5. header' = r /\ handled' # <<>>
  BY <1>1, <1>3 DEF Last
<1>6. \/ r.op = "bind_resp" /\ todo' = <<"handler", "bound">>
      \/ r.op = "submit_sm_resp" /\ todo' = <<"handler">>
      \/ r.op = "enquire_link" /\ todo' = <<"answer">>
      \/ r.op = "deliver_sm" /\ todo' = <<"handler", "answer">>
  BY <1>1, <1>2, <1>5 DEF WorkFor, Received, SmscAnswer, SmscRequest
<1>7. Types'
  BY <1>1, <1>3 DEF Inv, Types
<1>8. Progress'
  BY <1>1 DEF Inv, Progress
<1>9. todo' \in LeftFor(r.op)
  BY <1>6 DEF LeftFor
<1>10. Current'
  BY <1>1, <1>3, <1>5, <1>9 DEF Current, LeftFor
<1>11. Stream'
  <2>1. state # "closed"
    BY <1>1 DEF Inv, Progress
  <2>2. DOMAIN sent = 1..Len(sent) /\ Len(sent) \in Nat
    BY <1>2
  <2>3. QED
    BY <1>1, <1>3, <1>4, <2>1, <2>2 DEF Inv, Stream
<1>12. ~HandlerDue
  BY <1>1 DEF HandlerDue
<1>13. Reports'
  <2>1. r.op \in Handlers => HandlerDue'
    BY <1>6 DEF HandlerDue
  <2>2. \A i \in DOMAIN reported : \E j \in DOMAIN handled' : reported[i] = handled'[j]
    BY <1>3 DEF Inv, Reports
  <2>3. \A j \in 1..n : handled[j].op \in Handlers =>
           \E i \in DOMAIN reported : reported[i] = handled[j]
    BY <1>3, <1>12 DEF Inv, Reports
  <2>4. \A j \in 1..(n + 1) : j \in 1..n \/ j = n + 1
    BY <1>3
  <2>5. \A j \in DOMAIN handled' : handled'[j].op \in Handlers =>
           \/ \E i \in DOMAIN reported : reported[i] = handled'[j]
           \/ j = Len(handled') /\ HandlerDue'
    BY <1>3, <2>1, <2>3, <2>4
  <2>6. QED
    BY <1>1, <2>2, <2>5 DEF Reports
<1>14. BoundFollowsResponse'
  BY <1>1, <1>3 DEF Inv, BoundFollowsResponse, BindHandled
<1>15. SubmitsFollowBind'
  BY <1>1, <1>3 DEF Inv, SubmitsFollowBind
<1>16. \A i \in DOMAIN wire : ~AnswerFor(wire[i], r)
  <2>1. SUFFICES ASSUME NEW i \in DOMAIN wire, AnswerFor(wire[i], r)
                 PROVE  FALSE
    OBVIOUS
  <2>2. wire[i].op \in Answer /\ r.op \in SmscRequest /\ wire[i].seqNo = r.seqNo
    BY <2>1 DEF AnswerFor, SmscRequest, AnswerTo, Answer
  <2>3. PICK j \in DOMAIN handled : AnswerFor(wire[i], handled[j])
    BY <2>2 DEF Inv, Answers, NotYetAnswered
  <2>4. /\ j \in DOMAIN sent /\ handled[j] = sent[j] /\ j < n + 1
        /\ n + 1 \in DOMAIN sent
    BY <1>1, <1>2, <1>3, <2>3 DEF Inv, Stream
  <2>5. sent[j].op \in SmscRequest /\ sent[n + 1].op \in SmscRequest
    BY <1>4, <2>2, <2>3, <2>4 DEF AnswerFor
  <2>6. sent[j].seqNo < sent[n + 1].seqNo
    BY <2>4, <2>5 DEF Inv, SmscOrder
  <2>7. sent[j].seqNo = sent[n + 1].seqNo /\ sent[j].seqNo \in Nat
    BY <1>2, <1>4, <2>2, <2>3, <2>4 DEF AnswerFor, Received
  <2>8. QED
    BY <2>6, <2>7
<1>17. AnsweredInOrder'
  <2>1. \A i \in DOMAIN wire : wire[i].op \in Answer =>
          \E j \in DOMAIN handled' : AnswerFor(wire[i], handled'[j])
    BY <1>3 DEF Inv, Answers, AnsweredInOrder
  <2>2. \A i, k \in DOMAIN wire, j, l \in DOMAIN handled' :
          i < k /\ AnswerFor(wire[i], handled'[j]) /\ AnswerFor(wire[k], handled'[l]) => j < l
    <3>1. \A i \in DOMAIN wire, j \in DOMAIN handled' :
            AnswerFor(wire[i], handled'[j]) => j \in DOMAIN handled /\ handled'[j] = handled[j]
      BY <1>3, <1>16
    <3>2. QED
      BY <3>1 DEF Inv, Answers, AnsweredInOrder
  <2>3. \A j, l \in DOMAIN handled' :
          j < l /\ handled'[j].op \in SmscRequest /\ (\E i \in DOMAIN wire : AnswerFor(wire[i], handled'[l]))
            => \E i \in DOMAIN wire : AnswerFor(wire[i], handled'[j])
    <3>1. SUFFICES ASSUME NEW j \in DOMAIN handled', NEW l \in DOMAIN handled', j < l,
                          handled'[j].op \in SmscRequest,
                          \E i \in DOMAIN wire : AnswerFor(wire[i], handled'[l])
                   PROVE  \E i \in DOMAIN wire : AnswerFor(wire[i], handled'[j])
      OBVIOUS
    <3>2. l \in DOMAIN handled /\ handled'[l] = handled[l]
      BY <1>3, <1>16, <3>1
    <3>3. j \in DOMAIN handled /\ handled'[j] = handled[j]
      BY <1>3, <3>1, <3>2
    <3>4. QED
      BY <3>1, <3>2, <3>3 DEF Inv, Answers, AnsweredInOrder, Answered
  <2>4. linkUp => \A j \in DOMAIN handled' :
          \/ handled'[j].op \notin SmscRequest
          \/ \E i \in DOMAIN wire : AnswerFor(wire[i], handled'[j])
          \/ j = Len(handled') /\ Contains(todo', "answer")
    <3>1. ~Contains(todo, "answer")
      BY <1>1 DEF Contains
    <3>2. r.op \in SmscRequest => Contains(todo', "answer")
      BY <1>6 DEF Contains, SmscRequest
    <3>3. linkUp => \A j \in 1..n : handled[j].op \notin SmscRequest \/ Answered(handled[j])
      BY <1>3, <3>1 DEF Inv, Answers, AnsweredInOrder
    <3>4. \A j \in 1..(n + 1) : j \in 1..n \/ j = n + 1
      BY <1>3
    <3>5. QED
      BY <1>3, <3>2, <3>3, <3>4 DEF Answered
  <2>5. QED
    BY <1>1, <2>1, <2>2, <2>3, <2>4 DEF AnsweredInOrder, Answered
<1>18. NotYetAnswered'
  BY <1>1, <1>3 DEF Inv, Answers, NotYetAnswered
<1>19. Answers'
  BY <1>1, <1>17, <1>18 DEF Inv, Answers, AnsweredAfterHandler
<1>20. Calls'
  BY <1>1, <1>3 DEF Inv, Calls, NoCall, BindHandled
<1>21. QED
  BY <1>1, <1>7, <1>8, <1>10, <1>11, <1>13, <1>14, <1>15, <1>19, <1>20, Frames DEF Inv

LEMMA CallHandlerInv ==
  ASSUME Inv, CallHandler
  PROVE  Inv'
<1>1. /\ WorkStep("handler")
      /\ reported' = IF header.op \in Handlers THEN Append(reported, header) ELSE reported
      /\ UNCHANGED <<state, awaiting, wire, nextNo, sent, handled, lost, linkUp>>
  BY DEF CallHandler, Quiet, outgoing, incoming
<1>2. Types /\ Current
  BY DEF Inv
<1>3. /\ UNCHANGED <<worker, header, pc, call, known>> /\ worker = "runs"
      /\ handled # <<>> /\ header = handled[Len(handled)] /\ header \in Received
      /\ \/ header.op = "bind_resp" /\ todo = <<"handler", "bound">> /\ todo' = <<"bound">>
         \/ header.op = "submit_sm_resp" /\ todo = <<"handler">> /\ todo' = <<>>
         \/ header.op = "deliver_sm" /\ todo = <<"handler", "answer">> /\ todo' = <<"answer">>
  BY <1>1, <1>2, WorkStepEffect
<1>4. /\ reported' \in Seq(Received)
      /\ \A i \in DOMAIN reported : i \in DOMAIN reported' /\ reported'[i] = reported[i]
      /\ \A i \in DOMAIN reported' : i \in DOMAIN reported \/ reported'[i] = header
      /\ header.op \in Handlers => \E i \in DOMAIN reported' : reported'[i] = header
  <2>1. reported \in Seq(Received)
    BY DEF Inv, Types
  <2>2. CASE header.op \in Handlers
    <3>1. /\ Append(reported, header) \in Seq(Received) /\ Len(reported) \in Nat
          /\ DOMAIN reported = 1..Len(reported)
          /\ DOMAIN Append(reported, header) = 1..(Len(reported) + 1)
          /\ \A i \in 1..Len(reported) : Append(reported, header)[i] = reported[i]
          /\ Append(reported, header)[Len(reported) + 1] = header
      BY <1>3, <2>1, AppendFacts
    <3>2. reported' = Append(reported, header)
      BY <1>1, <2>2
    <3>3. \A i \in 1..(Len(reported) + 1) : i \in 1..Len(reported) \/ i = Len(reported) + 1
      BY <3>1
    <3>4. QED
      BY <3>1, <3>2, <3>3
  <2>3. CASE header.op \notin Handlers
    BY <1>1, <2>1, <2>3
  <2>4. QED
    BY <2>2, <2>3
<1>5. Len(handled) \in DOMAIN handled
  BY <1>2, <1>3 DEF Types
<1>6. Types'
  BY <1>1, <1>3, <1>4 DEF Inv, Types
<1>7. Current'
  <2>1. todo' = <<>> \/ todo' \in LeftFor(header.op)
    BY <1>3 DEF LeftFor
  <2>2. QED
    BY <1>1, <1>3, <2>1 DEF Current, LeftFor
<1>8. Stream'
  <2>1. state # "closed"
    BY <1>3 DEF Inv, Progress
  <2>2. QED
    BY <1>1, <2>1 DEF Inv, Stream
<1>9. Reports'
  <2>1. \A i \in DOMAIN reported' : \E j \in DOMAIN handled : reported'[i] = handled[j]
    BY <1>3, <1>4, <1>5 DEF Inv, Reports
  <2>2. \A j \in DOMAIN handled : handled[j].op \in Handlers =>
          \E i \in DOMAIN reported' : reported'[i] = handled[j]
    BY <1>3, <1>4 DEF Inv, Reports
  <2>3. QED
    BY <1>1, <2>1, <2>2 DEF Reports
<1>10. Answers'
  <2>1. Contains(todo, "answer") => Contains(todo', "answer")
    BY <1>3 DEF Contains
  <2>2. AnswerDue' => AnswerDue
    BY <1>3 DEF AnswerDue
  <2>3. AnsweredInOrder'
    BY <1>1, <2>1 DEF Inv, Answers, AnsweredInOrder, Answered
  <2>4. NotYetAnswered'
    BY <1>1, <2>2 DEF Inv, Answers, NotYetAnswered
  <2>5. AnsweredAfterHandler'
    BY <1>1, <1>4 DEF Inv, Answers, AnsweredAfterHandler
  <2>6. QED
    BY <2>3, <2>4, <2>5 DEF Answers
<1>11. QED
  BY <1>1, <1>3, <1>6, <1>7, <1>8, <1>9, <1>10, Frames DEF Inv

LEMMA SetBoundInv ==
  ASSUME Inv, SetBound
  PROVE  Inv'
<1>1. /\ WorkStep("bound") /\ state' = "bound"
      /\ UNCHANGED <<awaiting, wire, nextNo, sent, handled, lost, linkUp, reported>>
  BY DEF SetBound, SetState, outgoing, incoming
<1>2. Types /\ Current
  BY DEF Inv
<1>3. /\ UNCHANGED <<worker, header, pc, call, known>> /\ worker = "runs"
      /\ handled # <<>> /\ header = handled[Len(handled)]
      /\ header.op = "bind_resp" /\ todo = <<"bound">> /\ todo' = <<>>
  BY <1>1, <1>2, WorkStepEffect
<1>4. Types'
  BY <1>1, <1>3 DEF Inv, Types, State
<1>5. Progress'
  BY <1>1, <1>3 DEF Inv, Types, Progress
<1>6. Current'
  BY <1>3 DEF Current
<1>7. Stream'
  BY <1>1 DEF Inv, Stream
<1>8. Reports'
  <2>1. ~HandlerDue
    BY <1>3 DEF HandlerDue
  <2>2. QED
    BY <1>1, <2>1 DEF Inv, Reports
<1>9. BoundFollowsResponse'
  <2>1. Len(handled) \in DOMAIN handled
    BY <1>2, <1>3 DEF Types
  <2>2. QED
    BY <1>1, <1>3, <2>1 DEF BoundFollowsResponse, BindHandled
<1>10. Answers'
  <2>1. ~Contains(todo, "answer")
    BY <1>3 DEF Contains
  <2>2. ~AnswerDue'
    BY <1>3 DEF AnswerDue
  <2>3. AnsweredInOrder'
    BY <1>1, <2>1 DEF Inv, Answers, AnsweredInOrder, Answered
  <2>4. NotYetAnswered'
    BY <1>1, <2>2 DEF Inv, Answers, NotYetAnswered
  <2>5. AnsweredAfterHandler'
    BY <1>1 DEF Inv, Answers, AnsweredAfterHandler
  <2>6. QED
    BY <2>3, <2>4, <2>5 DEF Answers
<1>11. QED
  BY <1>1, <1>3, <1>4, <1>5, <1>6, <1>7, <1>8, <1>9, <1>10, Frames DEF Inv

LEMMA ExitInv ==
  ASSUME Inv, Exit
  PROVE  Inv'
<1>1. /\ worker = "runs" /\ todo = <<>> /\ worker' = "done" /\ state' = "closed"
      /\ ~linkUp /\ DOMAIN sent = DOMAIN handled \cup lost
      /\ UNCHANGED <<awaiting, wire, nextNo, sent, handled, lost, linkUp, pc, call, known,
                     header, todo, reported>>
  BY DEF Exit, SetState, In!Close, outgoing, app
<1>2. Types'
  BY <1>1 DEF Inv, Types, State
<1>3. Progress'
  BY <1>1 DEF Inv, Types, Progress
<1>4. Current'
  BY <1>1 DEF Current
<1>5. Stream'
  BY <1>1 DEF Inv, Stream
<1>6. BoundFollowsResponse'
  BY <1>1 DEF Inv, BoundFollowsResponse, BindHandled
<1>7. QED
  BY <1>1, <1>2, <1>3, <1>4, <1>5, <1>6, Frames DEF Inv

\* The answer to the PDU read last goes out: up to then it had none, and the
\* earlier requests have theirs.
LEMMA AnswerPduInv ==
  ASSUME Inv, AnswerPdu
  PROVE  Inv'
<1> DEFINE n == Len(handled)
<1>1. WorkStep("answer") /\ Sends(SendsAnswer) /\ UNCHANGED reported
  BY DEF AnswerPdu
<1>2. Types /\ Current /\ Stream
  BY DEF Inv
<1>3. /\ UNCHANGED <<worker, header, pc, call, known>> /\ worker = "runs"
      /\ handled # <<>> /\ header = handled[n] /\ header \in Received
      /\ header.op \in SmscRequest /\ todo = <<"answer">> /\ todo' = <<>>
  BY <1>1, <1>2, WorkStepEffect
<1>4. /\ OnlySends /\ GoesOut(AnswerTo[header.op], header.seqNo) /\ UNCHANGED nextNo
      /\ AnswerTo[header.op] \in Answer
  BY <1>1, <1>2, <1>3, AnswerEffect
<1>5. /\ UNCHANGED <<state, awaiting, sent, handled>>
      /\ linkUp' \in BOOLEAN /\ (linkUp' => linkUp)
  BY <1>4 DEF OnlySends
<1>6. AnswerTo[header.op] \in Op /\ header.seqNo \in Nat
  BY <1>3, <1>4 DEF Op, Received
<1>7. WireGrows(AnswerTo[header.op], header.seqNo)
  BY <1>2, <1>4, <1>6, GoesOutEffect
<1>8. /\ wire' \in Seq(Sending)
      /\ \A i \in DOMAIN wire : i \in DOMAIN wire' /\ wire'[i] = wire[i]
      /\ linkUp => \E i \in DOMAIN wire' : i \notin DOMAIN wire
  BY <1>7 DEF WireGrows
<1>9. ASSUME NEW i \in DOMAIN wire', i \notin DOMAIN wire
      PROVE  /\ wire'[i].op = AnswerTo[header.op] /\ wire'[i].seqNo = header.seqNo
             /\ linkUp /\ AnswerFor(wire'[i], handled[n])
             /\ \A k \in DOMAIN wire : k < i
             /\ DOMAIN wire' = DOMAIN wire \cup {i}
  BY <1>3, <1>7, <1>9 DEF WireGrows, AnswerFor
<1>10. n \in DOMAIN handled /\ \A j \in DOMAIN handled : j \in Nat /\ (j < n \/ j = n)
  BY <1>2, <1>3 DEF Types
<1> HIDE DEF n
<1>11. n = Len(handled) /\ n = Len(handled')
  BY <1>5 DEF n
<1>12. Types'
  BY <1>3, <1>4, <1>1, <1>8 DEF Inv, Types, OnlySends
<1>13. Progress' /\ BoundFollowsResponse'
  BY <1>3, <1>5, Frames
<1>14. Current'
  BY <1>3 DEF Current
<1>15. Stream'
  BY <1>3, <1>4, StreamGrows DEF Inv
<1>16. ~HandlerDue /\ AnswerDue /\ ~AnswerDue' /\ ~Contains(todo', "answer")
  BY <1>3 DEF HandlerDue, AnswerDue, Contains
<1>17. Reports'
  BY <1>1, <1>5, <1>16 DEF Inv, Reports
<1>18. SmscOrder'
  BY <1>5, <1>8, SmscOrderGrows DEF Inv
<1>19. /\ AnswerTo[header.op] # "submit_sm"
       /\ header.op # "deliver_sm" => AnswerTo[header.op] # "deliver_sm_resp"
  BY <1>3 DEF SmscRequest, AnswerTo
<1>20. NumbersKnown' /\ SubmitsFollowBind'
  <2>1. \A i \in DOMAIN wire' : wire'[i].op = "submit_sm" =>
           i \in DOMAIN wire /\ wire'[i] = wire[i]
    BY <1>8, <1>9, <1>19
  <2>2. NumbersKnown'
    BY <1>3, <2>1 DEF Inv, NumbersKnown
  <2>3. SubmitsFollowBind'
    BY <1>5, <1>8, <2>1 DEF Inv, SubmitsFollowBind
  <2>4. QED
    BY <2>2, <2>3
<1>21. ASSUME NEW i \in DOMAIN wire, NEW j \in DOMAIN handled, AnswerFor(wire[i], handled[j])
       PROVE  j < n
  <2>1. wire[i].op \in Answer
    BY <1>21 DEF AnswerFor, SmscRequest, AnswerTo, Answer
  <2>2. PICK k \in DOMAIN handled : AnswerFor(wire[i], handled[k]) /\ k < Len(handled)
    BY <1>16, <2>1 DEF Inv, Answers, NotYetAnswered
  <2>3. k = j
    BY <1>21, <2>2, OneRequest
  <2>4. QED
    BY <1>11, <2>2, <2>3
<1>22. ASSUME NEW i \in DOMAIN wire', i \notin DOMAIN wire,
              NEW j \in DOMAIN handled, AnswerFor(wire'[i], handled[j])
       PROVE  j = n
  BY <1>9, <1>10, <1>22, OneRequest
<1>23. linkUp => \A j \in DOMAIN handled :
         \/ handled[j].op \notin SmscRequest
         \/ \E i \in DOMAIN wire : AnswerFor(wire[i], handled[j])
         \/ j = n
  BY <1>11 DEF Inv, Answers, AnsweredInOrder, Answered
<1>24. AnsweredInOrder'
  <2>1. \A i \in DOMAIN wire' : wire'[i].op \in Answer =>
          \E j \in DOMAIN handled : AnswerFor(wire'[i], handled[j])
    <3>1. \A i \in DOMAIN wire : wire[i].op \in Answer =>
            \E j \in DOMAIN handled : AnswerFor(wire[i], handled[j])
      BY DEF Inv, Answers, AnsweredInOrder
    <3>2. QED
      BY <1>8, <1>9, <1>10, <3>1
  <2>2. \A i, k \in DOMAIN wire', j, l \in DOMAIN handled :
          i < k /\ AnswerFor(wire'[i], handled[j]) /\ AnswerFor(wire'[k], handled[l]) => j < l
    <3>1. SUFFICES ASSUME NEW i \in DOMAIN wire', NEW k \in DOMAIN wire',
                          NEW j \in DOMAIN handled, NEW l \in DOMAIN handled, i < k,
                          AnswerFor(wire'[i], handled[j]), AnswerFor(wire'[k], handled[l])
                   PROVE  j < l
      OBVIOUS
    <3>2. i \in Nat /\ k \in Nat
      BY <1>8
    <3>3. i \in DOMAIN wire
      <4>1. CASE k \in DOMAIN wire
        <5>1. i \notin DOMAIN wire => k < i
          BY <1>9, <4>1
        <5>2. QED
          BY <3>1, <3>2, <5>1
      <4>2. CASE k \notin DOMAIN wire
        <5>1. DOMAIN wire' = DOMAIN wire \cup {k} /\ i # k
          BY <1>9, <3>1, <3>2, <4>2
        <5>2. QED
          BY <5>1
      <4>3. QED
        BY <4>1, <4>2
    <3>4. AnswerFor(wire[i], handled[j])
      BY <1>8, <3>1, <3>3
    <3>5. CASE k \in DOMAIN wire
      <4>1. AnswerFor(wire[k], handled[l])
        BY <1>8, <3>1, <3>5
      <4>2. QED
        BY <3>1, <3>3, <3>4, <3>5, <4>1 DEF Inv, Answers, AnsweredInOrder
    <3>6. CASE k \notin DOMAIN wire
      <4>1. l = n
        BY <1>22, <3>1, <3>6
      <4>2. j < n
        BY <1>21, <3>3, <3>4
      <4>3. QED
        BY <4>1, <4>2
    <3>7. QED
      BY <3>5, <3>6
  <2>3. \A j, l \in DOMAIN handled :
          /\ j < l /\ handled[j].op \in SmscRequest
          /\ \E i \in DOMAIN wire' : AnswerFor(wire'[i], handled[l])
          => \E i \in DOMAIN wire' : AnswerFor(wire'[i], handled[j])
    <3>1. SUFFICES ASSUME NEW j \in DOMAIN handled, NEW l \in DOMAIN handled,
                          j < l, handled[j].op \in SmscRequest,
                          NEW i \in DOMAIN wire', AnswerFor(wire'[i], handled[l])
                   PROVE  \E k \in DOMAIN wire : AnswerFor(wire[k], handled[j])
      BY <1>8
    <3>2. CASE i \in DOMAIN wire
      <4>1. AnswerFor(wire[i], handled[l])
        BY <1>8, <3>1, <3>2
      <4>2. QED
        BY <3>1, <3>2, <4>1 DEF Inv, Answers, AnsweredInOrder, Answered
    <3>3. CASE i \notin DOMAIN wire
      <4>1. l = n /\ linkUp
        BY <1>9, <1>22, <3>1, <3>3
      <4>2. j # n
        BY <1>10, <3>1, <4>1
      <4>3. QED
        BY <1>23, <3>1, <4>1, <4>2
    <3>4. QED
      BY <3>2, <3>3
  <2>4. linkUp' => \A j \in DOMAIN handled :
          \/ handled[j].op \notin SmscRequest
          \/ \E i \in DOMAIN wire' : AnswerFor(wire'[i], handled[j])
    <3>1. linkUp => \E i \in DOMAIN wire' : AnswerFor(wire'[i], handled[n])
      BY <1>8, <1>9
    <3>2. QED
      BY <1>5, <1>8, <1>23, <3>1
  <2>5. QED
    BY <1>5, <2>1, <2>2, <2>3, <2>4 DEF AnsweredInOrder, Answered
<1>25. NotYetAnswered'
  BY <1>5, <1>16, <1>24 DEF NotYetAnswered, AnsweredInOrder
<1>26. AnsweredAfterHandler'
  <2>1. SUFFICES ASSUME "deliver_sm" \in Handlers,
                        NEW i \in DOMAIN wire', wire'[i].op = "deliver_sm_resp"
                 PROVE  \E j \in DOMAIN reported : /\ reported[j].op = "deliver_sm"
                                                   /\ reported[j].seqNo = wire'[i].seqNo
    BY <1>1 DEF AnsweredAfterHandler
  <2>2. CASE i \in DOMAIN wire
    BY <1>8, <2>1, <2>2 DEF Inv, Answers, AnsweredAfterHandler
  <2>3. CASE i \notin DOMAIN wire
    <3>1. wire'[i].op = AnswerTo[header.op] /\ wire'[i].seqNo = header.seqNo
      BY <1>9, <2>3
    <3>2. header.op = "deliver_sm" /\ handled[n].op \in Handlers
      BY <1>3, <1>19, <2>1, <3>1
    <3>3. PICK j \in DOMAIN reported : reported[j] = handled[n]
      BY <1>10, <1>16, <3>2 DEF Inv, Reports
    <3>4. QED
      BY <1>3, <3>1, <3>2, <3>3
  <2>4. QED
    BY <2>2, <2>3
<1>27. Calls'
  BY <1>3, <1>4, <1>5, Frames
<1>28. QED
  BY <1>12, <1>13, <1>14, <1>15, <1>17, <1>18, <1>20, <1>24, <1>25, <1>26, <1>27
     DEF Inv, Answers

\* The SMSC sends a PDU more: a response to a PDU it got, or the next request.
LEMMA SmscInv ==
  ASSUME Inv, NEW m \in Received, Smsc(m),
         m.op = "bind_resp" => \E j \in DOMAIN wire : wire[j].op = "bind",
         m.op = "submit_sm_resp" =>
           \E j \in DOMAIN wire : wire[j].op = "submit_sm" /\ wire[j].seqNo = m.seqNo,
         m.op = "deliver_sm" => Accepted,
         m.op \in SmscRequest =>
           m.seqNo = Requested(sent) + 1 /\ Requested(sent) < MaxRequests
  PROVE  Inv'
<1> DEFINE n == Len(sent)
           v == Append(sent, m)
<1>1. /\ sent' = v /\ linkUp
      /\ UNCHANGED <<state, awaiting, wire, nextNo, handled, lost, linkUp, pc, call, known,
                     worker, header, todo, reported>>
  BY DEF Smsc, Quiet, In!Send, outgoing, app, work
<1>2. sent \in Seq(Received)
  BY DEF Inv, Types
<1>3. /\ n \in Nat /\ v \in Seq(Received) /\ Len(v) = n + 1
      /\ DOMAIN sent = 1..n /\ DOMAIN v = 1..(n + 1)
      /\ \A i \in 1..n : v[i] = sent[i]
      /\ v[n + 1] = m
  BY <1>2, AppendFacts
<1>4. /\ Requested(sent) \in Nat
      /\ Requested(v) = Requested(sent) + IF m.op \in SmscRequest THEN 1 ELSE 0
  BY <1>2, RequestedAppend
<1>5. n = Len(sent)
  OBVIOUS
<1> HIDE DEF n, v
<1>6. \A i \in 1..(n + 1) : i \in 1..n \/ i = n + 1
  BY <1>3
<1>7. Types'
  BY <1>1, <1>3 DEF Inv, Types
<1>8. Stream'
  <2>1. state # "closed"
    BY <1>1 DEF Inv, Stream
  <2>2. Len(sent') = n + 1 /\ Len(handled) \in Nat
    BY <1>1, <1>3 DEF Inv, Types
  <2>3. \A i \in DOMAIN handled : i \in 1..n
    BY <1>3, <1>5 DEF Inv, Types, Stream
  <2>4. QED
    BY <1>1, <1>3, <1>5, <2>1, <2>2, <2>3 DEF Inv, Stream
<1>9. SmscOrder'
  <2>1. ASSUME NEW i \in 1..n
        PROVE  /\ sent[i].op = "bind_resp" => \E j \in DOMAIN wire : wire[j].op = "bind"
               /\ sent[i].op = "submit_sm_resp" =>
                    \E j \in DOMAIN wire : wire[j].op = "submit_sm" /\ wire[j].seqNo = sent[i].seqNo
               /\ sent[i].op = "deliver_sm" => \E j \in 1..n : j < i /\ sent[j].op = "bind_resp"
               /\ sent[i].op \in SmscRequest => sent[i].seqNo \in 1..Requested(sent)
               /\ sent[i].seqNo \in Nat
    <3>1. sent[i] \in Received
      BY <1>2, <1>3
    <3>2. QED
      BY <1>3, <3>1 DEF Inv, SmscOrder, Received
  <2>2. ASSUME NEW i \in 1..(n + 1)
        PROVE  /\ v[i].op = "bind_resp" => \E j \in DOMAIN wire : wire[j].op = "bind"
               /\ v[i].op = "submit_sm_resp" =>
                    \E j \in DOMAIN wire : wire[j].op = "submit_sm" /\ wire[j].seqNo = v[i].seqNo
    BY <1>3, <1>6, <2>1
  <2>3. ASSUME NEW i \in 1..(n + 1), v[i].op = "deliver_sm"
        PROVE  \E j \in 1..(n + 1) : j < i /\ v[j].op = "bind_resp"
    <3>1. CASE i \in 1..n
      BY <1>3, <2>1, <2>3, <3>1
    <3>2. CASE i = n + 1
      <4>1. PICK j \in 1..n : sent[j].op = "bind_resp"
        BY <1>3, <2>3, <3>2 DEF Accepted
      <4>2. j < n + 1 /\ j \in 1..(n + 1) /\ v[j] = sent[j]
        BY <1>3
      <4>3. QED
        BY <3>2, <4>1, <4>2
    <3>3. QED
      BY <1>6, <3>1, <3>2
  <2>4. ASSUME NEW i \in 1..(n + 1), v[i].op \in SmscRequest
        PROVE  v[i].seqNo \in 1..Requested(v)
    BY <1>3, <1>4, <1>6, <2>1, <2>4
  <2>5. ASSUME NEW i \in 1..(n + 1), NEW j \in 1..(n + 1), i < j,
               v[i].op \in SmscRequest, v[j].op \in SmscRequest
        PROVE  v[i].seqNo < v[j].seqNo
    <3>1. i \in 1..n /\ v[i] = sent[i]
      BY <1>3, <2>5
    <3>2. CASE j \in 1..n
      BY <1>3, <2>5, <3>1, <3>2 DEF Inv, SmscOrder
    <3>3. CASE j = n + 1
      BY <1>3, <1>4, <2>1, <2>5, <3>1, <3>3
    <3>4. QED
      BY <1>6, <3>2, <3>3
  <2>6. Requested(v) <= MaxRequests
    BY <1>4 DEF Inv, SmscOrder
  <2>7. QED
    BY <1>1, <1>3, <2>2, <2>3, <2>4, <2>5, <2>6 DEF SmscOrder
<1>10. QED
  BY <1>1, <1>7, <1>8, <1>9, Frames DEF Inv

LEMMA SmscAnswersInv ==
  ASSUME Inv, SmscAnswers
  PROVE  Inv'
<1>1. PICK i \in DOMAIN wire, status \in {"ok", "error"} :
        /\ wire[i].op \in Request
        /\ Smsc([op |-> IF wire[i].op = "bind" THEN "bind_resp" ELSE "submit_sm_resp",
                 seqNo |-> wire[i].seqNo, status |-> status])
  BY DEF SmscAnswers
<1> DEFINE m == [op |-> IF wire[i].op = "bind" THEN "bind_resp" ELSE "submit_sm_resp",
                 seqNo |-> wire[i].seqNo, status |-> status]
<1>2. wire[i] \in Sending
  BY DEF Inv, Types
<1>3. m \in Received
  BY <1>2 DEF Sending, Received, SmscAnswer
<1>4. /\ m.op = "bind_resp" => wire[i].op = "bind"
      /\ m.op = "submit_sm_resp" => wire[i].op = "submit_sm" /\ wire[i].seqNo = m.seqNo
      /\ m.op # "deliver_sm" /\ m.op \notin SmscRequest
  BY <1>1 DEF Request, SmscRequest
<1>5. Smsc(m)
  BY <1>1
<1> HIDE DEF m
<1>6. QED
  BY <1>3, <1>4, <1>5, SmscInv

LEMMA SmscRequestsInv ==
  ASSUME Inv, SmscRequests
  PROVE  Inv'
<1>1. PICK op \in SmscRequest :
        /\ Requested(sent) < MaxRequests
        /\ op = "deliver_sm" => Accepted
        /\ Smsc([op |-> op, seqNo |-> Requested(sent) + 1, status |-> "ok"])
  BY DEF SmscRequests
<1> DEFINE m == [op |-> op, seqNo |-> Requested(sent) + 1, status |-> "ok"]
<1>2. sent \in Seq(Received)
  BY DEF Inv, Types
<1>3. Requested(sent) \in Nat
  <2>1. [op |-> op, seqNo |-> 0, status |-> "ok"] \in Received
    BY DEF Received
  <2>2. QED
    BY <1>2, <2>1, RequestedAppend
<1>4. m \in Received
  BY <1>3 DEF Received
<1>5. /\ m.op # "bind_resp" /\ m.op # "submit_sm_resp"
      /\ m.op = "deliver_sm" => Accepted
      /\ m.seqNo = Requested(sent) + 1 /\ Requested(sent) < MaxRequests
  BY <1>1 DEF SmscRequest
<1>6. Smsc(m)
  BY <1>1
<1> HIDE DEF m
<1>7. QED
  BY <1>4, <1>5, <1>6, SmscInv

LEMMA LinkBreaksInv ==
  ASSUME Inv, LinkBreaks
  PROVE  Inv'
<1>1. /\ linkUp /\ linkUp' = FALSE /\ lost' \subseteq DOMAIN sent
      /\ UNCHANGED <<state, awaiting, wire, nextNo, sent, handled, pc, call, known,
                     worker, header, todo, reported>>
  BY DEF LinkBreaks, Quiet, In!LinkBreaks, Out!LinkBreaks, app, work
<1>2. Types'
  BY <1>1 DEF Inv, Types
<1>3. Stream'
  BY <1>1 DEF Inv, Stream
<1>4. Answers'
  BY <1>1 DEF Inv, Answers, AnsweredInOrder, Answered, NotYetAnswered, AnswerDue,
              AnsweredAfterHandler
<1>5. QED
  BY <1>1, <1>2, <1>3, <1>4, Frames DEF Inv

LEMMA StutterInv ==
  ASSUME Inv, UNCHANGED vars
  PROVE  Inv'
<1>1. UNCHANGED <<state, awaiting, wire, nextNo, sent, handled, lost, linkUp, pc, call, known,
                  worker, header, todo, reported>>
  BY DEF vars, outgoing, incoming, app, work
<1>2. Types'
  BY <1>1 DEF Inv, Types
<1>3. QED
  BY <1>1, <1>2, Frames DEF Inv

LEMMA StepInv ==
  ASSUME Inv, [Next]_vars
  PROVE  Inv'
<1>1. ASSUME NEW t \in App, Start(t)
      PROVE  Inv'
  BY <1>1, ConnectInv, SetOpenedInv, CreateWorkerInv, BindInv DEF Start
<1>2. ASSUME NEW t \in App, CallWait(t) \/ EndWait(t)
      PROVE  Inv'
  BY <1>2, WaitInv
<1>3. ASSUME NEW t \in App, CallSubmit(t)
      PROVE  Inv'
  BY <1>3, CallSubmitInv
<1>4. CASE Work
  BY <1>4, ReadPduInv, CallHandlerInv, SetBoundInv, AnswerPduInv, ExitInv DEF Work
<1>5. CASE HandlerSubmits \/ Submit
  BY <1>5, HandlerSubmitsInv, StoreNumberInv, SendSubmitInv DEF Submit
<1>6. CASE SmscAnswers \/ SmscRequests \/ LinkBreaks
  BY <1>6, SmscAnswersInv, SmscRequestsInv, LinkBreaksInv
<1>7. CASE UNCHANGED vars
  BY <1>7, StutterInv
<1>8. QED
  BY <1>1, <1>2, <1>3, <1>4, <1>5, <1>6, <1>7 DEF Next

\* Every state is of its type, and satisfies the rest of the invariant.
THEOREM Invariance == Spec => []Inv
<1>1. QED
  BY InitInv, StepInv, PTL DEF Spec

-----------------------------------------------------------------------------
(***************************************************************************)
(* The properties.                                                         *)
(***************************************************************************)
(***************************************************************************)
(* CLOSED is the last state of a session, and BOUND comes after OPENED,    *)
(* whatever esme_start and the worker do at the same time: esme_start      *)
(* stores its one state before there is a worker.                          *)
(***************************************************************************)
THEOREM StatesOrdered == Spec => StateOrder
<1> DEFINE Ordered ==
      \/ state = "undefined" /\ state' = "opened"
      \/ state = "opened" /\ state' = "bound"
      \/ state \in {"opened", "bound"} /\ state' = "closed"
<1>1. ASSUME Inv, [Next]_vars
      PROVE  Ordered \/ UNCHANGED state
  <2>1. ASSUME NEW t \in App, Start(t)
        PROVE  Ordered \/ UNCHANGED state
    <3>1. CASE SetOpened(t)
      <4>1. t = Starter /\ pc[t] = "open" /\ state' = "opened"
        BY <3>1 DEF SetOpened, StartStep, SetState
      <4>2. QED
        BY <1>1, <4>1 DEF Inv, Progress
    <3>2. CASE Connect(t) \/ ConnectFails(t) \/ CreateWorker(t) \/ Bind(t)
      BY <3>2 DEF Connect, ConnectFails, CreateWorker, Bind, Sends, Quiet
    <3>3. QED
      BY <2>1, <3>1, <3>2 DEF Start
  <2>2. ASSUME NEW t \in App, CallWait(t) \/ EndWait(t) \/ CallSubmit(t)
        PROVE  Ordered \/ UNCHANGED state
    BY <2>2 DEF CallWait, EndWait, WaitOver, Session!CallWait, Session!EndWait,
                CallSubmit, BeginSubmit, Quiet
  <2>3. CASE Work
    <3>1. CASE SetBound
      <4>1. worker = "runs" /\ state' = "bound"
        BY <3>1 DEF SetBound, WorkStep, SetState
      <4>2. QED
        BY <1>1, <4>1 DEF Inv, Progress
    <3>2. CASE Exit
      <4>1. worker = "runs" /\ state' = "closed"
        BY <3>2 DEF Exit, SetState
      <4>2. QED
        BY <1>1, <4>1 DEF Inv, Progress
    <3>3. CASE ReadPdu \/ CallHandler \/ AnswerPdu
      BY <3>3 DEF ReadPdu, CallHandler, AnswerPdu, Sends, Quiet
    <3>4. QED
      BY <2>3, <3>1, <3>2, <3>3 DEF Work
  <2>4. CASE Submit \/ HandlerSubmits \/ SmscAnswers \/ SmscRequests \/ LinkBreaks
    BY <2>4 DEF Submit, StoreNumber, SendSubmit, HandlerSubmits, BeginSubmit, Sends,
                SmscAnswers, SmscRequests, Smsc, LinkBreaks, Quiet
  <2>5. CASE UNCHANGED vars
    BY <2>5 DEF vars
  <2>6. QED
    BY <1>1, <2>1, <2>2, <2>3, <2>4, <2>5 DEF Next
<1>2. QED
  BY <1>1, Invariance, PTL DEF Spec, StateOrder

\* Requests of the SMSC are answered once, in their order, with their numbers.
THEOREM AnswersCorrect == Spec => []AnsweredInOrder
<1>1. Inv => AnsweredInOrder
  BY DEF Inv, Answers
<1>2. QED
  BY <1>1, Invariance, PTL

\* The answer to a deliver_sm goes out after its handler has returned.
THEOREM HandlerFirst == Spec => []AnsweredAfterHandler
<1>1. Inv => AnsweredAfterHandler
  BY DEF Inv, Answers
<1>2. QED
  BY <1>1, Invariance, PTL

\* The application knows the number that a response is reported with.
THEOREM NumbersReported == Spec => []ResponseNumberKnown
<1>1. ASSUME Inv
      PROVE  ResponseNumberKnown
  <2>1. SUFFICES ASSUME NEW i \in DOMAIN reported, reported[i].op = "submit_sm_resp"
                 PROVE  reported[i].seqNo \in known
    BY DEF ResponseNumberKnown
  <2>2. PICK j \in DOMAIN handled : reported[i] = handled[j]
    BY <1>1, <2>1 DEF Inv, Reports
  <2>3. j \in DOMAIN sent /\ sent[j] = reported[i]
    BY <1>1, <2>2 DEF Inv, Types, Stream
  <2>4. PICK k \in DOMAIN wire : wire[k].op = "submit_sm" /\ wire[k].seqNo = sent[j].seqNo
    BY <1>1, <2>1, <2>3 DEF Inv, SmscOrder
  <2>5. QED
    BY <1>1, <2>3, <2>4 DEF Inv, NumbersKnown
<1>2. QED
  BY <1>1, Invariance, PTL

\* Nothing is submitted before the bind and the response to it.
THEOREM BindFirst == Spec => []SubmitsFollowBind
<1>1. Inv => SubmitsFollowBind
  BY DEF Inv
<1>2. QED
  BY <1>1, Invariance, PTL

\* CLOSED comes after everything that arrived was reported.
THEOREM ReportedWhenClosed == Spec => []ClosedAfterReports
<1>1. ASSUME Inv
      PROVE  ClosedAfterReports
  <2>1. SUFFICES ASSUME state = "closed",
                        NEW i \in DOMAIN sent \ lost, sent[i].op \in Handlers
                 PROVE  Contains(reported, sent[i])
    BY DEF ClosedAfterReports
  <2>2. i \in DOMAIN handled /\ handled[i] = sent[i] /\ todo = <<>>
    BY <1>1, <2>1 DEF Inv, Stream
  <2>3. ~HandlerDue
    BY <2>2 DEF HandlerDue
  <2>4. PICK k \in DOMAIN reported : reported[k] = sent[i]
    BY <1>1, <2>1, <2>2, <2>3 DEF Inv, Reports
  <2>5. k \in 1..Len(reported)
    BY <1>1, <2>4 DEF Inv, Types
  <2>6. QED
    BY <2>4, <2>5 DEF Contains
<1>2. QED
  BY <1>1, Invariance, PTL

-----------------------------------------------------------------------------
(***************************************************************************)
(* The parts.  Every step of the session is, for the session state, for    *)
(* the sends and for the stream of PDUs, a step of its specification or    *)
(* none: what SessionState, SendPath and Framing implement is what the     *)
(* session is made of.                                                     *)
(***************************************************************************)
LEMMA StateSteps ==
  ASSUME Inv, [Next]_vars
  PROVE  [Session!Next]_(Session!vars)
<1> USE DEF Session!vars, Session!Next
<1>1. ASSUME NEW t \in App, Start(t)
      PROVE  Session!SetState \/ Quiet
  BY <1>1 DEF Start, Connect, ConnectFails, SetOpened, SetState, CreateWorker, Bind, Sends
<1>2. ASSUME NEW t \in App, CallWait(t) \/ EndWait(t)
      PROVE  t \in Thread /\ (Session!CallWait(t) \/ Session!EndWait(t))
  BY <1>2 DEF CallWait, EndWait, WaitOver, Thread
<1>3. ASSUME NEW t \in App, CallSubmit(t)
      PROVE  Quiet
  BY <1>3 DEF CallSubmit, BeginSubmit
<1>4. CASE Work
  <2>1. Session!SetState \/ Quiet
    BY <1>4 DEF Work, ReadPdu, CallHandler, SetBound, SetState, AnswerPdu, Sends, Exit
  <2>2. QED
    BY <2>1 DEF Quiet
<1>5. CASE Submit \/ HandlerSubmits \/ SmscAnswers \/ SmscRequests \/ LinkBreaks
  <2>1. Quiet
    BY <1>5 DEF Submit, StoreNumber, SendSubmit, HandlerSubmits, BeginSubmit, Sends,
                SmscAnswers, SmscRequests, Smsc, LinkBreaks
  <2>2. QED
    BY <2>1 DEF Quiet
<1>6. CASE UNCHANGED vars
  BY <1>6 DEF vars
<1>7. QED
  BY <1>1, <1>2, <1>3, <1>4, <1>5, <1>6 DEF Next, Quiet

\* The steps that send nothing leave the wire, the counter and the connection.
LEMMA SendSteps ==
  ASSUME Inv, [Next]_vars
  PROVE  [Out!Next]_(Out!vars)
<1> USE DEF Out!vars
<1>1. ASSUME NEW t \in App, Start(t)
      PROVE  Out!SendRequest("bind", t) \/ UNCHANGED Out!vars
  BY <1>1 DEF Start, Connect, ConnectFails, SetOpened, CreateWorker, Bind, Sends, outgoing
<1>2. ASSUME NEW t \in App, CallWait(t) \/ EndWait(t)
      PROVE  UNCHANGED Out!vars
  BY <1>2 DEF CallWait, EndWait, outgoing
<1>3. ASSUME NEW t \in Thread, BeginSubmit(t)
      PROVE  UNCHANGED Out!vars
  BY <1>3 DEF BeginSubmit, outgoing
<1>4. CASE Submit
  <2>1. CASE StoreNumber
    BY <2>1 DEF StoreNumber, outgoing
  <2>2. CASE SendSubmit
    <3>1. call.by \in Thread /\ Out!SendRequest("submit_sm", call.by)
      BY <2>2, SubmitStepEffect DEF Inv, SendSubmit, Sends
    <3>2. QED
      BY <3>1 DEF Out!Next, Request
  <2>3. QED
    BY <1>4, <2>1, <2>2 DEF Submit
<1>5. CASE AnswerPdu
  <2>1. WorkStep("answer") /\ Out!SendAnswer(AnswerTo[header.op], Worker, header.seqNo)
    BY <1>5 DEF AnswerPdu, Sends, SendsAnswer
  <2>2. /\ handled # <<>> /\ header = handled[Len(handled)]
        /\ header.op \in SmscRequest /\ header \in Received
    BY <2>1, WorkStepEffect DEF Inv
  <2>3. handled \in Seq(Received) /\ sent \in Seq(Received)
    BY DEF Inv, Types
  <2>4. Len(handled) \in DOMAIN handled
    BY <2>2, <2>3
  <2>5. Len(handled) \in DOMAIN sent /\ sent[Len(handled)] = header
    BY <2>2, <2>3, <2>4 DEF Inv, Stream
  <2>6. header.seqNo \in 1..Requested(sent) /\ Requested(sent) <= MaxRequests
    BY <2>2, <2>5 DEF Inv, SmscOrder
  <2>7. Requested(sent) \in Nat
    BY <2>2, <2>3, RequestedAppend
  <2>8. header.seqNo \in PeerSeqNo
    BY <2>6, <2>7 DEF PeerSeqNo
  <2>9. AnswerTo[header.op] \in Answer /\ Worker \in Thread
    BY <2>2 DEF SmscRequest, AnswerTo, Answer, Thread
  <2>10. QED
    BY <2>1, <2>8, <2>9 DEF Out!Next
<1>6. CASE ReadPdu \/ CallHandler \/ SetBound \/ Exit
  <2>1. UNCHANGED outgoing
    BY <1>6 DEF ReadPdu, CallHandler, SetBound, Exit
  <2>2. UNCHANGED linkUp
    BY <1>6 DEF ReadPdu, In!Handle, CallHandler, SetBound, Exit, In!Close
  <2>3. QED
    BY <2>1, <2>2 DEF outgoing
<1>7. CASE SmscAnswers \/ SmscRequests
  <2>1. UNCHANGED outgoing /\ UNCHANGED linkUp
    BY <1>7 DEF SmscAnswers, SmscRequests, Smsc, In!Send
  <2>2. QED
    BY <2>1 DEF outgoing
<1>8. CASE LinkBreaks
  BY <1>8 DEF LinkBreaks, Out!Next
<1>9. CASE UNCHANGED vars
  BY <1>9 DEF vars, outgoing
<1>10. \A t \in App : t \in Thread
  BY DEF Thread
<1>11. "bind" \in Request /\ Worker \in Thread
  BY DEF Request, Thread
<1>12. QED
  BY <1>1, <1>2, <1>3, <1>4, <1>5, <1>6, <1>7, <1>8, <1>9, <1>10, <1>11
     DEF Next, Work, CallSubmit, HandlerSubmits, Out!Next

LEMMA StreamSteps ==
  ASSUME Inv, [Next]_vars
  PROVE  [In!Next]_(In!vars)
<1> USE DEF In!vars, In!Next
<1>1. ASSUME NEW t \in App, Start(t)
      PROVE  In!LinkBreaks \/ UNCHANGED In!vars
  <2>1. CASE SetOpened(t)
    <3>1. pc[Starter] = "open" /\ state' = "opened" /\ UNCHANGED <<incoming, linkUp>>
      BY <2>1 DEF SetOpened, StartStep, SetState
    <3>2. state = "undefined"
      BY <3>1 DEF Inv, Progress
    <3>3. QED
      BY <3>1, <3>2 DEF incoming
  <2>2. CASE Connect(t) \/ ConnectFails(t) \/ CreateWorker(t) \/ Bind(t)
    BY <2>2 DEF Connect, ConnectFails, CreateWorker, Bind, Sends, Quiet, incoming
  <2>3. QED
    BY <1>1, <2>1, <2>2 DEF Start
<1>2. ASSUME NEW t \in App, CallWait(t) \/ EndWait(t) \/ CallSubmit(t)
      PROVE  In!LinkBreaks \/ UNCHANGED In!vars
  BY <1>2 DEF CallWait, EndWait, WaitOver, Session!CallWait, Session!EndWait,
              CallSubmit, BeginSubmit, Quiet, incoming
<1>3. CASE ReadPdu
  BY <1>3 DEF ReadPdu
<1>4. CASE CallHandler \/ AnswerPdu \/ HandlerSubmits \/ Submit
  BY <1>4 DEF CallHandler, AnswerPdu, HandlerSubmits, BeginSubmit, Submit, StoreNumber,
              SendSubmit, Sends, Quiet, incoming
<1>5. CASE SetBound
  <2>1. worker = "runs" /\ state' = "bound" /\ UNCHANGED <<incoming, linkUp>>
    BY <1>5 DEF SetBound, WorkStep, SetState
  <2>2. state \in {"opened", "bound"}
    BY <2>1 DEF Inv, Progress
  <2>3. QED
    BY <2>1, <2>2 DEF incoming
<1>6. CASE Exit
  BY <1>6 DEF Exit
<1>7. CASE SmscAnswers \/ SmscRequests
  BY <1>7 DEF SmscAnswers, SmscRequests, Smsc
<1>8. CASE LinkBreaks
  BY <1>8 DEF LinkBreaks
<1>9. CASE UNCHANGED vars
  BY <1>9 DEF vars, incoming
<1>10. QED
  BY <1>1, <1>2, <1>3, <1>4, <1>5, <1>6, <1>7, <1>8, <1>9 DEF Next, Work

THEOREM Composition == Spec => Session!Spec /\ Out!Spec /\ In!Spec
<1>1. Init => Session!Init /\ Out!Init /\ In!Init
  BY DEF Init
<1>2. QED
  BY <1>1, StateSteps, SendSteps, StreamSteps, Invariance, PTL
     DEF Spec, Session!Spec, Out!Spec, In!Spec

=============================================================================
