---------------------------- MODULE EsmeSession -----------------------------
(***************************************************************************)
(* A session from as_smpp_esme_start to the end of its connection: the     *)
(* application's threads, the receive worker with the handlers it calls,   *)
(* and an SMSC.                                                            *)
(*                                                                         *)
(* The module composes what the other modules show of the parts: the       *)
(* session state changes atomically (SessionStateSpec, implemented by      *)
(* SessionState), PDUs go out atomically (SendPathSpec, implemented by     *)
(* SendPath), and they come in as a stream (FramingSpec, implemented by    *)
(* Framing).  Its steps are steps of these specifications, in the order in *)
(* which the code of smpp.c and esme.c makes them.  The three BOUND states *)
(* are one state here, and the three binds one operation.                  *)
(***************************************************************************)
EXTENDS Integers, Sequences, FiniteSets, SequencesExt

CONSTANTS
  App,          \* the application's threads
  Starter,      \* the one of them that calls as_smpp_esme_start
  Worker,       \* the thread of as_smpp_receive_worker
  Handlers,     \* the PDUs the application has set a handler for
  None,         \* "awaits nothing"; the header of a worker that has read none
  Awaited,      \* bound: the states the application waits for
  MaxSubmits,   \* bound: the number of submits
  MaxRequests   \* bound: the number of requests of the SMSC

Thread == App \cup {Worker}
State == {"undefined", "opened", "bound", "closed"}

Request == {"bind", "submit_sm"}
Answer == {"enquire_link_resp", "deliver_sm_resp"}
SmscRequest == {"enquire_link", "deliver_sm"}
SmscAnswer == {"bind_resp", "submit_sm_resp"}

ASSUME ThreadAssumption ==
  Starter \in App /\ Worker \notin App /\ None \notin Thread /\ None \notin State
ASSUME HandlerAssumption == Handlers \subseteq {"bind_resp", "submit_sm_resp", "deliver_sm"}
ASSUME BoundAssumption ==
  Awaited \subseteq State /\ MaxSubmits \in Nat /\ MaxRequests \in Nat

VARIABLES
  state, awaiting,      \* the session state and the threads that wait for one
  wire, nextNo,         \* the PDUs sent to the SMSC, the next sequence number
  sent, handled, lost,  \* the PDUs of the SMSC: sent, read by the worker, lost
  linkUp,               \* the connection carries data
  pc,                   \* where each thread of the application is
  worker,               \* the worker: "none", "runs" or "done"
  header,               \* the PDU it works on, None if it has none
  todo,                 \* what it still has to do for this PDU
  reported,             \* the PDUs that were passed to handlers
  call,                 \* the as_smpp_submit_sm that holds sendMutex
  known                 \* the numbers that were stored in *a_sequenceNo

outgoing == <<wire, nextNo>>
incoming == <<sent, handled, lost>>
app      == <<pc, call, known>>
work     == <<worker, header, todo, reported>>
vars     == <<state, awaiting, outgoing, incoming, linkUp, app, work>>

-----------------------------------------------------------------------------
(***************************************************************************)
(* The parts.                                                              *)
(***************************************************************************)
SessionNo == 1..(MaxSubmits + 1)
PeerSeqNo == 1..MaxRequests

\* A PDU to the SMSC is whole, or the connection broke before it was.
Pdu(op, t, n) == <<op, n>>

\* The wrap of the counter is a matter of SendPath.
Successor(op, n) == n + 1

Session == INSTANCE SessionStateSpec WITH Initial <- "undefined"

Out == INSTANCE SendPathSpec

In == INSTANCE FramingSpec WITH closed <- (state = "closed")

\* The call of as_smpp_submit_sm that holds sendMutex: the thread, the number
\* it took, and the steps it has left.
NoCall == [by |-> None, no |-> 0, todo |-> <<>>]

\* No submit holds sendMutex; the other sends are one step each.
SendFree == call = NoCall

\* The state does not change, nor who waits for it.
Quiet == UNCHANGED <<state, awaiting>>

\* A send finds the connection as it is, or breaks it, which loses PDUs of
\* the SMSC too.
Sends(Send) ==
  /\ Quiet
  /\ Send
  /\ (linkUp' = linkUp /\ UNCHANGED incoming) \/ In!LinkBreaks

\* The state changes for everybody at once; as_smpp_session_set_state.
SetState(s) ==
  /\ state' = s
  /\ UNCHANGED awaiting
  /\ Session!SetState

-----------------------------------------------------------------------------
(***************************************************************************)
(* as_smpp_esme_start, in the thread Starter.                              *)
(***************************************************************************)
Init ==
  /\ Session!Init /\ Out!Init /\ In!Init
  /\ pc = [t \in App |-> IF t = Starter THEN "connect" ELSE "idle"]
  /\ worker = "none"
  /\ header = None
  /\ todo = <<>>
  /\ reported = <<>>
  /\ call = NoCall
  /\ known = {}

\* Mutant of StartOrder: the worker runs before the state is OPENED.
StartOrderCreateFirst ==
  [connect |-> "create", create |-> "open", open |-> "bind", bind |-> "idle"]

\* The steps of as_smpp_connect and of as_smpp_esme_start behind it.
StartOrder ==
  [connect |-> "open", open |-> "create", create |-> "bind", bind |-> "idle"]

StartStep(t, step) ==
  /\ t = Starter
  /\ pc[t] = step
  /\ pc' = [pc EXCEPT ![t] = StartOrder[step]]
  /\ UNCHANGED <<call, known>>

Connect(t) ==
  /\ StartStep(t, "connect")
  /\ Quiet
  /\ UNCHANGED <<outgoing, incoming, linkUp, work>>

\* as_smpp_esme_start returns AS_SMPP_ERROR_NET.
ConnectFails(t) ==
  /\ t = Starter /\ pc[t] = "connect"
  /\ pc' = [pc EXCEPT ![t] = "failed"]
  /\ Quiet
  /\ UNCHANGED <<outgoing, incoming, linkUp, call, known, work>>

SetOpened(t) ==
  /\ StartStep(t, "open")
  /\ SetState("opened")
  /\ UNCHANGED <<outgoing, incoming, linkUp, work>>

\* A failure to create the thread goes unnoticed.
CreateWorker(t) ==
  /\ StartStep(t, "create")
  /\ worker' \in {"none", "runs"}
  /\ Quiet
  /\ UNCHANGED <<outgoing, incoming, linkUp, header, todo, reported>>

Bind(t) ==
  /\ StartStep(t, "bind")
  /\ SendFree
  /\ Sends(Out!SendRequest("bind", t))
  /\ UNCHANGED work

-----------------------------------------------------------------------------
(***************************************************************************)
(* The application: its threads wait for states, and one that has seen the *)
(* state BOUND submits messages.  A thread cannot tell whether others are  *)
(* still in as_smpp_esme_start.                                            *)
(***************************************************************************)
CallWait(t) ==
  /\ pc[t] \in {"idle", "bound"} /\ call.by # t
  /\ Session!CallWait(t) /\ awaiting'[t] \in Awaited
  /\ pc' = [pc EXCEPT ![t] = "wait"]
  /\ UNCHANGED <<outgoing, incoming, linkUp, call, known, work>>

\* Mutant of WaitOver: the states are compared as the bit masks they are.
WaitOverMask(t) ==
  /\ awaiting[t] = state \/ (state = "opened" /\ awaiting[t] = "bound")
  /\ awaiting' = [awaiting EXCEPT ![t] = None]
  /\ UNCHANGED state

\* as_smpp_session_wait_for_state returns.
WaitOver(t) == Session!EndWait(t)

EndWait(t) ==
  /\ pc[t] = "wait"
  /\ WaitOver(t)
  /\ pc' = [pc EXCEPT ![t] = IF awaiting[t] = "bound" THEN "bound" ELSE "idle"]
  /\ UNCHANGED <<outgoing, incoming, linkUp, call, known, work>>

\* Bound: every submit takes a number, and so did the bind.
MaySubmit == nextNo < MaxSubmits + 2

\* Mutant of SubmitOrder: the number is stored behind the send.
SubmitOrderSendFirst == <<"send", "store">>

\* The steps of as_smpp_submit_sm behind the lock.
SubmitOrder == <<"store", "send">>

\* Thread t has locked sendMutex and taken a number.
BeginSubmit(t) ==
  /\ SendFree /\ MaySubmit
  /\ call' = [by |-> t, no |-> nextNo, todo |-> SubmitOrder]
  /\ Quiet
  /\ UNCHANGED <<outgoing, incoming, linkUp, pc, known, work>>

CallSubmit(t) ==
  /\ pc[t] = "bound"
  /\ BeginSubmit(t)

SubmitStep(step) ==
  /\ call.todo # <<>> /\ Head(call.todo) = step
  /\ call' = IF Tail(call.todo) = <<>> THEN NoCall ELSE [call EXCEPT !.todo = Tail(@)]
  /\ UNCHANGED <<pc, work>>

\* *a_sequenceNo gets the number, before the PDU goes out.
StoreNumber ==
  /\ SubmitStep("store")
  /\ known' = known \cup {call.no}
  /\ Quiet
  /\ UNCHANGED <<outgoing, incoming, linkUp>>

SendSubmit ==
  /\ SubmitStep("send")
  /\ Sends(Out!SendRequest("submit_sm", call.by))
  /\ UNCHANGED known

Submit == StoreNumber \/ SendSubmit

-----------------------------------------------------------------------------
(***************************************************************************)
(* as_smpp_receive_worker.                                                 *)
(***************************************************************************)
\* Mutants of WorkFor: a deliver_sm is answered first; an enquire_link is not
\* answered at all.
WorkForAnswerFirst ==
  [bind_resp |-> <<"handler", "bound">>, submit_sm_resp |-> <<"handler">>,
   enquire_link |-> <<"answer">>, deliver_sm |-> <<"answer", "handler">>]

WorkForNoAnswer ==
  [bind_resp |-> <<"handler", "bound">>, submit_sm_resp |-> <<"handler">>,
   enquire_link |-> <<>>, deliver_sm |-> <<"handler", "answer">>]

\* The dispatch on the command id.
WorkFor ==
  [bind_resp |-> <<"handler", "bound">>, submit_sm_resp |-> <<"handler">>,
   enquire_link |-> <<"answer">>, deliver_sm |-> <<"handler", "answer">>]

\* The next whole PDU of the stream is in the receive buffer.
ReadPdu ==
  /\ worker = "runs" /\ todo = <<>>
  /\ Quiet
  /\ In!Handle
  /\ header' = Last(handled')
  /\ todo' = WorkFor[header'.op]
  /\ UNCHANGED <<outgoing, app, worker, reported>>

WorkStep(step) ==
  /\ worker = "runs" /\ todo # <<>> /\ Head(todo) = step
  /\ todo' = Tail(todo)
  /\ UNCHANGED <<worker, header, app>>

\* AS_SMPP_CALL_HANDLER: the handler, if there is one, runs and returns.
CallHandler ==
  /\ WorkStep("handler") /\ call.by # Worker
  /\ reported' = IF header.op \in Handlers THEN Append(reported, header) ELSE reported
  /\ Quiet
  /\ UNCHANGED <<outgoing, incoming, linkUp>>

\* A handler may submit messages before it returns.
HandlerSubmits ==
  /\ worker = "runs" /\ todo # <<>> /\ Head(todo) = "handler"
  /\ header.op \in Handlers
  /\ BeginSubmit(Worker)

\* Mutant of SetBound: the status is tested as a truth value, and ROK is 0.
SetBoundIfStatus ==
  /\ WorkStep("bound")
  /\ IF header.status # "ok" THEN SetState("bound") ELSE Quiet
  /\ UNCHANGED <<outgoing, incoming, linkUp, reported>>

\* Whatever the status in the response is.
SetBound ==
  /\ WorkStep("bound")
  /\ SetState("bound")
  /\ UNCHANGED <<outgoing, incoming, linkUp, reported>>

\* The answer by the name of the function that sends it; the command id that
\* as_smpp_deliver_sm_response writes is a matter of SendPath.
AnswerTo == [enquire_link |-> "enquire_link_resp", deliver_sm |-> "deliver_sm_resp"]

SendsAnswer == Out!SendAnswer(AnswerTo[header.op], Worker, header.seqNo)

AnswerPdu ==
  /\ WorkStep("answer") /\ SendFree
  /\ Sends(SendsAnswer)
  /\ UNCHANGED reported

\* Mutant of Exit: the session is closed although PDUs are left to read.
ExitAtOnce ==
  /\ worker = "runs" /\ todo = <<>> /\ ~linkUp
  /\ worker' = "done"
  /\ SetState("closed")
  /\ UNCHANGED <<outgoing, incoming, linkUp, app, header, todo, reported>>

\* recv has nothing more to return.
Exit ==
  /\ worker = "runs" /\ todo = <<>>
  /\ worker' = "done"
  /\ SetState("closed")
  /\ In!Close
  /\ UNCHANGED <<outgoing, app, header, todo, reported>>

-----------------------------------------------------------------------------
(***************************************************************************)
(* The SMSC.  It answers each request once, in any order, and makes its    *)
(* own requests; it accepts a session, or not, in its answer to the bind.  *)
(***************************************************************************)
Connected == pc[Starter] \notin {"connect", "failed"}

Accepted == \E i \in DOMAIN sent : sent[i].op = "bind_resp" /\ sent[i].status = "ok"

Smsc(message) ==
  /\ Connected
  /\ Quiet
  /\ sent' = Append(sent, message)
  /\ In!Send
  /\ UNCHANGED <<outgoing, app, work>>

\* The number of PDUs that are requests of the SMSC.
Requested(s) == Cardinality({i \in DOMAIN s : s[i].op \in SmscRequest})

SmscAnswers ==
  \E i \in DOMAIN wire, status \in {"ok", "error"} :
    /\ wire[i].op \in Request
    /\ wire[i].cells = Pdu(wire[i].op, wire[i].by, wire[i].seqNo)
    /\ \A j \in DOMAIN sent : sent[j].op \in SmscAnswer => sent[j].seqNo # wire[i].seqNo
    /\ wire[i].op = "submit_sm" => (status = "ok" <=> Accepted)
    /\ Smsc([op |-> IF wire[i].op = "bind" THEN "bind_resp" ELSE "submit_sm_resp",
             seqNo |-> wire[i].seqNo, status |-> status])

SmscRequests ==
  \E op \in SmscRequest :
    /\ Requested(sent) < MaxRequests
    /\ op = "deliver_sm" => Accepted
    /\ Smsc([op |-> op, seqNo |-> Requested(sent) + 1, status |-> "ok"])

\* The SMSC or the network ends the connection.
LinkBreaks ==
  /\ Connected
  /\ Quiet
  /\ In!LinkBreaks /\ Out!LinkBreaks
  /\ UNCHANGED <<app, work>>

-----------------------------------------------------------------------------
Start(t) == Connect(t) \/ ConnectFails(t) \/ SetOpened(t) \/ CreateWorker(t) \/ Bind(t)

Work == ReadPdu \/ CallHandler \/ SetBound \/ AnswerPdu \/ Exit

Next ==
  \/ \E t \in App : Start(t) \/ CallWait(t) \/ EndWait(t) \/ CallSubmit(t)
  \/ Submit \/ Work \/ HandlerSubmits
  \/ SmscAnswers \/ SmscRequests \/ LinkBreaks

(***************************************************************************)
(* The threads run on, handlers and sends return, and a wait for a state   *)
(* that stays ends.  A thread that asks for sendMutex gets it when it is   *)
(* free again and again.  Nothing is asked of the SMSC, nor of the         *)
(* application.                                                            *)
(***************************************************************************)
Fairness ==
  /\ WF_vars(Work) /\ SF_vars(AnswerPdu)
  /\ WF_vars(Submit)
  /\ \A t \in App : WF_vars(Start(t)) /\ SF_vars(Bind(t)) /\ WF_vars(EndWait(t))

Spec == Init /\ [][Next]_vars

FairSpec == Spec /\ Fairness

-----------------------------------------------------------------------------
(***************************************************************************)
(* Properties.                                                             *)
(***************************************************************************)
Message == [op : SmscAnswer \cup SmscRequest, seqNo : SessionNo \cup PeerSeqNo,
            status : {"ok", "error"}]

(***************************************************************************)
(* CLOSED is the last state of a session, and BOUND comes after OPENED:    *)
(* the state that esme_start stores never overtakes one that the worker    *)
(* stores, however early the connection breaks.                            *)
(***************************************************************************)
StateOrder ==
  [][\/ state = "undefined" /\ state' = "opened"
     \/ state = "opened" /\ state' = "bound"
     \/ state \in {"opened", "bound"} /\ state' = "closed"]_state

\* The PDU m on the wire answers the PDU r of the SMSC.
AnswerFor(m, r) ==
  /\ r.op \in SmscRequest
  /\ m.op = AnswerTo[r.op]
  /\ m.seqNo = r.seqNo

Answered(r) == \E i \in DOMAIN wire : AnswerFor(wire[i], r)

(***************************************************************************)
(* What goes out as an answer answers a request of the SMSC, with its      *)
(* number; requests are answered in their order, each once and none passed *)
(* over; and while the connection is there only the request that the       *)
(* worker works on has no answer yet.                                      *)
(***************************************************************************)
AnsweredInOrder ==
  /\ \A i \in DOMAIN wire : wire[i].op \in Answer =>
       \E j \in DOMAIN handled : AnswerFor(wire[i], handled[j])
  /\ \A i, k \in DOMAIN wire, j, l \in DOMAIN handled :
       i < k /\ AnswerFor(wire[i], handled[j]) /\ AnswerFor(wire[k], handled[l]) => j < l
  /\ \A j, l \in DOMAIN handled :
       j < l /\ handled[j].op \in SmscRequest /\ Answered(handled[l]) => Answered(handled[j])
  /\ linkUp => \A j \in DOMAIN handled :
       \/ handled[j].op \notin SmscRequest
       \/ Answered(handled[j])
       \/ j = Len(handled) /\ Contains(todo, "answer")

(***************************************************************************)
(* A deliver_sm is answered only after the handler of the application got  *)
(* it: a message the SMSC may forget is not lost between the two.          *)
(***************************************************************************)
AnsweredAfterHandler ==
  "deliver_sm" \in Handlers =>
    \A i \in DOMAIN wire : wire[i].op = "deliver_sm_resp" =>
      \E j \in DOMAIN reported : /\ reported[j].op = "deliver_sm"
                                 /\ reported[j].seqNo = wire[i].seqNo

(***************************************************************************)
(* The response to a submit_sm may come before as_smpp_submit_sm returns,  *)
(* or even before it has unlocked sendMutex; even so the number it is      *)
(* reported with was stored for the application.                           *)
(***************************************************************************)
ResponseNumberKnown ==
  \A i \in DOMAIN reported : reported[i].op = "submit_sm_resp" => reported[i].seqNo \in known

(***************************************************************************)
(* An application that waits for BOUND, as the demo does, submits nothing  *)
(* before the SMSC has answered the bind.                                  *)
(***************************************************************************)
SubmitsFollowBind ==
  \A i \in DOMAIN wire : wire[i].op = "submit_sm" =>
    /\ \E j \in DOMAIN wire : j < i /\ wire[j].op = "bind"
    /\ \E j \in DOMAIN handled : handled[j].op = "bind_resp"

(***************************************************************************)
(* When the session is CLOSED, everything that arrived was handled and     *)
(* every response that arrived was reported to its handler.                *)
(***************************************************************************)
ClosedAfterReports ==
  state = "closed" =>
    \A i \in DOMAIN sent \ lost :
      sent[i].op \in Handlers => Contains(reported, sent[i])

(***************************************************************************)
(* In the state BOUND the SMSC has accepted the session.                   *)
(***************************************************************************)
BoundMeansAccepted == state = "bound" => Accepted

-----------------------------------------------------------------------------
(***************************************************************************)
(* A request of the SMSC is answered unless the connection breaks or the   *)
(* worker could not be created.                                            *)
(***************************************************************************)
RequestsGetAnswered ==
  \A i \in 1..MaxRequests :
    (worker # "none" /\ \E j \in DOMAIN sent : sent[j].op \in SmscRequest /\ sent[j].seqNo = i)
      ~> (~linkUp \/ \E j \in DOMAIN wire : wire[j].op \in Answer /\ wire[j].seqNo = i)

(***************************************************************************)
(* A wait for BOUND ends when the SMSC has accepted the bind, unless the   *)
(* connection breaks: the CLOSED that follows may then hide the BOUND from *)
(* the thread that waits.                                                  *)
(***************************************************************************)
BoundWaitEnds ==
  \A t \in App :
    (awaiting[t] = "bound" /\ worker # "none" /\ Accepted)
      ~> (awaiting[t] # "bound" \/ ~linkUp)

=============================================================================
