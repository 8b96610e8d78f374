---------------------------- MODULE SessionLife -----------------------------
(***************************************************************************)
(* The life of a session object: as_smpp_session_create, starts by         *)
(* as_smpp_esme_start, one after the other, each with a worker of its own, *)
(* and as_smpp_session_destroy.  Nobody joins a worker: the application    *)
(* knows of its end from the state CLOSED only, which the worker stores    *)
(* before its last statements.  One thread of the application makes the    *)
(* calls, and as_smpp_session_destroy may be any of them, as in the demo,  *)
(* which destroys a session that is bound.                                 *)
(*                                                                         *)
(* A connection carries parts: the PDUs of two parts each, numbered.       *)
(***************************************************************************)
EXTENDS Integers, Sequences, FiniteSets

CONSTANTS
  MaxStarts,      \* bound: calls of as_smpp_esme_start
  MaxParts        \* bound: parts the SMSC sends on a connection

ASSUME BoundAssumption == MaxStarts \in Nat /\ MaxParts \in Nat

Worker == 1..MaxStarts
App == 0
Thread == {App} \union Worker
None == -1

VARIABLES
  resources,      \* what was created for the session and not destroyed
  state,          \* session->state
  owner,          \* the owner of session->stateMutex
  socket,         \* session->socketHandle: the number of the connection
  receiveBuffer,  \* the parts in session->receiveBuffer
  pc,             \* the next statement of each thread
  starts,         \* the results of the calls of as_smpp_esme_start
  seen,           \* the state the application saw last
  step,           \* the statement of as_smpp_session_destroy
  sent, received, \* the parts of each connection that were sent, and received
  down,           \* the connections that have ended
  handled         \* the PDUs the workers handled: pairs of parts

network == <<sent, down>>
object == <<resources, step>>
vars == <<resources, state, owner, socket, receiveBuffer, pc, starts, seen, step,
          sent, received, down, handled>>

\* What as_smpp_session_create sets up, and what as_smpp_session_destroy
\* destroys, in its order.
Created == {"stateMutex", "stateCondition", "sendMutex", "sendBuffer", "receiveBuffer", "session"}

DestroyOrder ==
  <<"stateMutex", "stateCondition", "sendMutex", "sendMutex",
    "sendBuffer", "receiveBuffer", "session">>

Init ==
  /\ resources = Created
  /\ state = "UNDEFINED"
  /\ owner = None
  /\ socket = None
  /\ receiveBuffer = <<>>
  /\ pc = [t \in Thread |-> IF t = App THEN "idle" ELSE "none"]
  /\ starts = <<>>
  /\ seen = "UNDEFINED"
  /\ step = 1
  /\ sent = [w \in Worker |-> 0]
  /\ received = [w \in Worker |-> 0]
  /\ down = {}
  /\ handled = <<>>

At(t, statement) == pc[t] = statement
GoTo(t, statement) == pc' = [pc EXCEPT ![t] = statement]

-----------------------------------------------------------------------------
(***************************************************************************)
(* as_smpp_session_set_state, of the application for OPENED and of a       *)
(* worker for CLOSED.                                                      *)
(***************************************************************************)

Lock(t) ==
  /\ At(t, "lock") /\ owner = None
  /\ owner' = t
  /\ GoTo(t, "store")
  /\ UNCHANGED <<object, network, state, socket, receiveBuffer, starts, seen, received, handled>>

Store(t) ==
  /\ At(t, "store")
  /\ state' = IF t = App THEN "OPENED" ELSE "CLOSED"
  /\ GoTo(t, "unlock")
  /\ UNCHANGED <<object, network, owner, socket, receiveBuffer, starts, seen, received, handled>>

Unlock(t) ==
  /\ At(t, "unlock")
  /\ owner' = None
  /\ GoTo(t, "broadcast")
  /\ UNCHANGED <<object, network, state, socket, receiveBuffer, starts, seen, received, handled>>

\* Mutant of AfterBroadcast: the worker goes on to receive.
AfterBroadcastReceive(t) == IF t = App THEN "create" ELSE "recv"

AfterBroadcast(t) == IF t = App THEN "create" ELSE "ended"

Broadcast(t) ==
  /\ At(t, "broadcast")
  /\ GoTo(t, AfterBroadcast(t))
  /\ UNCHANGED <<object, network, state, owner, socket, receiveBuffer, starts, seen,
                 received, handled>>

SetState(t) == Lock(t) \/ Store(t) \/ Unlock(t) \/ Broadcast(t)

-----------------------------------------------------------------------------
(***************************************************************************)
(* The application.  It starts a session again only when it has seen that  *)
(* the session is CLOSED, or when the last start failed.                   *)
(***************************************************************************)
Failed == starts # <<>> /\ starts[Len(starts)] = "ERROR_NET"

MayStart == At(App, "idle") /\ (starts = <<>> \/ Failed \/ seen = "CLOSED")

\* receiveBuffer and state are left as they are.
Start ==
  /\ MayStart /\ Len(starts) < MaxStarts
  /\ seen' = "UNDEFINED"
  /\ \/ /\ socket' = Len(starts) + 1            \* as_smpp_net_connect succeeds
        /\ starts' = Append(starts, "running")
        /\ GoTo(App, "lock")
     \/ /\ socket' \in {socket, None}           \* and fails, before socket() or behind it
        /\ starts' = Append(starts, "ERROR_NET")
        /\ UNCHANGED pc
  /\ UNCHANGED <<object, network, state, owner, receiveBuffer, received, handled>>

\* as_smpp_thread_create, which may fail; its result is dropped.
CreateWorker ==
  /\ At(App, "create")
  /\ \/ pc' = [pc EXCEPT ![App] = "bind", ![Len(starts)] = "recv"]
     \/ GoTo(App, "bind")
  /\ UNCHANGED <<object, network, state, owner, socket, receiveBuffer, starts, seen,
                 received, handled>>

\* as_smpp_bind, whose result is dropped, and the return of as_smpp_esme_start.
Bind ==
  /\ At(App, "bind")
  /\ starts' = [starts EXCEPT ![Len(starts)] = "ERROR_NONE"]
  /\ GoTo(App, "idle")
  /\ UNCHANGED <<object, network, state, owner, socket, receiveBuffer, seen, received, handled>>

\* as_smpp_session_get_state, which takes no lock; as_smpp_session_wait_for_state
\* returns only when it would return the awaited state.
GetState ==
  /\ At(App, "idle")
  /\ seen' = state
  /\ UNCHANGED <<object, network, state, owner, socket, receiveBuffer, pc, starts,
                 received, handled>>

\* Whatever the workers do.
CallDestroy ==
  /\ At(App, "idle")
  /\ GoTo(App, "destroy")
  /\ UNCHANGED <<object, network, state, owner, socket, receiveBuffer, starts, seen,
                 received, handled>>

DestroyNext ==
  /\ At(App, "destroy")
  /\ resources' = resources \ {DestroyOrder[step]}
  /\ step' = step + 1
  /\ IF step = Len(DestroyOrder) THEN GoTo(App, "gone") ELSE UNCHANGED pc
  /\ UNCHANGED <<network, state, owner, socket, receiveBuffer, starts, seen, received, handled>>

-----------------------------------------------------------------------------
(***************************************************************************)
(* The workers.  What a worker does with a session that is destroyed, C    *)
(* does not say: here it goes on with what the memory held, or the process *)
(* ends, which is no step.                                                 *)
(***************************************************************************)
\* recv returns a part of what is there, and buffer_copy appends it.
Receive(w) ==
  /\ At(w, "recv")
  /\ received[socket] < sent[socket]
  /\ received' = [received EXCEPT ![socket] = @ + 1]
  /\ receiveBuffer' = Append(receiveBuffer, [connection |-> socket, part |-> received'[socket]])
  /\ GoTo(w, "handle")
  /\ UNCHANGED <<object, network, state, owner, socket, starts, seen, handled>>

\* Mutant of RestOf: one part of the PDU stays.
RestWithPart(buffer) == SubSeq(buffer, 2, Len(buffer))

\* What is left of the buffer without its first PDU.
RestOf(buffer) == SubSeq(buffer, 3, Len(buffer))

Handle(w) ==
  /\ At(w, "handle")
  /\ IF Len(receiveBuffer) >= 2
       THEN /\ handled' = Append(handled, SubSeq(receiveBuffer, 1, 2))
            /\ receiveBuffer' = RestOf(receiveBuffer)
            /\ UNCHANGED pc
       ELSE GoTo(w, "recv") /\ UNCHANGED <<handled, receiveBuffer>>
  /\ UNCHANGED <<object, network, state, owner, socket, starts, seen, received>>

\* Mutant of ReceiveFails: the state is stored at once, too.
ReceiveFailsStores(w) ==
  /\ At(w, "recv")
  /\ socket \in down /\ received[socket] = sent[socket]
  /\ state' = "CLOSED"
  /\ GoTo(w, "lock")
  /\ UNCHANGED <<object, network, owner, socket, receiveBuffer, starts, seen, received, handled>>

ReceiveFails(w) ==
  /\ At(w, "recv")
  /\ socket \in down /\ received[socket] = sent[socket]
  /\ GoTo(w, "lock")
  /\ UNCHANGED <<object, network, state, owner, socket, receiveBuffer, starts, seen,
                 received, handled>>

Work(w) == Receive(w) \/ Handle(w) \/ ReceiveFails(w)

-----------------------------------------------------------------------------
(***************************************************************************)
(* The SMSC and the network: a connection may end in the middle of a PDU.  *)
(***************************************************************************)
SmscSend ==
  /\ socket # None /\ socket \notin down /\ sent[socket] < MaxParts
  /\ sent' = [sent EXCEPT ![socket] = @ + 1]
  /\ UNCHANGED <<object, state, owner, socket, receiveBuffer, pc, starts, seen, received,
                 down, handled>>

LinkBreaks ==
  /\ socket # None /\ socket \notin down
  /\ down' = down \union {socket}
  /\ \E n \in received[socket]..sent[socket] : sent' = [sent EXCEPT ![socket] = n]
  /\ UNCHANGED <<object, state, owner, socket, receiveBuffer, pc, starts, seen, received,
                 handled>>

Next ==
  \/ Start \/ CreateWorker \/ Bind \/ GetState \/ CallDestroy \/ DestroyNext
  \/ \E t \in Thread : SetState(t)
  \/ \E w \in Worker : Work(w)
  \/ SmscSend \/ LinkBreaks

Spec == Init /\ [][Next]_vars

-----------------------------------------------------------------------------
(***************************************************************************)
(* Properties.                                                             *)
(***************************************************************************)
\* Every variable has its type, and a thread is inside set_state iff it owns
\* the mutex.
TypeOK ==
  /\ resources \subseteq Created
  /\ state \in {"UNDEFINED", "OPENED", "CLOSED"}
  /\ seen \in {"UNDEFINED", "OPENED", "CLOSED"}
  /\ socket \in {None} \union Worker
  /\ \A t \in Thread : owner = t <=> pc[t] \in {"store", "unlock"}
  /\ \A w \in Worker : received[w] \in 0..sent[w]

Running(w) == pc[w] \in {"recv", "handle"}

(***************************************************************************)
(* A session that is started again has one receiver, the worker of its     *)
(* last start: the old worker has left its loop, whatever it still has to  *)
(* do, so that the two do not share the new socket and the buffer.         *)
(***************************************************************************)
OneReceiver ==
  \A w \in Worker : Running(w) => w = Len(starts) /\ socket = w

(***************************************************************************)
(* A worker stores CLOSED for its own connection: the OPENED of a later    *)
(* start is never overwritten by a worker that is late.                    *)
(***************************************************************************)
ClosesItsOwn ==
  [][state' = "CLOSED" /\ state # "CLOSED" =>
       \E w \in Worker : At(w, "store") /\ w = Len(starts) /\ w \in down]_vars

Whole(pdu) ==
  /\ pdu[1].connection = pdu[2].connection
  /\ pdu[1].part % 2 = 1 /\ pdu[2].part = pdu[1].part + 1

(***************************************************************************)
(* As long as no connection ended inside a PDU, the PDUs handled are those *)
(* that were sent, and each connection begins with an empty buffer.  After *)
(* one that did, the next start finds the rest in receiveBuffer.           *)
(***************************************************************************)
WholeUnlessCut ==
  (\A c \in down : sent[c] % 2 = 0) =>
    /\ \A n \in DOMAIN handled : Whole(handled[n])
    /\ \A c \in down : received[c] = sent[c] /\ pc[c] = "ended" =>
         Cardinality({n \in DOMAIN handled : handled[n][1].connection = c}) = sent[c] \div 2

(***************************************************************************)
(* A start whose worker could not be created leaves a session that is      *)
(* OPENED and stays so: no worker of an earlier start closes it, and a     *)
(* wait for any other state does not end.                                  *)
(***************************************************************************)
UnreadStaysOpened ==
  \A n \in DOMAIN starts :
    n = Len(starts) /\ starts[n] = "ERROR_NONE" /\ At(n, "none") => state = "OPENED"

\* What a worker uses from a statement to the next.
Uses(statement) ==
  CASE statement = "recv" -> {"session", "receiveBuffer"}
    [] statement = "handle" -> {"session", "receiveBuffer", "sendMutex", "sendBuffer"}
    [] statement \in {"lock", "unlock"} -> {"session", "stateMutex"}
    [] statement = "store" -> {"session"}
    [] statement = "broadcast" -> {"session", "stateCondition"}
    [] statement \in {"none", "ended"} -> {}

(***************************************************************************)
(* What a worker uses is there: it receives, handles PDUs, stores CLOSED,  *)
(* and unlocks and broadcasts behind that store, in a session that is not  *)
(* destroyed.  The demo expects this of the library: it calls              *)
(* as_smpp_session_destroy with a session that is bound.                   *)
(***************************************************************************)
WorkerHasSession == \A w \in Worker : Uses(pc[w]) \subseteq resources
=============================================================================
