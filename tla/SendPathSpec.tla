---------------------------- MODULE SendPathSpec ----------------------------
(***************************************************************************)
(* What the send functions of smpp.c promise, without the mutex and the    *)
(* shared buffer: a call puts its PDU on the wire in one step, whole, and  *)
(* requests are numbered in the order in which they go out.                *)
(***************************************************************************)
EXTENDS Integers, Sequences

CONSTANTS
  Thread,                \* the threads that send
  Request,               \* the operations numbered by the session
  Answer,                \* the operations numbered by the peer
  PeerSeqNo,             \* the numbers the peer gives to its requests
  Pdu(_, _, _),          \* the PDU of an operation, a thread and a number
  Successor(_, _)        \* the number that follows one given to an operation

VARIABLES
  wire,                  \* what was handed to the network, send by send
  nextNo,                \* the number of the next request
  linkUp                 \* the connection carries data

vars == <<wire, nextNo, linkUp>>

Init ==
  /\ wire = <<>>
  /\ nextNo = 1
  /\ linkUp = TRUE

\* A PDU goes out whole, or breaks off together with the connection, or is
\* lost because the connection is gone.
Transmit(op, t, n) ==
  \/ /\ linkUp
     /\ wire' = Append(wire, [op |-> op, by |-> t, seqNo |-> n, cells |-> Pdu(op, t, n)])
     /\ UNCHANGED linkUp
  \/ /\ linkUp
     /\ \E k \in 0..Len(Pdu(op, t, n)) :
          wire' = Append(wire, [op |-> op, by |-> t, seqNo |-> n,
                                cells |-> SubSeq(Pdu(op, t, n), 1, k)])
     /\ linkUp' = FALSE
  \/ /\ ~linkUp
     /\ UNCHANGED <<wire, linkUp>>

SendRequest(op, t) ==
  /\ Transmit(op, t, nextNo)
  /\ nextNo' = Successor(op, nextNo)

SendAnswer(op, t, n) ==
  /\ Transmit(op, t, n)
  /\ UNCHANGED nextNo

LinkBreaks ==
  /\ linkUp' = FALSE
  /\ UNCHANGED <<wire, nextNo>>

Next ==
  \/ \E op \in Request, t \in Thread : SendRequest(op, t)
  \/ \E op \in Answer, t \in Thread, n \in PeerSeqNo : SendAnswer(op, t, n)
  \/ LinkBreaks

Spec == Init /\ [][Next]_vars

=============================================================================
