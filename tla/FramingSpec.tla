---------------------------- MODULE FramingSpec -----------------------------
(***************************************************************************)
(* What the receive path promises, without octets and buffers: the worker  *)
(* handles the PDUs that the SMSC sends, each once and in their order, and *)
(* the session is closed when the connection is gone and what arrived of   *)
(* it was handled.                                                         *)
(***************************************************************************)
EXTENDS Integers, Sequences

VARIABLES
  sent,         \* what the SMSC sent
  handled,      \* what the worker handled
  lost,         \* which of the sent PDUs were lost with the connection
  linkUp,       \* the connection carries data
  closed        \* the session is in the state CLOSED

vars == <<sent, handled, lost, linkUp, closed>>

Init ==
  /\ sent = <<>>
  /\ handled = <<>>
  /\ lost = {}
  /\ linkUp = TRUE
  /\ closed = FALSE

Send ==
  /\ linkUp
  /\ Len(sent') = Len(sent) + 1
  /\ \A i \in DOMAIN sent : sent'[i] = sent[i]
  /\ UNCHANGED <<handled, lost, linkUp, closed>>

Handle ==
  /\ ~closed
  /\ Len(handled) + 1 \in DOMAIN sent \ lost
  /\ handled' = Append(handled, sent[Len(handled) + 1])
  /\ UNCHANGED <<sent, lost, linkUp, closed>>

\* Some of the last PDUs are lost, none that was handled.
LinkBreaks ==
  /\ linkUp
  /\ linkUp' = FALSE
  /\ lost' \in SUBSET (DOMAIN sent \ DOMAIN handled)
  /\ \A i, j \in DOMAIN sent : i \in lost' /\ i < j => j \in lost'
  /\ UNCHANGED <<sent, handled, closed>>

Close ==
  /\ ~linkUp
  /\ DOMAIN sent = DOMAIN handled \cup lost
  /\ closed' = TRUE
  /\ UNCHANGED <<sent, handled, lost, linkUp>>

Next == Send \/ Handle \/ LinkBreaks \/ Close

Spec == Init /\ [][Next]_vars

=============================================================================
