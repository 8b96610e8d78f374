----------------------------- MODULE MCSendPath -----------------------------
(***************************************************************************)
(* A small instance of SendPath.  The body of a submit_sm is longer than   *)
(* that of the others, so that a shorter PDU always has stale data behind  *)
(* it, and the initial buffer is too short for the longest PDU.            *)
(***************************************************************************)
EXTENDS SendPath, TLC

CONSTANTS main, other, worker

MCApp == {main, other}

MCBodyLen ==
  [op \in Op |-> CASE op = "bind" -> 1
                   [] op = "submit_sm" -> 2
                   [] op = "deliver_sm_resp" -> 1
                   [] op = "enquire_link_resp" -> 0]

\* The numbers of the SMSC may coincide with the session's own.
MCPeerSeqNo == {2}

=============================================================================
