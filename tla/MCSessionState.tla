--------------------------- MODULE MCSessionState ---------------------------
(***************************************************************************)
(* A small instance of SessionState: the two threads that set the state    *)
(* (the connecting one and the receive worker) and two that wait.          *)
(***************************************************************************)
EXTENDS SessionState

CONSTANTS main, worker, w1, w2, opened, bound

MCSetter == {main, worker}
MCWaiter == {w1, w2}
MCState == {Undefined, opened, bound}
=============================================================================
