--------------------------- MODULE MCEsmeSession ----------------------------
(***************************************************************************)
(* A small instance of EsmeSession: the thread that starts the session and *)
(* another one, and an application that has set every handler.             *)
(***************************************************************************)
EXTENDS EsmeSession

CONSTANTS main, other

MCApp == {main, other}

MCHandlers == {"bind_resp", "submit_sm_resp", "deliver_sm"}

\* As the demo does: a wait for another state lets a thread do nothing new.
MCAwaited == {"bound", "closed"}

=============================================================================
