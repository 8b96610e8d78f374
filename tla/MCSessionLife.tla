--------------------------- MODULE MCSessionLife ----------------------------
(***************************************************************************)
(* Three starts of a session, so that a worker may be late by two of them, *)
(* on connections of up to three parts.                                    *)
(***************************************************************************)
EXTENDS SessionLife
=============================================================================
