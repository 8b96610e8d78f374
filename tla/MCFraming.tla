------------------------------ MODULE MCFraming -----------------------------
(***************************************************************************)
(* A small instance of Framing: a chunk can hold a part of a PDU, the rest *)
(* of one and the beginning of the next, or, with what was left over, two  *)
(* whole PDUs; the buffer has to grow, and more than once.                 *)
(***************************************************************************)
EXTENDS Framing

MCPduLen == {3, 6}

=============================================================================
