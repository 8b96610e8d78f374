------------------------------- MODULE MCMap --------------------------------
(***************************************************************************)
(* Keys over an even and an odd hash, one of them in a cell of the caller, *)
(* and values passed directly and in a cell; one key is added with two     *)
(* values.  Four live nodes: enough for a removed node with two children,  *)
(* one of which has a child on the side where the other is to be hung.     *)
(***************************************************************************)
EXTENDS Map, TLC

CONSTANTS k1, v1, n1, n2, n3, n4

MCData == 0..7
MCHash == [d \in MCData |-> d % 2]
MCCells == {k1, v1}
MCContents == [c \in MCCells |-> IF c = k1 THEN {6, 7} ELSE {0, 3}]
MCNodes == {n1, n2, n3, n4}

Scalar(d) == [type |-> "SCALAR", value |-> d]
Ptr(c) == [type |-> "PTR", value |-> c]
Entry(k, v) == [key |-> k, value |-> v]
MCEntries ==
  {Entry(Scalar(d), Scalar(d % 4)) : d \in 0..5}
    \union {Entry(Scalar(2), Ptr(v1)), Entry(Ptr(k1), Ptr(v1)), Entry(Ptr(k1), Scalar(1))}

MCSymmetry == Permutations(MCNodes)
=============================================================================
