------------------------------ MODULE MapSpec -------------------------------
(***************************************************************************)
(* What the map of core.h promises: a finite map from keys to values, in   *)
(* which a key is added once, and which says of a key whether it is there. *)
(* An operation and its reply are one step.                                *)
(***************************************************************************)
EXTENDS FiniteSets

CONSTANTS
  Data,       \* the contents of keys and of values
  NULL        \* the reply of get that found nothing

VARIABLES
  map,        \* the values of the keys that are in the map
  reply       \* the last call and what it returned

vars == <<map, reply>>

Without(k) == [j \in DOMAIN map \ {k} |-> map[j]]
With(k, v) == [j \in DOMAIN map \union {k} |-> IF j = k THEN v ELSE map[j]]

Reply(op, key, result) == [op |-> op, key |-> key, result |-> result]
NoReply == Reply("init", NULL, NULL)

Init ==
  /\ map = [k \in {} |-> NULL]
  /\ reply = NoReply

Add(k, v) ==
  \/ /\ k \in DOMAIN map
     /\ reply' = Reply("add", k, "DUPLICATE")
     /\ UNCHANGED map
  \/ /\ k \notin DOMAIN map
     /\ map' = With(k, v)
     /\ reply' = Reply("add", k, "NONE")

Remove(k) ==
  \/ /\ k \notin DOMAIN map
     /\ reply' = Reply("remove", k, "NOT_FOUND")
     /\ UNCHANGED map
  \/ /\ k \in DOMAIN map
     /\ map' = Without(k)
     /\ reply' = Reply("remove", k, "NONE")

Get(k) ==
  /\ reply' = Reply("get", k, IF k \in DOMAIN map THEN map[k] ELSE NULL)
  /\ UNCHANGED map

Next == \E k \in Data : Remove(k) \/ Get(k) \/ \E v \in Data : Add(k, v)

Spec == Init /\ [][Next]_vars
=============================================================================
