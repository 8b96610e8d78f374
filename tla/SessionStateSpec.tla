-------------------------- MODULE SessionStateSpec --------------------------
(***************************************************************************)
(* What the session state promises to its users, without the mutex and the *)
(* condition variable that implement it: a value that changes in one step, *)
(* and a wait that ends in a step in which the value is the awaited one.   *)
(***************************************************************************)
CONSTANTS
  Thread,       \* the threads that use the session
  State,        \* the values of t_as_smpp_session_state
  Initial,      \* the state of a session that was just created
  None          \* "awaits nothing"

VARIABLES
  state,        \* the session state
  awaiting      \* the state each thread is blocked for, or None

vars == <<state, awaiting>>

Init ==
  /\ state = Initial
  /\ awaiting = [t \in Thread |-> None]

\* The state changes, at once for everybody.
SetState ==
  /\ state' \in State
  /\ UNCHANGED awaiting

\* Thread t calls as_smpp_session_wait_for_state.
CallWait(t) ==
  /\ awaiting[t] = None
  /\ \E s \in State : awaiting' = [awaiting EXCEPT ![t] = s]
  /\ UNCHANGED state

\* The wait of thread t ends; it does only while its state is the current one.
EndWait(t) ==
  /\ awaiting[t] = state
  /\ awaiting' = [awaiting EXCEPT ![t] = None]
  /\ UNCHANGED state

Next ==
  \/ SetState
  \/ \E t \in Thread : CallWait(t) \/ EndWait(t)

Spec == Init /\ [][Next]_vars

=============================================================================
