------------------------- MODULE SessionStateProofs -------------------------
(***************************************************************************)
(* Theorems about SessionState, for any sets of threads and of states.     *)
(*                                                                         *)
(* The inductive invariant adds to the properties the two facts they rest  *)
(* on: stateMutex excludes the critical sections of set_state and of       *)
(* wait_for_state from each other, and only a thread in cnd_wait sleeps.   *)
(***************************************************************************)
EXTENDS SessionState, TLAPS

Inv ==
  /\ TypeOK
  /\ MutualExclusion
  /\ SleepersWait
  /\ WaitEndsInState
  /\ NoLostWakeup

\* A new session satisfies the invariant: nobody runs and the mutex is free.
LEMMA InitInv == Init => Inv
<1> SUFFICES ASSUME Init PROVE Inv
  OBVIOUS
<1> USE StateAssumption, ThreadAssumption DEF Init, Thread
<1>1. TypeOK
  BY DEF TypeOK
<1>2. MutualExclusion /\ SleepersWait
  BY DEF MutualExclusion, SleepersWait, Holding
<1>3. WaitEndsInState /\ NoLostWakeup
  BY DEF WaitEndsInState, NoLostWakeup
<1>4. QED
  BY <1>1, <1>2, <1>3 DEF Inv

-----------------------------------------------------------------------------
\* Every step of as_smpp_session_set_state preserves the invariant.
LEMMA SetInv ==
  ASSUME Inv, NEW t \in Setter, Set(t)
  PROVE  Inv'
<1> USE StateAssumption, ThreadAssumption DEF Thread, Inv, Goto
<1> USE DEF TypeOK, MutualExclusion, SleepersWait, WaitEndsInState, NoLostWakeup
<1> USE DEF Holding, SetPC, WaitPC
<1>1. CASE SetCall(t)
  BY <1>1 DEF SetCall
<1>2. CASE SetLock(t)
  BY <1>2 DEF SetLock, Lock
<1>3. CASE SetWrite(t)
  \* The writer is there for the sleepers, and holds the mutex no waiter at
  \* its wait_unlock can hold.
  BY <1>3 DEF SetWrite
<1>4. CASE SetUnlock(t)
  BY <1>4 DEF SetUnlock, Unlock
<1>5. CASE SetSignal(t)
  BY <1>5 DEF SetSignal, SignalAll
<1>6. QED
  BY <1>1, <1>2, <1>3, <1>4, <1>5 DEF Set

\* Every step of as_smpp_session_wait_for_state preserves the invariant.
LEMMA WaitInv ==
  ASSUME Inv, NEW t \in Waiter, Wait(t)
  PROVE  Inv'
<1> USE StateAssumption, ThreadAssumption DEF Thread, Inv, Goto
<1> USE DEF TypeOK, MutualExclusion, SleepersWait, WaitEndsInState, NoLostWakeup
<1> USE DEF Holding, SetPC, WaitPC
<1>1. CASE WaitCall(t)
  BY <1>1 DEF WaitCall
<1>2. CASE WaitLock(t)
  BY <1>2 DEF WaitLock, Lock
<1>3. CASE WaitFound(t)
  BY <1>3 DEF WaitFound
<1>4. CASE WaitSleep(t)
  \* It falls asleep only in a state it does not await.
  BY <1>4 DEF WaitSleep, Unlock
<1>5. CASE WaitSpurious(t)
  BY <1>5 DEF WaitSpurious
<1>6. CASE WaitWake(t)
  BY <1>6 DEF WaitWake, Lock
<1>7. CASE WaitUnlock(t)
  BY <1>7 DEF WaitUnlock, Unlock
<1>8. CASE WaitSignal(t)
  BY <1>8 DEF WaitSignal, SignalAll
<1>9. QED
  BY <1>1, <1>2, <1>3, <1>4, <1>5, <1>6, <1>7, <1>8 DEF Wait

-----------------------------------------------------------------------------
\* The invariant holds in every reachable state, whoever runs and however the
\* threads of set_state and wait_for_state interleave.
THEOREM Invariance == Spec => []Inv
<1>1. Init => Inv
  BY InitInv
<1>2. Inv /\ [Next]_vars => Inv'
  <2> SUFFICES ASSUME Inv, [Next]_vars PROVE Inv'
    OBVIOUS
  <2>1. CASE \E t \in Setter : Set(t)
    BY <2>1, SetInv
  <2>2. CASE \E t \in Waiter : Wait(t)
    BY <2>2, WaitInv
  <2>3. CASE UNCHANGED vars
    BY <2>3 DEF vars, Inv, TypeOK, MutualExclusion, SleepersWait,
                WaitEndsInState, NoLostWakeup
  <2>4. QED
    BY <2>1, <2>2, <2>3 DEF Next
<1>3. QED
  BY <1>1, <1>2, PTL DEF Spec

\* The variables of the session state keep their types.
THEOREM TypeCorrect == Spec => []TypeOK
<1>1. Inv => TypeOK
  BY DEF Inv
<1>2. QED
  BY <1>1, Invariance, PTL

\* as_smpp_session_wait_for_state returns in the awaited state only, with any
\* number of threads that wait and that set the state.
THEOREM WaitCorrect == Spec => []WaitEndsInState
<1>1. Inv => WaitEndsInState
  BY DEF Inv
<1>2. QED
  BY <1>1, Invariance, PTL

\* The broadcast after the unlock of set_state loses no wake-up: a thread that
\* sleeps although its state is there has a broadcast coming.
THEOREM WakeupsCorrect == Spec => []NoLostWakeup
<1>1. Inv => NoLostWakeup
  BY DEF Inv
<1>2. QED
  BY <1>1, Invariance, PTL

-----------------------------------------------------------------------------
(***************************************************************************)
(* The refinement of the atomic state.  set_state takes effect at its      *)
(* store, a wait ends where the loop of wait_for_state finds the state.    *)
(***************************************************************************)
\* Each step of as_smpp_session_set_state is an atomic SetState or a stutter.
LEMMA SetRefines ==
  ASSUME Inv, NEW t \in Setter, Set(t)
  PROVE  Abstract!Next \/ UNCHANGED Abstract!vars
<1> USE StateAssumption, ThreadAssumption DEF Thread, Inv, TypeOK, Goto
<1>1. CASE SetWrite(t)
  <2>1. state' \in State
    BY <1>1 DEF SetWrite
  <2>2. awaiting' = awaiting
    BY <1>1 DEF SetWrite, awaiting, Blocked
  <2>3. QED
    BY <2>1, <2>2 DEF Abstract!Next, Abstract!SetState
<1>2. CASE SetCall(t) \/ SetLock(t) \/ SetUnlock(t) \/ SetSignal(t)
  <2>1. state' = state
    BY <1>2 DEF SetCall, SetLock, SetUnlock, SetSignal
  <2>2. awaiting' = awaiting
    BY <1>2 DEF SetCall, SetLock, SetUnlock, SetSignal, awaiting, Blocked
  <2>3. QED
    BY <2>1, <2>2 DEF Abstract!vars
<1>3. QED
  BY <1>1, <1>2 DEF Set

\* Each step of as_smpp_session_wait_for_state begins an atomic wait, ends one,
\* or is a stutter.
LEMMA WaitRefines ==
  ASSUME Inv, NEW t \in Waiter, Wait(t)
  PROVE  Abstract!Next \/ UNCHANGED Abstract!vars
<1> USE StateAssumption, ThreadAssumption DEF Thread, Inv, TypeOK, Goto
<1>1. CASE WaitCall(t)
  <2>1. awaiting[t] = None
    BY <1>1 DEF WaitCall, awaiting, Blocked
  <2>2. \E s \in State : awaiting' = [awaiting EXCEPT ![t] = s]
    BY <1>1 DEF WaitCall, awaiting, Blocked
  <2>3. state' = state
    BY <1>1 DEF WaitCall
  <2>4. QED
    BY <2>1, <2>2, <2>3 DEF Abstract!Next, Abstract!CallWait
<1>2. CASE WaitFound(t)
  <2>1. awaiting[t] = state
    BY <1>2 DEF WaitFound, awaiting, Blocked
  <2>2. awaiting' = [awaiting EXCEPT ![t] = None]
    BY <1>2 DEF WaitFound, awaiting, Blocked
  <2>3. state' = state
    BY <1>2 DEF WaitFound
  <2>4. QED
    BY <2>1, <2>2, <2>3 DEF Abstract!Next, Abstract!EndWait
<1>3. CASE \/ WaitLock(t) \/ WaitSleep(t) \/ WaitSpurious(t)
           \/ WaitWake(t) \/ WaitUnlock(t) \/ WaitSignal(t)
  <2>1. state' = state
    BY <1>3 DEF WaitLock, WaitSleep, WaitSpurious, WaitWake, WaitUnlock, WaitSignal
  <2>2. awaiting' = awaiting
    BY <1>3 DEF WaitLock, WaitSleep, WaitSpurious, WaitWake, WaitUnlock,
                WaitSignal, awaiting, Blocked
  <2>3. QED
    BY <2>1, <2>2 DEF Abstract!vars
<1>4. QED
  BY <1>1, <1>2, <1>3 DEF Wait

\* session.c implements a state that changes, and that waits observe, in one step.
THEOREM Refinement == Spec => ImplementsAtomicState
<1>1. Init => Abstract!Init
  BY DEF Init, Abstract!Init, awaiting, Blocked
<1>2. Inv /\ [Next]_vars => [Abstract!Next]_(Abstract!vars)
  <2> SUFFICES ASSUME Inv, [Next]_vars
               PROVE  Abstract!Next \/ UNCHANGED Abstract!vars
    OBVIOUS
  <2>1. CASE \E t \in Setter : Set(t)
    BY <2>1, SetRefines
  <2>2. CASE \E t \in Waiter : Wait(t)
    BY <2>2, WaitRefines
  <2>3. CASE UNCHANGED vars
    BY <2>3 DEF vars, Abstract!vars, awaiting, Blocked
  <2>4. QED
    BY <2>1, <2>2, <2>3 DEF Next
<1>3. QED
  BY <1>1, <1>2, Invariance, PTL DEF Spec, ImplementsAtomicState, Abstract!Spec

=============================================================================
