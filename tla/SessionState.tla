---------------------------- MODULE SessionState ----------------------------
(***************************************************************************)
(* The session state of session.c: the field session->state, the mutex     *)
(* stateMutex and the condition variable stateCondition.                   *)
(*                                                                         *)
(* as_smpp_session_set_state is called by the application thread that      *)
(* connects (OPENED) and by the receive worker (BOUND_*, CLOSED);          *)
(* as_smpp_session_wait_for_state by any application thread.  Each         *)
(* statement that another thread can observe is a step: the mutex is a     *)
(* plain C11 mutex, and as_smpp_condition_wait is cnd_wait, which releases *)
(* it and falls asleep in one step and may return without a signal.        *)
(***************************************************************************)
CONSTANTS
  Setter,       \* threads that call as_smpp_session_set_state
  Waiter,       \* threads that call as_smpp_session_wait_for_state
  State,        \* the values of t_as_smpp_session_state
  Undefined,    \* AS_SMPP_SESSION_STATE_UNDEFINED
  None          \* the owner of a free mutex; the argument of an idle thread

Thread == Setter \cup Waiter

ASSUME StateAssumption == Undefined \in State /\ None \notin State
ASSUME ThreadAssumption == None \notin Thread

VARIABLES
  state,        \* session->state
  stateMutex,   \* the thread that holds session->stateMutex, or None
  asleep,       \* the threads blocked on session->stateCondition
  pc,           \* where each thread is in the function it runs
  arg           \* a_state of the function each thread runs, None when idle

vars == <<state, stateMutex, asleep, pc, arg>>

Goto(t, from, to) ==
  /\ pc[t] = from
  /\ pc' = [pc EXCEPT ![t] = to]

\* as_smpp_mutex_lock and as_smpp_mutex_unlock of stateMutex.
Lock(t) ==
  /\ stateMutex = None
  /\ stateMutex' = t

Unlock(t) ==
  /\ stateMutex = t
  /\ stateMutex' = None

\* Mutant of SignalAll: cnd_signal in place of cnd_broadcast.
SignalOne ==
  IF asleep = {} THEN asleep' = {} ELSE \E t \in asleep : asleep' = asleep \ {t}

\* as_smpp_condition_signal_all: nobody sleeps on the condition any more.
SignalAll == asleep' = {}

Init ==
  /\ state = Undefined
  /\ stateMutex = None
  /\ asleep = {}
  /\ pc = [t \in Thread |-> "idle"]
  /\ arg = [t \in Thread |-> None]

-----------------------------------------------------------------------------
(***************************************************************************)
(* as_smpp_session_set_state.  No caller passes UNDEFINED.                 *)
(***************************************************************************)
SetCall(t) ==
  /\ Goto(t, "idle", "set_lock")
  /\ \E s \in State \ {Undefined} : arg' = [arg EXCEPT ![t] = s]
  /\ UNCHANGED <<state, stateMutex, asleep>>

SetLock(t) ==
  /\ Goto(t, "set_lock", "set_write")
  /\ Lock(t)
  /\ UNCHANGED <<state, asleep, arg>>

SetWrite(t) ==
  /\ Goto(t, "set_write", "set_unlock")
  /\ state' = arg[t]
  /\ UNCHANGED <<stateMutex, asleep, arg>>

SetUnlock(t) ==
  /\ Goto(t, "set_unlock", "set_signal")
  /\ Unlock(t)
  /\ UNCHANGED <<state, asleep, arg>>

\* Mutant of SetSignal: no broadcast.
SetSignalNobody(t) ==
  /\ Goto(t, "set_signal", "idle")
  /\ arg' = [arg EXCEPT ![t] = None]
  /\ UNCHANGED <<state, stateMutex, asleep>>

\* The broadcast follows the unlock: another thread may run in between.
SetSignal(t) ==
  /\ Goto(t, "set_signal", "idle")
  /\ SignalAll
  /\ arg' = [arg EXCEPT ![t] = None]
  /\ UNCHANGED <<state, stateMutex>>

-----------------------------------------------------------------------------
(***************************************************************************)
(* as_smpp_session_wait_for_state.                                         *)
(***************************************************************************)
WaitCall(t) ==
  /\ Goto(t, "idle", "wait_lock")
  /\ \E s \in State : arg' = [arg EXCEPT ![t] = s]
  /\ UNCHANGED <<state, stateMutex, asleep>>

WaitLock(t) ==
  /\ Goto(t, "wait_lock", "wait_check")
  /\ Lock(t)
  /\ UNCHANGED <<state, asleep, arg>>

\* Mutant of WaitFound: any state but the initial one ends the wait.
WaitFoundOther(t) ==
  /\ state \in {arg[t]} \cup (State \ {Undefined})
  /\ Goto(t, "wait_check", "wait_unlock")
  /\ UNCHANGED <<state, stateMutex, asleep, arg>>

\* The loop condition is false: leave the loop.
WaitFound(t) ==
  /\ state = arg[t]
  /\ Goto(t, "wait_check", "wait_unlock")
  /\ UNCHANGED <<state, stateMutex, asleep, arg>>

\* The loop condition is true: cnd_wait gives the mutex up and sleeps.
WaitSleep(t) ==
  /\ state # arg[t]
  /\ Goto(t, "wait_check", "wait_sleep")
  /\ Unlock(t)
  /\ asleep' = asleep \cup {t}
  /\ UNCHANGED <<state, arg>>

\* cnd_wait wakes up without a signal.
WaitSpurious(t) ==
  /\ t \in asleep
  /\ asleep' = asleep \ {t}
  /\ UNCHANGED <<state, stateMutex, pc, arg>>

\* Mutant of WaitWake: an if in place of the while.
WaitWakeNoLoop(t) ==
  /\ t \notin asleep
  /\ Goto(t, "wait_sleep", "wait_unlock")
  /\ Lock(t)
  /\ UNCHANGED <<state, asleep, arg>>

\* cnd_wait returns once it has the mutex again, and the loop goes round.
WaitWake(t) ==
  /\ t \notin asleep
  /\ Goto(t, "wait_sleep", "wait_check")
  /\ Lock(t)
  /\ UNCHANGED <<state, asleep, arg>>

WaitUnlock(t) ==
  /\ Goto(t, "wait_unlock", "wait_signal")
  /\ Unlock(t)
  /\ UNCHANGED <<state, asleep, arg>>

\* A waiter that is done wakes every other one.
WaitSignal(t) ==
  /\ Goto(t, "wait_signal", "idle")
  /\ SignalAll
  /\ arg' = [arg EXCEPT ![t] = None]
  /\ UNCHANGED <<state, stateMutex>>

-----------------------------------------------------------------------------
Set(t) == SetCall(t) \/ SetLock(t) \/ SetWrite(t) \/ SetUnlock(t) \/ SetSignal(t)

Wait(t) ==
  \/ WaitCall(t) \/ WaitLock(t) \/ WaitFound(t) \/ WaitSleep(t)
  \/ WaitSpurious(t) \/ WaitWake(t) \/ WaitUnlock(t) \/ WaitSignal(t)

Next ==
  \/ \E t \in Setter : Set(t)
  \/ \E t \in Waiter : Wait(t)

(***************************************************************************)
(* A thread that was called runs on, and a mutex that is free again and    *)
(* again is granted to every thread that asks for it.  Nothing obliges a   *)
(* thread to make a call, nor cnd_wait to wake up by itself.               *)
(***************************************************************************)
Fairness ==
  /\ \A t \in Setter :
       /\ SF_vars(SetLock(t))
       /\ WF_vars(SetWrite(t) \/ SetUnlock(t) \/ SetSignal(t))
  /\ \A t \in Waiter :
       /\ SF_vars(WaitLock(t)) /\ SF_vars(WaitWake(t))
       /\ WF_vars(WaitFound(t) \/ WaitSleep(t) \/ WaitUnlock(t) \/ WaitSignal(t))

Spec == Init /\ [][Next]_vars

FairSpec == Spec /\ Fairness

-----------------------------------------------------------------------------
(***************************************************************************)
(* Properties.                                                             *)
(***************************************************************************)
SetPC  == {"set_lock", "set_write", "set_unlock", "set_signal"}
WaitPC == {"wait_lock", "wait_check", "wait_sleep", "wait_unlock", "wait_signal"}

\* The points of the two functions at which the calling thread holds stateMutex.
Holding == {"set_write", "set_unlock", "wait_check", "wait_unlock"}

\* Every variable has its type, and an argument is there during a call only.
TypeOK ==
  /\ state \in State
  /\ stateMutex \in Thread \cup {None}
  /\ asleep \in SUBSET Waiter
  /\ pc \in [Thread -> {"idle"} \cup SetPC \cup WaitPC]
  /\ arg \in [Thread -> State \cup {None}]
  /\ \A t \in Thread : arg[t] = None <=> pc[t] = "idle"

\* stateMutex is held by the thread that runs a critical section, and by no other.
MutualExclusion ==
  \A t \in Thread : pc[t] \in Holding <=> stateMutex = t

\* Only a thread inside cnd_wait sleeps on the condition.
SleepersWait == \A t \in asleep : pc[t] = "wait_sleep"

(***************************************************************************)
(* as_smpp_session_wait_for_state leaves its loop only while the state is  *)
(* the awaited one, and it stays so until the mutex is released: neither   *)
(* a set_state of another thread nor a wake-up meant for another waiter    *)
(* can end the wait early.                                                 *)
(***************************************************************************)
WaitEndsInState ==
  \A t \in Waiter : pc[t] = "wait_unlock" => state = arg[t]

(***************************************************************************)
(* No wake-up is lost although set_state broadcasts after the unlock: if a *)
(* thread sleeps while the state is the one it awaits, the set_state that  *)
(* stored this state has its broadcast still ahead.                        *)
(***************************************************************************)
NoLostWakeup ==
  \A t \in asleep :
    state = arg[t] => \E u \in Setter : pc[u] \in {"set_unlock", "set_signal"}

\* The points at which the wait of a thread has not ended.
Blocked(t) == pc[t] \in {"wait_lock", "wait_check", "wait_sleep"}

(***************************************************************************)
(* A wait for a state in which the session stays ends.  (A state in which  *)
(* the session does not stay may be missed: the code compares with the     *)
(* current state only, so a wait for BOUND_TRX can sleep through BOUND_TRX *)
(* followed by CLOSED.)                                                    *)
(***************************************************************************)
StableStateEndsWait ==
  \A t \in Waiter, s \in State : []<>~(Blocked(t) /\ arg[t] = s /\ state = s)

(***************************************************************************)
(* session.c implements the atomic state of SessionStateSpec: set_state    *)
(* takes effect where it stores the state, and a wait ends where it finds  *)
(* the awaited state, with the mutex held.                                 *)
(***************************************************************************)
awaiting == [t \in Thread |-> IF Blocked(t) THEN arg[t] ELSE None]

Abstract == INSTANCE SessionStateSpec WITH Initial <- Undefined

ImplementsAtomicState == Abstract!Spec

=============================================================================
