------------------------- MODULE SessionLifeProofs --------------------------
(***************************************************************************)
(* Proofs about SessionLife, for any number of starts.                     *)
(***************************************************************************)
EXTENDS SessionLife, SequenceTheorems, FiniteSetTheorems, TLAPS

States == {"UNDEFINED", "OPENED", "CLOSED"}
Results == {"running", "ERROR_NET", "ERROR_NONE"}
InSetState == {"lock", "store", "unlock", "broadcast"}
AppStatements == {"idle", "create", "bind", "destroy", "gone"} \union InSetState
WorkerStatements == {"none", "recv", "handle", "ended"} \union InSetState

Types ==
  /\ resources \subseteq Created
  /\ state \in States /\ seen \in States
  /\ socket \in {None} \union Worker
  /\ owner \in {None} \union Thread
  /\ pc \in [Thread -> AppStatements \union WorkerStatements]
  /\ pc[App] \in AppStatements
  /\ \A w \in Worker : pc[w] \in WorkerStatements
  /\ starts \in Seq(Results) /\ Len(starts) <= MaxStarts
  /\ sent \in [Worker -> Nat] /\ received \in [Worker -> Nat]
  /\ \A w \in Worker : received[w] <= sent[w]

Exclusion == \A t \in Thread : owner = t <=> pc[t] \in {"store", "unlock"}

\* A start made workers only for itself and those before it.
NoneAhead == \A w \in Worker : w > Len(starts) => pc[w] = "none"

\* The worker may still receive, or store CLOSED.
Live(w) == pc[w] \in {"recv", "handle", "lock", "store"}

\* The application is inside a start, before the creation of the worker.
Starting == pc[App] \in {"create"} \union InSetState

StartingAlone ==
  Starting =>
    /\ Len(starts) > 0 /\ socket = Len(starts) /\ starts[Len(starts)] = "running"
    /\ seen = "UNDEFINED"
    /\ \A w \in Worker : ~Live(w)
    /\ \A w \in Worker : pc[w] # "none" => w < Len(starts)
    /\ pc[App] \in {"unlock", "broadcast", "create"} => state = "OPENED"

Started == pc[App] = "bind" => Len(starts) > 0 /\ starts[Len(starts)] = "running"

\* What a live worker goes by; above all that nobody has seen CLOSED.
LiveIsLast ==
  \A w \in Worker : Live(w) =>
    /\ w = Len(starts) /\ socket = w
    /\ starts[w] # "ERROR_NET"
    /\ ~Starting
    /\ state = "OPENED" /\ seen # "CLOSED"
    /\ pc[w] \in {"lock", "store"} => w \in down

\* Nobody reads on the connection of the last start.
Unread ==
  Len(starts) > 0 /\ starts[Len(starts)] # "ERROR_NET" /\ pc[Len(starts)] = "none" /\ ~Starting
    => state = "OPENED"

IInv ==
  /\ Types /\ Exclusion /\ NoneAhead /\ StartingAlone /\ Started /\ LiveIsLast
  /\ Unread

-----------------------------------------------------------------------------
(***************************************************************************)
(* The application is no worker and nobody is None: what the numbers that  *)
(* stand for the threads have to give.                                     *)
(***************************************************************************)
LEMMA Threads ==
  /\ App \in Thread /\ App \notin Worker /\ None \notin Thread
  /\ \A w \in Worker : w \in Thread /\ w \in Nat /\ w # App /\ w <= MaxStarts
  /\ \A t \in Thread : t # App => t \in Worker
  /\ \A n \in 1..MaxStarts : n \in Worker
BY BoundAssumption DEF Thread, Worker, App, None

\* A session begins with no start and no worker.
LEMMA InitInv == Init => IInv
<1> SUFFICES ASSUME Init PROVE IInv
  OBVIOUS
<1>1. Types
  BY Threads, BoundAssumption
  DEF Init, Types, States, Results, AppStatements, WorkerStatements, InSetState, Created
<1>2. Exclusion
  BY Threads DEF Init, Exclusion
<1>3. NoneAhead /\ StartingAlone /\ Started /\ LiveIsLast
  BY Threads DEF Init, NoneAhead, StartingAlone, Started, Starting, InSetState, LiveIsLast, Live
<1>4. Unread
  BY Threads DEF Init, Unread, Live
<1> QED
  BY <1>1, <1>2, <1>3, <1>4 DEF IInv

-----------------------------------------------------------------------------
\* as_smpp_session_set_state: taking the mutex.
LEMMA LockInv ==
  ASSUME IInv, NEW t \in Thread, Lock(t)
  PROVE  IInv'
<1> USE Threads DEF Lock, At, GoTo, object, network
<1>1. Types'
  BY DEF IInv, Types, AppStatements, WorkerStatements, InSetState
<1>2. Exclusion'
  BY DEF IInv, Types, Exclusion
<1>3. NoneAhead' /\ Started'
  BY DEF IInv, Types, NoneAhead, Started
<1>4. StartingAlone'
  BY DEF IInv, Types, StartingAlone, Starting, InSetState, Live
<1>5. LiveIsLast'
  BY DEF IInv, Types, LiveIsLast, Live, Starting, InSetState
<1>6. Unread'
  BY DEF IInv, Types, Unread, Starting, InSetState, StartingAlone, LiveIsLast, Live, Started
<1> QED
  BY <1>1, <1>2, <1>3, <1>4, <1>5, <1>6 DEF IInv

\* Storing OPENED, which no worker can be beside, or CLOSED, after which the
\* worker is live no more.
LEMMA StoreInv ==
  ASSUME IInv, NEW t \in Thread, Store(t)
  PROVE  IInv'
<1> USE Threads, BoundAssumption DEF Store, At, GoTo, object, network
<1>1. Types'
  BY DEF IInv, Types, AppStatements, WorkerStatements, InSetState, States
<1>2. Exclusion'
  BY DEF IInv, Types, Exclusion
<1>3. NoneAhead' /\ Started'
  BY DEF IInv, Types, NoneAhead, Started, StartingAlone, Starting, InSetState
<1>4. StartingAlone'
  BY DEF IInv, Types, StartingAlone, Starting, InSetState, Live, LiveIsLast, NoneAhead
<1>5. LiveIsLast'
  BY DEF IInv, Types, LiveIsLast, Live, StartingAlone, Starting, InSetState, NoneAhead, Started
<1>6. Unread'
  BY DEF IInv, Types, Unread, Starting, InSetState, StartingAlone, LiveIsLast, Live, Started
<1> QED
  BY <1>1, <1>2, <1>3, <1>4, <1>5, <1>6 DEF IInv

\* Releasing the mutex.
LEMMA UnlockInv ==
  ASSUME IInv, NEW t \in Thread, Unlock(t)
  PROVE  IInv'
<1> USE Threads, BoundAssumption DEF Unlock, At, GoTo, object, network
<1>1. Types'
  BY DEF IInv, Types, AppStatements, WorkerStatements, InSetState
<1>2. Exclusion'
  BY DEF IInv, Types, Exclusion
<1>3. NoneAhead' /\ Started'
  BY DEF IInv, Types, NoneAhead, Started, StartingAlone, Starting, InSetState
<1>4. StartingAlone'
  BY DEF IInv, Types, StartingAlone, Starting, InSetState, Live, LiveIsLast, NoneAhead
<1>5. LiveIsLast'
  BY DEF IInv, Types, LiveIsLast, Live, StartingAlone, Starting, InSetState, NoneAhead, Started
<1>6. Unread'
  BY DEF IInv, Types, Unread, Starting, InSetState, StartingAlone, LiveIsLast, Live, Started
<1> QED
  BY <1>1, <1>2, <1>3, <1>4, <1>5, <1>6 DEF IInv

\* The broadcast, after which a worker ends and a start goes on.
LEMMA BroadcastInv ==
  ASSUME IInv, NEW t \in Thread, Broadcast(t)
  PROVE  IInv'
<1> USE Threads, BoundAssumption DEF Broadcast, AfterBroadcast, At, GoTo, object, network
<1>1. Types'
  BY DEF IInv, Types, AppStatements, WorkerStatements, InSetState
<1>2. Exclusion'
  BY DEF IInv, Types, Exclusion
<1>3. NoneAhead' /\ Started'
  BY DEF IInv, Types, NoneAhead, Started, StartingAlone, Starting, InSetState
<1>4. StartingAlone'
  BY DEF IInv, Types, StartingAlone, Starting, InSetState, Live, LiveIsLast, NoneAhead
<1>5. LiveIsLast'
  BY DEF IInv, Types, LiveIsLast, Live, StartingAlone, Starting, InSetState, NoneAhead, Started
<1>6. Unread'
  BY DEF IInv, Types, Unread, Starting, InSetState, StartingAlone, LiveIsLast, Live, Started
<1> QED
  BY <1>1, <1>2, <1>3, <1>4, <1>5, <1>6 DEF IInv

-----------------------------------------------------------------------------
\* A start, which the application makes only when no worker is live.
LEMMA StartInv ==
  ASSUME IInv, Start
  PROVE  IInv'
<1> USE Threads, BoundAssumption DEF Start, MayStart, Failed, At, GoTo, object, network
<1>1. starts \in Seq(Results) /\ Len(starts) \in Nat /\ Len(starts) + 1 \in Worker
  BY DEF IInv, Types, Worker
<1>2. \A w \in Worker : ~Live(w)
  BY DEF IInv, Types, LiveIsLast, Live, Worker
<1>3. ~Starting
  BY DEF Starting, InSetState
<1>4. CASE starts' = Append(starts, "ERROR_NET")
  <2>1. /\ starts' = Append(starts, "ERROR_NET") /\ pc' = pc
        /\ socket' \in {socket, None}
    BY <1>1, <1>4
  <2>2. starts' \in Seq(Results) /\ Len(starts') = Len(starts) + 1
    BY <2>1, <1>1 DEF Results
  <2>3. Types'
    BY <2>1, <2>2, <1>1 DEF IInv, Types, States, Worker
  <2>4. Exclusion' /\ NoneAhead' /\ Started'
    BY <2>1, <2>2, <1>1 DEF IInv, Types, Exclusion, NoneAhead, Started, Worker
  <2>5. StartingAlone' /\ LiveIsLast'
    BY <2>1, <1>2, <1>3 DEF StartingAlone, LiveIsLast, Starting, Live
  <2>6. Unread'
    BY <2>1, <2>2, <1>1, <1>2 DEF IInv, Unread, Live
  <2> QED
    BY <2>3, <2>4, <2>5, <2>6 DEF IInv
<1>5. CASE starts' = Append(starts, "running")
  <2>1. /\ socket' = Len(starts) + 1
        /\ starts' = Append(starts, "running")
        /\ pc' = [pc EXCEPT ![App] = "lock"]
    BY <1>5
  <2>2. /\ starts' \in Seq(Results) /\ Len(starts') = Len(starts) + 1
        /\ starts'[Len(starts) + 1] = "running"
    BY <2>1, <1>1 DEF Results
  <2>3. pc'[App] = "lock" /\ \A w \in Worker : pc'[w] = pc[w]
    BY <2>1 DEF IInv, Types
  <2>4. Types'
    BY <2>1, <2>2, <2>3, <1>1
    DEF IInv, Types, States, Worker, AppStatements, WorkerStatements, InSetState
  <2>5. Exclusion'
    BY <2>1, <2>3 DEF IInv, Types, Exclusion
  <2>6. NoneAhead' /\ Started'
    BY <2>2, <2>3, <1>1 DEF IInv, NoneAhead, Started, Worker
  <2>7. StartingAlone'
    <3>1. \A w \in Worker : ~Live(w)'
      BY <2>3, <1>2 DEF Live
    <3>2. \A w \in Worker : pc'[w] # "none" => w < Len(starts')
      BY <2>2, <2>3, <1>1 DEF IInv, NoneAhead, Worker
    <3> QED
      BY <2>1, <2>2, <2>3, <3>1, <3>2, <1>1 DEF StartingAlone
  <2>8. LiveIsLast'
    BY <2>3, <1>2 DEF LiveIsLast, Live
  <2>9. Unread'
    BY <2>3, <1>2 DEF IInv, Unread, Starting, InSetState, Live
  <2> QED
    BY <2>4, <2>5, <2>6, <2>7, <2>8, <2>9 DEF IInv
<1> QED
  BY <1>4, <1>5

\* The creation of the worker, or its failure.
LEMMA CreateWorkerInv ==
  ASSUME IInv, CreateWorker
  PROVE  IInv'
<1> USE Threads, BoundAssumption DEF CreateWorker, At, GoTo, object, network
<1>0. Len(starts) \in Worker
  BY DEF IInv, Types, StartingAlone, Starting, Worker
<1>1. Types'
  BY <1>0 DEF IInv, Types, AppStatements, WorkerStatements, InSetState
<1>2. Exclusion'
  <2>1. pc[Len(starts)] = "none" /\ pc[App] = "create"
    BY <1>0 DEF IInv, StartingAlone, Starting, Worker
  <2>2. \A t \in Thread :
          \/ pc'[t] = pc[t]
          \/ pc[t] \in {"none", "create"} /\ pc'[t] \in {"recv", "bind"}
    BY <2>1, <1>0 DEF IInv, Types
  <2>3. owner' = owner
    OBVIOUS
  <2> QED
    BY <2>2, <2>3 DEF IInv, Exclusion
<1>3. NoneAhead' /\ Started'
  BY DEF IInv, Types, NoneAhead, Started, StartingAlone, Starting, InSetState
<1>4. StartingAlone'
  BY DEF IInv, Types, StartingAlone, Starting, InSetState, Live, LiveIsLast, NoneAhead
<1>5. LiveIsLast'
  BY DEF IInv, Types, LiveIsLast, Live, StartingAlone, Starting, InSetState, NoneAhead, Started
<1>6. Unread'
  BY DEF IInv, Types, Unread, Starting, InSetState, StartingAlone, LiveIsLast, Live, Started
<1> QED
  BY <1>1, <1>2, <1>3, <1>4, <1>5, <1>6 DEF IInv

\* The end of a start.
LEMMA BindInv ==
  ASSUME IInv, Bind
  PROVE  IInv'
<1> USE Threads, BoundAssumption DEF Bind, At, GoTo, object, network
<1>0. starts' \in Seq(Results) /\ Len(starts') = Len(starts)
  <2>1. starts \in Seq(Results) /\ Len(starts) \in DOMAIN starts
    BY DEF IInv, Types, Started
  <2>2. starts' = [starts EXCEPT ![Len(starts)] = "ERROR_NONE"]
    OBVIOUS
  <2> QED
    BY <2>1, <2>2, ExceptSeq DEF Results
<1>1. Types'
  BY <1>0 DEF IInv, Types, AppStatements, WorkerStatements, InSetState
<1>2. Exclusion'
  BY DEF IInv, Types, Exclusion
<1>3. NoneAhead' /\ Started'
  BY DEF IInv, Types, NoneAhead, Started, StartingAlone, Starting, InSetState
<1>4. StartingAlone'
  BY DEF IInv, Types, StartingAlone, Starting, InSetState, Live, LiveIsLast, NoneAhead
<1>5. LiveIsLast'
  BY DEF IInv, Types, LiveIsLast, Live, StartingAlone, Starting, InSetState, NoneAhead, Started
<1>6. Unread'
  BY DEF IInv, Types, Unread, Starting, InSetState, StartingAlone, LiveIsLast, Live, Started
<1> QED
  BY <1>1, <1>2, <1>3, <1>4, <1>5, <1>6 DEF IInv

\* A look at the state.
LEMMA GetStateInv ==
  ASSUME IInv, GetState
  PROVE  IInv'
<1> USE Threads, BoundAssumption DEF GetState, At, GoTo, object, network
<1>1. Types'
  BY DEF IInv, Types, AppStatements, WorkerStatements, InSetState, States
<1>2. Exclusion'
  BY DEF IInv, Types, Exclusion
<1>3. NoneAhead' /\ Started'
  BY DEF IInv, Types, NoneAhead, Started, StartingAlone, Starting, InSetState
<1>4. StartingAlone'
  BY DEF IInv, Types, StartingAlone, Starting, InSetState, Live, LiveIsLast, NoneAhead
<1>5. LiveIsLast'
  BY DEF IInv, Types, LiveIsLast, Live, StartingAlone, Starting, InSetState, NoneAhead, Started
<1>6. Unread'
  BY DEF IInv, Types, Unread, Starting, InSetState, StartingAlone, LiveIsLast, Live, Started
<1> QED
  BY <1>1, <1>2, <1>3, <1>4, <1>5, <1>6 DEF IInv

\* The call of as_smpp_session_destroy.
LEMMA CallDestroyInv ==
  ASSUME IInv, CallDestroy
  PROVE  IInv'
<1> USE Threads, BoundAssumption DEF CallDestroy, At, GoTo, object, network
<1>1. Types'
  BY DEF IInv, Types, AppStatements, WorkerStatements, InSetState
<1>2. Exclusion'
  BY DEF IInv, Types, Exclusion
<1>3. NoneAhead' /\ Started'
  BY DEF IInv, Types, NoneAhead, Started, StartingAlone, Starting, InSetState
<1>4. StartingAlone'
  BY DEF IInv, Types, StartingAlone, Starting, InSetState, Live, LiveIsLast, NoneAhead
<1>5. LiveIsLast'
  BY DEF IInv, Types, LiveIsLast, Live, StartingAlone, Starting, InSetState, NoneAhead, Started
<1>6. Unread'
  BY DEF IInv, Types, Unread, Starting, InSetState, StartingAlone, LiveIsLast, Live, Started
<1> QED
  BY <1>1, <1>2, <1>3, <1>4, <1>5, <1>6 DEF IInv

\* A statement of as_smpp_session_destroy.
LEMMA DestroyNextInv ==
  ASSUME IInv, DestroyNext
  PROVE  IInv'
<1> USE Threads, BoundAssumption DEF DestroyNext, At, GoTo, object, network
<1>1. Types'
  BY DEF IInv, Types, AppStatements, WorkerStatements, InSetState
<1>2. Exclusion'
  BY DEF IInv, Types, Exclusion
<1>3. NoneAhead' /\ Started'
  BY DEF IInv, Types, NoneAhead, Started, StartingAlone, Starting, InSetState
<1>4. StartingAlone'
  BY DEF IInv, Types, StartingAlone, Starting, InSetState, Live, LiveIsLast, NoneAhead
<1>5. LiveIsLast'
  BY DEF IInv, Types, LiveIsLast, Live, StartingAlone, Starting, InSetState, NoneAhead, Started
<1>6. Unread'
  BY DEF IInv, Types, Unread, Starting, InSetState, StartingAlone, LiveIsLast, Live, Started
<1> QED
  BY <1>1, <1>2, <1>3, <1>4, <1>5, <1>6 DEF IInv

-----------------------------------------------------------------------------
\* A part is received.
LEMMA ReceiveInv ==
  ASSUME IInv, NEW w \in Worker, Receive(w)
  PROVE  IInv'
<1> USE Threads, BoundAssumption DEF Receive, At, GoTo, object, network
<1>0. socket = w
  BY DEF IInv, LiveIsLast, Live
<1>1. Types'
  BY <1>0 DEF IInv, Types, AppStatements, WorkerStatements, InSetState
<1>2. Exclusion'
  BY DEF IInv, Types, Exclusion
<1>3. NoneAhead' /\ Started'
  BY DEF IInv, Types, NoneAhead, Started, StartingAlone, Starting, InSetState
<1>4. StartingAlone'
  BY DEF IInv, Types, StartingAlone, Starting, InSetState, Live, LiveIsLast, NoneAhead
<1>5. LiveIsLast'
  BY DEF IInv, Types, LiveIsLast, Live, StartingAlone, Starting, InSetState, NoneAhead, Started
<1>6. Unread'
  BY DEF IInv, Types, Unread, Starting, InSetState, StartingAlone, LiveIsLast, Live, Started
<1> QED
  BY <1>1, <1>2, <1>3, <1>4, <1>5, <1>6 DEF IInv

\* A PDU is handled, or the worker goes back to recv.
LEMMA HandleInv ==
  ASSUME IInv, NEW w \in Worker, Handle(w)
  PROVE  IInv'
<1> USE Threads, BoundAssumption DEF Handle, At, GoTo, object, network
<1>1. Types'
  BY DEF IInv, Types, AppStatements, WorkerStatements, InSetState
<1>2. Exclusion'
  BY DEF IInv, Types, Exclusion
<1>3. NoneAhead' /\ Started'
  BY DEF IInv, Types, NoneAhead, Started, StartingAlone, Starting, InSetState
<1>4. StartingAlone'
  BY DEF IInv, Types, StartingAlone, Starting, InSetState, Live, LiveIsLast, NoneAhead
<1>5. LiveIsLast'
  BY DEF IInv, Types, LiveIsLast, Live, StartingAlone, Starting, InSetState, NoneAhead, Started
<1>6. Unread'
  BY DEF IInv, Types, Unread, Starting, InSetState, StartingAlone, LiveIsLast, Live, Started
<1> QED
  BY <1>1, <1>2, <1>3, <1>4, <1>5, <1>6 DEF IInv

\* The end of the loop of a worker.
LEMMA ReceiveFailsInv ==
  ASSUME IInv, NEW w \in Worker, ReceiveFails(w)
  PROVE  IInv'
<1> USE Threads, BoundAssumption DEF ReceiveFails, At, GoTo, object, network
<1>1. Types'
  BY DEF IInv, Types, AppStatements, WorkerStatements, InSetState
<1>2. Exclusion'
  BY DEF IInv, Types, Exclusion
<1>3. NoneAhead' /\ Started'
  BY DEF IInv, Types, NoneAhead, Started, StartingAlone, Starting, InSetState
<1>4. StartingAlone'
  BY DEF IInv, Types, StartingAlone, Starting, InSetState, Live, LiveIsLast, NoneAhead
<1>5. LiveIsLast'
  BY DEF IInv, Types, LiveIsLast, Live, StartingAlone, Starting, InSetState, NoneAhead, Started
<1>6. Unread'
  BY DEF IInv, Types, Unread, Starting, InSetState, StartingAlone, LiveIsLast, Live, Started
<1> QED
  BY <1>1, <1>2, <1>3, <1>4, <1>5, <1>6 DEF IInv

\* The SMSC sends a part.
LEMMA SmscSendInv ==
  ASSUME IInv, SmscSend
  PROVE  IInv'
<1> USE Threads, BoundAssumption DEF SmscSend, At, GoTo, object, network
<1>1. Types'
  BY DEF IInv, Types, AppStatements, WorkerStatements, InSetState
<1>2. Exclusion'
  BY DEF IInv, Types, Exclusion
<1>3. NoneAhead' /\ Started'
  BY DEF IInv, Types, NoneAhead, Started, StartingAlone, Starting, InSetState
<1>4. StartingAlone'
  BY DEF IInv, Types, StartingAlone, Starting, InSetState, Live, LiveIsLast, NoneAhead
<1>5. LiveIsLast'
  BY DEF IInv, Types, LiveIsLast, Live, StartingAlone, Starting, InSetState, NoneAhead, Started
<1>6. Unread'
  BY DEF IInv, Types, Unread, Starting, InSetState, StartingAlone, LiveIsLast, Live, Started
<1> QED
  BY <1>1, <1>2, <1>3, <1>4, <1>5, <1>6 DEF IInv

\* A connection ends.
LEMMA LinkBreaksInv ==
  ASSUME IInv, LinkBreaks
  PROVE  IInv'
<1> USE Threads, BoundAssumption DEF LinkBreaks, At, GoTo, object, network
<1>1. Types'
  BY DEF IInv, Types, AppStatements, WorkerStatements, InSetState
<1>2. Exclusion'
  BY DEF IInv, Types, Exclusion
<1>3. NoneAhead' /\ Started'
  BY DEF IInv, Types, NoneAhead, Started, StartingAlone, Starting, InSetState
<1>4. StartingAlone'
  BY DEF IInv, Types, StartingAlone, Starting, InSetState, Live, LiveIsLast, NoneAhead
<1>5. LiveIsLast'
  BY DEF IInv, Types, LiveIsLast, Live, StartingAlone, Starting, InSetState, NoneAhead, Started
<1>6. Unread'
  BY DEF IInv, Types, Unread, Starting, InSetState, StartingAlone, LiveIsLast, Live, Started
<1> QED
  BY <1>1, <1>2, <1>3, <1>4, <1>5, <1>6 DEF IInv

-----------------------------------------------------------------------------
\* Every step keeps the invariant.
LEMMA NextInv == IInv /\ [Next]_vars => IInv'
<1> SUFFICES ASSUME IInv, [Next]_vars PROVE IInv'
  OBVIOUS
<1>1. CASE Start \/ CreateWorker \/ Bind \/ GetState \/ CallDestroy \/ DestroyNext
  BY <1>1, StartInv, CreateWorkerInv, BindInv, GetStateInv, CallDestroyInv, DestroyNextInv
<1>2. CASE \E t \in Thread : SetState(t)
  BY <1>2, LockInv, StoreInv, UnlockInv, BroadcastInv DEF SetState
<1>3. CASE \E w \in Worker : Work(w)
  BY <1>3, ReceiveInv, HandleInv, ReceiveFailsInv DEF Work
<1>4. CASE SmscSend \/ LinkBreaks
  BY <1>4, SmscSendInv, LinkBreaksInv
<1>5. CASE UNCHANGED vars
  BY <1>5 DEF vars, IInv, Types, Exclusion, NoneAhead, StartingAlone, Starting, Started,
              LiveIsLast, Live, Unread
<1> QED
  BY <1>1, <1>2, <1>3, <1>4, <1>5 DEF Next

(***************************************************************************)
(* The strengthened invariant holds in every state: the application starts *)
(* again only after it saw CLOSED, and CLOSED is stored by the one worker  *)
(* that is live.                                                           *)
(***************************************************************************)
THEOREM Invariance == Spec => []IInv
<1>1. Init => IInv
  BY InitInv
<1>2. IInv /\ [Next]_vars => IInv'
  BY NextInv
<1> QED
  BY <1>1, <1>2, PTL DEF Spec

(***************************************************************************)
(* Every variable has its type, the threads inside set_state exclude each  *)
(* other, and no more is received on a connection than was sent.           *)
(***************************************************************************)
THEOREM TypeCorrect == Spec => []TypeOK
<1>1. IInv => TypeOK
  BY DEF IInv, Types, Exclusion, TypeOK, States
<1> QED
  BY <1>1, Invariance, PTL

(***************************************************************************)
(* However often a session is started, and however late the workers of the *)
(* earlier starts are, one thread receives, on the socket it was made for. *)
(***************************************************************************)
THEOREM OneReceiverCorrect == Spec => []OneReceiver
<1>1. IInv => OneReceiver
  BY DEF IInv, LiveIsLast, Live, OneReceiver, Running
<1> QED
  BY <1>1, Invariance, PTL

(***************************************************************************)
(* Without a worker for its last start a session stays OPENED.             *)
(***************************************************************************)
THEOREM UnreadCorrect == Spec => []UnreadStaysOpened
<1>1. IInv => UnreadStaysOpened
  <2> SUFFICES ASSUME IInv, NEW n \in DOMAIN starts, n = Len(starts),
                      starts[n] = "ERROR_NONE", pc[n] = "none"
               PROVE  state = "OPENED"
    BY DEF UnreadStaysOpened, At
  <2>1. Len(starts) > 0
    BY DEF IInv, Types
  <2>2. ~Starting
    BY <2>1 DEF IInv, StartingAlone
  <2> QED
    BY <2>1, <2>2 DEF IInv, Unread
<1> QED
  BY <1>1, Invariance, PTL

(***************************************************************************)
(* CLOSED is only stored by the worker of the last start, for a connection *)
(* that has ended.                                                         *)
(***************************************************************************)
THEOREM ClosesItsOwnCorrect == Spec => ClosesItsOwn
<1> DEFINE Own == state' = "CLOSED" /\ state # "CLOSED" =>
                    \E w \in Worker : At(w, "store") /\ w = Len(starts) /\ w \in down
<1>1. IInv /\ [Next]_vars => [Own]_vars
  <2> SUFFICES ASSUME IInv, [Next]_vars, state' = "CLOSED", state # "CLOSED" PROVE Own
    BY DEF vars
  <2>1. PICK t \in Thread : Store(t)
    BY DEF Next, vars, SetState, Lock, Store, Unlock, Broadcast, Start, CreateWorker, Bind,
           GetState, CallDestroy, DestroyNext, Work, Receive, Handle, ReceiveFails, SmscSend,
           LinkBreaks
  <2>2. t \in Worker /\ At(t, "store")
    BY <2>1, Threads DEF Store
  <2> QED
    BY <2>2 DEF IInv, LiveIsLast, Live, At
<1> QED
  BY <1>1, Invariance, PTL DEF Spec, ClosesItsOwn

-----------------------------------------------------------------------------
(***************************************************************************)
(* What is received, while no connection has ended inside a PDU: the pairs *)
(* handled for a connection and what lies in the buffer of its worker are  *)
(* what was received on it, in order, and a worker begins and ends with an *)
(* empty buffer.                                                           *)
(***************************************************************************)
Part == [connection : Worker, part : Nat]

PartTypes ==
  /\ receiveBuffer \in Seq(Part)
  /\ handled \in Seq(Seq(Part))
  /\ down \subseteq Worker

AllEven == \A c \in down : sent[c] % 2 = 0

\* The pairs that were handled for a connection, and the parts in the buffer.
PairsOf(h, c) == Cardinality({n \in DOMAIN h : h[n][1].connection = c})
InBuffer(c) == IF Running(c) THEN Len(receiveBuffer) ELSE 0

Parts ==
  /\ \A n \in DOMAIN handled : Whole(handled[n])
  /\ \A c \in Worker : received[c] = 2 * PairsOf(handled, c) + InBuffer(c)
  /\ \A w \in Worker : Running(w) =>
       /\ Len(receiveBuffer) <= (IF pc[w] = "recv" THEN 1 ELSE 2)
       /\ \A k \in DOMAIN receiveBuffer :
            receiveBuffer[k] = [connection |-> w, part |-> received[w] - Len(receiveBuffer) + k]
  /\ (\A w \in Worker : ~Running(w)) => receiveBuffer = <<>>

PartsInv == PartTypes /\ (AllEven => Parts)

\* PairsOf counts.
LEMMA PairsAppend ==
  ASSUME NEW S, NEW h \in Seq(S), NEW e \in S, NEW c
  PROVE  /\ PairsOf(h, c) \in Nat
         /\ PairsOf(Append(h, e), c) = PairsOf(h, c) + IF e[1].connection = c THEN 1 ELSE 0
<1> DEFINE n == Len(h)
           v == Append(h, e)
           R == {k \in DOMAIN h : h[k][1].connection = c}
           Q == {k \in DOMAIN v : v[k][1].connection = c}
<1>1. /\ n \in Nat /\ DOMAIN h = 1..n /\ DOMAIN v = 1..(n + 1)
      /\ \A k \in 1..n : v[k] = h[k]
      /\ v[n + 1] = e
  OBVIOUS
<1>2. IsFiniteSet(R) /\ n + 1 \notin R
  <2>1. 1 \in Int /\ n \in Int
    BY <1>1
  <2>2. IsFiniteSet(1..n)
    BY <2>1, FS_Interval
  <2>3. R \subseteq 1..n
    BY <1>1
  <2> QED
    BY <1>1, <2>2, <2>3, FS_Subset
<1> HIDE DEF n, v
<1>3. Q = IF e[1].connection = c THEN R \union {n + 1} ELSE R
  BY <1>1
<1>4. PairsOf(h, c) = Cardinality(R) /\ PairsOf(v, c) = Cardinality(Q)
  BY DEF PairsOf
<1>5. Cardinality(R) \in Nat /\ Cardinality(R \union {n + 1}) = Cardinality(R) + 1
  BY <1>2, FS_CardinalityType, FS_AddElement
<1> HIDE DEF R, Q
<1>6. PairsOf(v, c) = PairsOf(h, c) + IF e[1].connection = c THEN 1 ELSE 0
  BY <1>3, <1>4, <1>5
<1> QED
  BY <1>4, <1>5, <1>6 DEF v

LEMMA PairsEmpty ==
  ASSUME NEW c
  PROVE  PairsOf(<<>>, c) = 0
<1>1. {n \in DOMAIN <<>> : <<>>[n][1].connection = c} = {}
  OBVIOUS
<1> QED
  BY <1>1, FS_EmptySet DEF PairsOf

LEMMA InitParts == Init => PartsInv
<1> SUFFICES ASSUME Init PROVE PartsInv
  OBVIOUS
<1>1. receiveBuffer = <<>> /\ handled = <<>> /\ down = {}
  BY DEF Init
<1>2. \A w \in Worker : ~Running(w) /\ received[w] = 0
  BY Threads DEF Init, Running
<1>3. \A c \in Worker : InBuffer(c) = 0 /\ PairsOf(handled, c) = 0
  BY <1>1, <1>2, PairsEmpty DEF InBuffer
<1>4. Parts
  BY <1>1, <1>2, <1>3 DEF Parts
<1> QED
  BY <1>1, <1>4 DEF PartsInv, PartTypes

\* The steps that neither receive nor handle, nor make a worker.
LEMMA PartsStay ==
  ASSUME Parts, UNCHANGED <<receiveBuffer, handled, received>>,
         \A w \in Worker : pc'[w] = pc[w] \/ (~Running(w) /\ pc'[w] \notin {"recv", "handle"})
  PROVE  Parts'
BY DEF Parts, InBuffer, Running

\* Part by part: recv appends one to the buffer of the worker, which is its own.
LEMMA ReceiveParts ==
  ASSUME IInv, PartTypes, Parts, NEW w \in Worker, Receive(w)
  PROVE  Parts' /\ PartTypes'
<1> DEFINE L == Len(receiveBuffer)
           m == [connection |-> w, part |-> received[w] + 1]
           b == Append(receiveBuffer, m)
<1>1. socket = w /\ received[w] \in Nat
  BY DEF IInv, Types, LiveIsLast, Live, Receive, At
<1>2. \A v \in Worker : Running(v) => v = w
  BY <1>1 DEF IInv, LiveIsLast, Live, Running
<1>3. /\ pc[w] = "recv" /\ pc' = [pc EXCEPT ![w] = "handle"]
      /\ received' = [received EXCEPT ![w] = @ + 1]
      /\ receiveBuffer' = Append(receiveBuffer, [connection |-> w, part |-> received'[w]])
      /\ UNCHANGED <<handled, down>>
  BY <1>1 DEF Receive, At, GoTo, network
<1>4. received'[w] = received[w] + 1 /\ \A v \in Worker : v # w => received'[v] = received[v]
  BY <1>3 DEF IInv, Types
<1>5. pc'[w] = "handle" /\ \A v \in Worker : v # w => pc'[v] = pc[v]
  BY <1>3, Threads DEF IInv, Types
<1>6. receiveBuffer' = b
  BY <1>3, <1>4
<1>7. m \in Part
  BY <1>1 DEF Part
<1>8. /\ L \in Nat /\ b \in Seq(Part) /\ Len(b) = L + 1
      /\ DOMAIN receiveBuffer = 1..L /\ DOMAIN b = 1..(L + 1)
      /\ \A k \in 1..L : b[k] = receiveBuffer[k]
      /\ b[L + 1] = m
  BY <1>7 DEF PartTypes
<1>9. /\ L <= 1 /\ InBuffer(w) = L
      /\ \A k \in 1..L : receiveBuffer[k] = [connection |-> w, part |-> received[w] - L + k]
  BY <1>3, <1>8 DEF Parts, Running, InBuffer
<1>10. \A k \in 1..(L + 1) : b[k] = [connection |-> w, part |-> received[w] + 1 - (L + 1) + k]
  <2>1. \A k \in 1..(L + 1) : k \in 1..L \/ k = L + 1
    BY <1>8
  <2>2. \A k \in 1..L : received[w] + 1 - (L + 1) + k = received[w] - L + k
    BY <1>1, <1>8
  <2>3. received[w] + 1 - (L + 1) + (L + 1) = received[w] + 1
    BY <1>1, <1>8
  <2> QED
    BY <1>8, <1>9, <2>1, <2>2, <2>3
<1> HIDE DEF L, m, b
<1>11. PartTypes'
  BY <1>3, <1>6, <1>8 DEF PartTypes
<1>12. \A c \in Worker : received'[c] = 2 * PairsOf(handled, c) + InBuffer(c)'
  <2>1. ASSUME NEW c \in Worker, c # w
        PROVE  received'[c] = 2 * PairsOf(handled, c) + InBuffer(c)'
    <3>1. ~Running(c) /\ ~(pc'[c] \in {"recv", "handle"})
      BY <1>2, <1>5, <2>1 DEF Running
    <3> QED
      BY <1>4, <2>1, <3>1 DEF Parts, InBuffer, Running
  <2>2. received'[w] = 2 * PairsOf(handled, w) + InBuffer(w)'
    <3>1. PairsOf(handled, w) \in Nat
      BY PairsAppend DEF PartTypes
    <3>2. InBuffer(w)' = L + 1
      BY <1>5, <1>6, <1>8 DEF InBuffer, Running
    <3>3. received[w] = 2 * PairsOf(handled, w) + L
      BY <1>9 DEF Parts
    <3> QED
      BY <1>4, <1>8, <3>1, <3>2, <3>3
  <2> QED
    BY <2>1, <2>2
<1>13. \A v \in Worker : pc'[v] \in {"recv", "handle"} => v = w
  BY <1>2, <1>5 DEF Running
<1>14. Parts'
  <2>1. Len(receiveBuffer') = L + 1 /\ DOMAIN receiveBuffer' = 1..(L + 1) /\ L + 1 <= 2
    BY <1>6, <1>8, <1>9
  <2>2. \A n \in DOMAIN handled' : Whole(handled'[n])
    BY <1>3 DEF Parts
  <2>3. \A k \in DOMAIN receiveBuffer' :
          receiveBuffer'[k] = [connection |-> w, part |-> received'[w] - Len(receiveBuffer') + k]
    <3>1. received'[w] - Len(receiveBuffer') = received[w] + 1 - (L + 1)
      BY <1>1, <1>4, <1>8, <2>1
    <3>2. DOMAIN receiveBuffer' = 1..(L + 1) /\ \A k \in 1..(L + 1) : receiveBuffer'[k] = b[k]
      BY <1>6, <2>1
    <3> QED
      BY <1>10, <3>1, <3>2
  <2>4. \A c \in Worker : received'[c] = 2 * PairsOf(handled', c) + InBuffer(c)'
    BY <1>3, <1>12
  <2> QED
    BY <1>5, <1>13, <2>1, <2>2, <2>3, <2>4 DEF Parts, Running
<1> QED
  BY <1>11, <1>14

LEMMA FirstTwo ==
  ASSUME NEW S, NEW s \in Seq(S), Len(s) = 2
  PROVE  /\ SubSeq(s, 1, 2) \in Seq(S)
         /\ SubSeq(s, 1, 2)[1] = s[1] /\ SubSeq(s, 1, 2)[2] = s[2]
<1>1. \A k \in 1..2 : s[k] \in S
  BY ElementOfSeq
<1>2. SubSeq(s, 1, 2) \in Seq(S) /\ \A k \in 1..2 : SubSeq(s, 1, 2)[k] = s[1 + k - 1]
  BY <1>1, SubSeqProperties
<1> QED
  BY <1>2

\* Handling takes the whole pair that is in the buffer; with less than a pair
\* the worker goes back to recv.
LEMMA HandleParts ==
  ASSUME IInv, PartTypes, Parts, NEW w \in Worker, Handle(w)
  PROVE  Parts' /\ PartTypes'
<1> DEFINE L == Len(receiveBuffer)
<1>1. /\ pc[w] = "handle" /\ UNCHANGED <<received, down>>
      /\ received[w] \in Nat /\ receiveBuffer \in Seq(Part) /\ L \in Nat
      /\ DOMAIN receiveBuffer = 1..L
  BY DEF Handle, At, network, IInv, Types, PartTypes
<1>2. \A v \in Worker : Running(v) => v = w
  BY <1>1 DEF IInv, LiveIsLast, Live, Running
<1>3. /\ L <= 2 /\ InBuffer(w) = L
      /\ \A k \in 1..L : receiveBuffer[k] = [connection |-> w, part |-> received[w] - L + k]
  BY <1>1 DEF Parts, Running, InBuffer
<1>4. CASE L >= 2
  <2> DEFINE e == SubSeq(receiveBuffer, 1, 2)
  <2>1. L = 2
    BY <1>1, <1>3, <1>4
  <2>2. handled' = Append(handled, e) /\ receiveBuffer' = SubSeq(receiveBuffer, 3, L) /\ pc' = pc
    BY <1>4 DEF Handle, RestOf
  <2>3. receiveBuffer' = <<>>
    BY <2>1, <2>2, SubSeqEmpty
  <2>4. e \in Seq(Part) /\ e[1] = receiveBuffer[1] /\ e[2] = receiveBuffer[2]
    BY <1>1, <2>1, FirstTwo
  <2>5. /\ e[1] = [connection |-> w, part |-> received[w] - 2 + 1]
        /\ e[2] = [connection |-> w, part |-> received[w] - 2 + 2]
    BY <1>3, <2>1, <2>4
  <2> HIDE DEF e
  <2>6. PairsOf(handled, w) \in Nat /\ received[w] = 2 * PairsOf(handled, w) + 2
    <3>1. PairsOf(handled, w) \in Nat
      BY <2>4, PairsAppend DEF PartTypes
    <3> QED
      BY <1>3, <2>1, <3>1 DEF Parts
  <2>7. Whole(e)
    <3>1. e[1].part = received[w] - 1 /\ e[2].part = received[w] /\ e[1].connection = e[2].connection
      BY <1>1, <2>5
    <3>2. (received[w] - 1) % 2 = 1
      BY <2>6
    <3> QED
      BY <1>1, <3>1, <3>2 DEF Whole
  <2>8. /\ Append(handled, e) \in Seq(Seq(Part))
        /\ \A n \in DOMAIN Append(handled, e) :
             \/ n \in DOMAIN handled /\ Append(handled, e)[n] = handled[n]
             \/ Append(handled, e)[n] = e
    BY <2>4 DEF PartTypes
  <2>9. PartTypes'
    BY <1>1, <2>2, <2>3, <2>8 DEF PartTypes
  <2>10. \A c \in Worker : received'[c] = 2 * PairsOf(handled', c) + InBuffer(c)'
    <3>1. ASSUME NEW c \in Worker, c # w
          PROVE  received[c] = 2 * PairsOf(handled', c)
      <4>1. PairsOf(handled, c) \in Nat /\ PairsOf(handled', c) = PairsOf(handled, c) + 0
        BY <2>2, <2>4, <2>5, <3>1, PairsAppend DEF PartTypes
      <4>2. InBuffer(c) = 0
        BY <1>2, <3>1 DEF InBuffer
      <4> QED
        BY <4>1, <4>2 DEF Parts
    <3>2. received[w] = 2 * PairsOf(handled', w)
      <4>1. PairsOf(handled', w) = PairsOf(handled, w) + 1
        BY <2>2, <2>4, <2>5, PairsAppend DEF PartTypes
      <4> QED
        BY <2>6, <4>1
    <3>3. \A c \in Worker : InBuffer(c)' = 0 /\ PairsOf(handled', c) \in Nat
      <4>1. \A c \in Worker : InBuffer(c)' = 0
        BY <2>3 DEF InBuffer
      <4>2. handled' \in Seq(Seq(Part))
        BY <2>2, <2>8
      <4> QED
        BY <2>4, <4>1, <4>2, PairsAppend
    <3>4. \A c \in Worker : received[c] = 2 * PairsOf(handled', c)
      BY <3>1, <3>2
    <3> QED
      BY <1>1, <3>3, <3>4
  <2>11. \A n \in DOMAIN handled' : Whole(handled'[n])
    BY <2>2, <2>7, <2>8 DEF Parts
  <2>12. Parts'
    BY <2>3, <2>10, <2>11 DEF Parts
  <2> QED
    BY <2>9, <2>12
<1>5. CASE L < 2
  <2>1. pc' = [pc EXCEPT ![w] = "recv"] /\ UNCHANGED <<handled, receiveBuffer>>
    BY <1>1, <1>5 DEF Handle, GoTo
  <2>2. pc'[w] = "recv" /\ \A v \in Worker : v # w => pc'[v] = pc[v]
    BY <2>1, Threads DEF IInv, Types
  <2>3. \A c \in Worker : InBuffer(c)' = InBuffer(c)
    BY <1>1, <2>1, <2>2 DEF InBuffer, Running
  <2>4. PartTypes'
    BY <1>1, <2>1 DEF PartTypes
  <2>5. Parts'
    BY <1>1, <1>2, <1>5, <2>1, <2>2, <2>3 DEF Parts, Running
  <2> QED
    BY <2>4, <2>5
<1> QED
  BY <1>1, <1>4, <1>5

\* A worker leaves its loop with an empty buffer, for it received an even
\* number of parts.
LEMMA ReceiveFailsParts ==
  ASSUME IInv, PartTypes, Parts, AllEven, NEW w \in Worker, ReceiveFails(w)
  PROVE  Parts'
<1>1. /\ socket = w /\ pc[w] = "recv" /\ pc' = [pc EXCEPT ![w] = "lock"]
      /\ w \in down /\ received[w] = sent[w] /\ received[w] \in Nat
      /\ UNCHANGED <<receiveBuffer, handled, received>>
  BY DEF IInv, Types, LiveIsLast, Live, ReceiveFails, At, GoTo
<1>2. \A v \in Worker : Running(v) => v = w
  BY <1>1 DEF IInv, LiveIsLast, Live, Running
<1>3. pc'[w] = "lock" /\ \A v \in Worker : v # w => pc'[v] = pc[v]
  BY <1>1, Threads DEF IInv, Types
<1>4. Len(receiveBuffer) \in Nat /\ Len(receiveBuffer) <= 1
  BY <1>1 DEF Parts, PartTypes, Running
<1>5. PairsOf(handled, w) \in Nat
  BY PairsAppend DEF PartTypes
<1>6. received[w] = 2 * PairsOf(handled, w) + Len(receiveBuffer) /\ received[w] % 2 = 0
  BY <1>1 DEF AllEven, Parts, InBuffer, Running
<1>7. Len(receiveBuffer) = 0
  BY <1>4, <1>5, <1>6
<1>8. receiveBuffer = <<>>
  BY <1>7 DEF PartTypes
<1>9. \A c \in Worker : InBuffer(c) = 0 /\ InBuffer(c)' = 0
  BY <1>1, <1>7 DEF InBuffer
<1> QED
  BY <1>1, <1>2, <1>3, <1>8, <1>9 DEF Parts, Running

\* A worker begins with an empty buffer, for no other one receives.
LEMMA CreateWorkerParts ==
  ASSUME IInv, PartTypes, Parts, CreateWorker
  PROVE  Parts'
<1>1. /\ pc[App] = "create" /\ UNCHANGED <<receiveBuffer, handled, received>>
      /\ \/ pc' = [pc EXCEPT ![App] = "bind", ![Len(starts)] = "recv"]
         \/ pc' = [pc EXCEPT ![App] = "bind"]
  BY DEF CreateWorker, At, GoTo
<1>2. Len(starts) \in Worker /\ \A w \in Worker : ~Running(w)
  BY <1>1, Threads
  DEF IInv, Types, StartingAlone, Starting, Running, Live, Worker
<1>3. receiveBuffer = <<>> /\ Len(receiveBuffer) = 0
  BY <1>2 DEF Parts
<1>4. \A c \in Worker : InBuffer(c) = 0 /\ InBuffer(c)' = 0
  BY <1>1, <1>3 DEF InBuffer
<1>5. DOMAIN receiveBuffer' = {} /\ Len(receiveBuffer') = 0
  BY <1>1, <1>3
<1>6. \A n \in DOMAIN handled' : Whole(handled'[n])
  BY <1>1 DEF Parts
<1>7. \A c \in Worker : received'[c] = 2 * PairsOf(handled', c) + InBuffer(c)'
  BY <1>1, <1>4 DEF Parts
<1> QED
  BY <1>1, <1>3, <1>5, <1>6, <1>7 DEF Parts

\* Sends and ends of connections: an odd number of parts stays odd, and only
\* a connection that is up can get one.
LEMMA NetworkParts ==
  ASSUME IInv, PartTypes, SmscSend \/ LinkBreaks
  PROVE  /\ PartTypes' /\ (AllEven' => AllEven)
         /\ UNCHANGED <<receiveBuffer, handled, received, pc>>
<1>1. /\ socket \in Worker /\ socket \notin down
      /\ down' = down \/ down' = down \union {socket}
      /\ \E n : sent' = [sent EXCEPT ![socket] = n]
      /\ UNCHANGED <<receiveBuffer, handled, received, pc>>
  BY DEF IInv, Types, SmscSend, LinkBreaks
<1>2. PartTypes'
  BY <1>1 DEF PartTypes
<1>3. \A c \in down : c \in down' /\ sent'[c] = sent[c]
  BY <1>1 DEF IInv, Types, PartTypes
<1>4. AllEven' => AllEven
  BY <1>3 DEF AllEven
<1> QED
  BY <1>1, <1>2, <1>4

LEMMA StepParts == IInv /\ PartsInv /\ [Next]_vars => PartsInv'
<1> SUFFICES ASSUME IInv, PartsInv, [Next]_vars PROVE PartsInv'
  OBVIOUS
<1>1. PartTypes /\ (AllEven => Parts)
  BY DEF PartsInv
<1>2. CASE SmscSend \/ LinkBreaks
  <2>1. /\ PartTypes' /\ (AllEven' => AllEven)
        /\ UNCHANGED <<receiveBuffer, handled, received, pc>>
    BY <1>1, <1>2, NetworkParts
  <2>2. Parts => Parts'
    BY <2>1, PartsStay
  <2> QED
    BY <1>1, <2>1, <2>2 DEF PartsInv
<1>3. ASSUME NEW w \in Worker, Receive(w) \/ Handle(w) \/ ReceiveFails(w)
      PROVE  PartsInv'
  <2>1. UNCHANGED <<sent, down>>
    BY <1>3 DEF Receive, Handle, ReceiveFails, network
  <2>2. AllEven' => AllEven
    BY <2>1 DEF AllEven
  <2>3. PartTypes'
    <3>1. CASE Receive(w)
      <4>1. socket = w /\ received[w] \in Nat /\ received'[w] = received[w] + 1
        BY <3>1 DEF IInv, Types, LiveIsLast, Live, Receive, At
      <4>2. [connection |-> w, part |-> received'[w]] \in Part
        BY <4>1 DEF Part
      <4> QED
        BY <1>1, <2>1, <3>1, <4>1, <4>2 DEF PartTypes, Receive
    <3>2. CASE Handle(w)
      <4>1. receiveBuffer \in Seq(Part) /\ handled \in Seq(Seq(Part))
        BY <1>1 DEF PartTypes
      <4>2. CASE Len(receiveBuffer) >= 2
        <5>1. /\ SubSeq(receiveBuffer, 1, 2) \in Seq(Part)
              /\ SubSeq(receiveBuffer, 3, Len(receiveBuffer)) \in Seq(Part)
          <6>1. /\ \A k \in 1..2 : receiveBuffer[k] \in Part
                /\ \A k \in 3..Len(receiveBuffer) : receiveBuffer[k] \in Part
                /\ Len(receiveBuffer) \in Int
            BY <4>1, <4>2
          <6> QED
            BY <6>1, SubSeqProperties
        <5>2. /\ handled' = Append(handled, SubSeq(receiveBuffer, 1, 2))
              /\ receiveBuffer' = SubSeq(receiveBuffer, 3, Len(receiveBuffer))
          BY <3>2, <4>2 DEF Handle, RestOf
        <5>3. \A p \in Seq(Part) : Append(handled, p) \in Seq(Seq(Part))
          BY <4>1
        <5> QED
          BY <1>1, <2>1, <5>1, <5>2, <5>3 DEF PartTypes
      <4>3. CASE ~(Len(receiveBuffer) >= 2)
        BY <1>1, <2>1, <3>2, <4>3 DEF PartTypes, Handle
      <4> QED
        BY <4>2, <4>3
    <3>3. CASE ReceiveFails(w)
      BY <1>1, <2>1, <3>3 DEF PartTypes, ReceiveFails
    <3> QED
      BY <1>3, <3>1, <3>2, <3>3
  <2>4. AllEven' => Parts'
    BY <1>1, <1>3, <2>2, ReceiveParts, HandleParts, ReceiveFailsParts
  <2> QED
    BY <2>3, <2>4 DEF PartsInv
<1>4. CASE CreateWorker
  <2>1. UNCHANGED <<sent, down, receiveBuffer, handled>>
    BY <1>4 DEF CreateWorker, network
  <2>2. PartTypes' /\ (AllEven' => AllEven)
    BY <1>1, <2>1 DEF PartTypes, AllEven
  <2> QED
    BY <1>1, <1>4, <2>2, CreateWorkerParts DEF PartsInv
<1>5. CASE \/ Start \/ Bind \/ GetState \/ CallDestroy \/ DestroyNext
           \/ \E t \in Thread : SetState(t)
           \/ UNCHANGED vars
  <2>1. UNCHANGED <<sent, down, receiveBuffer, handled, received>>
    BY <1>5 DEF Start, Bind, GetState, CallDestroy, DestroyNext, SetState, Lock, Store, Unlock,
                Broadcast, vars, network
  <2>2. \A w \in Worker : pc'[w] = pc[w] \/ (~Running(w) /\ pc'[w] \notin {"recv", "handle"})
    <3>1. CASE Start \/ Bind \/ GetState \/ CallDestroy \/ DestroyNext \/ UNCHANGED vars
      BY <3>1, Threads DEF IInv, Types, Start, Bind, GetState, CallDestroy, DestroyNext, GoTo, vars
    <3>2. ASSUME NEW t \in Thread, SetState(t)
          PROVE  \A w \in Worker : pc'[w] = pc[w] \/ (~Running(w) /\ pc'[w] \notin {"recv", "handle"})
      BY <3>2, Threads DEF IInv, Types, SetState, Lock, Store, Unlock, Broadcast, AfterBroadcast,
                           At, GoTo, Running
    <3> QED
      BY <1>5, <3>1, <3>2
  <2>3. PartTypes' /\ (AllEven' => AllEven)
    BY <1>1, <2>1 DEF PartTypes, AllEven
  <2>4. Parts => Parts'
    BY <2>1, <2>2, PartsStay
  <2> QED
    BY <1>1, <2>3, <2>4 DEF PartsInv
<1> QED
  BY <1>2, <1>3, <1>4, <1>5 DEF Next, Work

THEOREM PartsInvariance == Spec => []PartsInv
<1>1. Init => PartsInv
  BY InitParts
<1>2. IInv /\ PartsInv /\ [Next]_vars => PartsInv'
  BY StepParts
<1> QED
  BY <1>1, <1>2, Invariance, PTL DEF Spec

(***************************************************************************)
(* Unless a connection ends inside a PDU, the buffer that the starts share *)
(* carries nothing from one connection to the next: the PDUs handled are   *)
(* those that were sent, on every connection.                              *)
(***************************************************************************)
THEOREM WholeCorrect == Spec => []WholeUnlessCut
<1>1. PartsInv /\ IInv => WholeUnlessCut
  <2> SUFFICES ASSUME PartsInv, IInv, \A c \in down : sent[c] % 2 = 0
               PROVE  /\ \A n \in DOMAIN handled : Whole(handled[n])
                      /\ \A c \in down : received[c] = sent[c] /\ pc[c] = "ended" =>
                           Cardinality({n \in DOMAIN handled : handled[n][1].connection = c})
                             = sent[c] \div 2
    BY DEF WholeUnlessCut
  <2>1. Parts /\ PartTypes
    BY DEF PartsInv, AllEven
  <2>2. ASSUME NEW c \in down, received[c] = sent[c], pc[c] = "ended"
        PROVE  PairsOf(handled, c) = sent[c] \div 2
    <3>1. c \in Worker /\ InBuffer(c) = 0
      BY <2>1, <2>2 DEF PartTypes, InBuffer, Running
    <3>2. sent[c] = 2 * PairsOf(handled, c) + 0
      BY <2>1, <2>2, <3>1 DEF Parts
    <3>3. PairsOf(handled, c) \in Nat
      BY <2>1, PairsAppend DEF PartTypes
    <3> QED
      BY <3>2, <3>3
  <2> QED
    BY <2>1, <2>2 DEF Parts, PairsOf
<1> QED
  BY <1>1, PartsInvariance, Invariance, PTL

=============================================================================
