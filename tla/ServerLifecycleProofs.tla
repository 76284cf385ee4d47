----------------------- MODULE ServerLifecycleProofs -----------------------
(***************************************************************************)
(* For a pool of any size and any number of connections and messages: the  *)
(* io_services are handed out evenly, one logic system is constructed, and *)
(* no handler runs when the server is gone.                                *)
(***************************************************************************)
EXTENDS ServerLifecycle, TLAPS

(* One for the io_services that the current round has already reached.     *)
Ahead(i) == IF i < next THEN 1 ELSE 0

RoundOK == \A i, j \in Services : handed[i] + Ahead(j) = handed[j] + Ahead(i)

(* The flag tells who is inside call_once, and what has come of it.        *)
OnceOK ==
  /\ once \in {"unset", "running"} =>
       created = 0 /\ \A i \in Services : busy[i] # "posting"
  /\ once = "done" => created = 1
  /\ \A i \in Services : busy[i] = "once" => once = "running"
  /\ \A i, j \in Services : busy[i] = "once" /\ busy[j] = "once" => i = j

(* A callback works on a message of the queue.                             *)
WorkerOK == worker \in {"plain", "chat"} => que > 0

(* Handlers run in run(), and a joined thread has left it.                 *)
ThreadsOK ==
  \A i \in Services : /\ busy[i] # "no" => i \in running
                      /\ i < joined => i \notin running

(* Where main is tells what has been constructed, joined and destroyed.    *)
MainOK ==
  /\ main \in {"run", "stop", "leave"} <=> server = "alive"
  /\ main = "leave" \/ server = "gone" => joined = PoolSize
  /\ server = "none" => \A i \in Services : sessions[i] = 0 /\ busy[i] = "no"

IInv == TypeOK /\ RoundOK /\ OnceOK /\ WorkerOK /\ ThreadsOK /\ MainOK

-----------------------------------------------------------------------------
(* One step of the rotation.                                               *)
LEMMA Rotate ==
  ASSUME TypeOK, RoundOK, GetIOService
  PROVE  /\ handed' \in [Services -> Nat]
         /\ next' \in Services /\ accepting' \in Services
         /\ RoundOK'
<1> USE DEF GetIOService, Advance, Services
<1>1. handed' \in [Services -> Nat] /\ next' \in Services /\ accepting' \in Services
  BY PoolAssumption DEF TypeOK
<1>2. RoundOK'
  <2>1. \A i \in Services :
          handed'[i] = IF i = next THEN handed[i] + 1 ELSE handed[i]
    BY DEF TypeOK
  <2>2. CASE next + 1 = PoolSize
    <3>1. next' = 0 /\ \A i \in Services : i < next \/ i = next
      BY <2>2 DEF TypeOK
    <3> QED BY <2>1, <3>1 DEF TypeOK, RoundOK, Ahead
  <2>3. CASE next + 1 # PoolSize
    <3>1. next' = next + 1
      BY <2>3
    <3> QED BY <2>1, <3>1 DEF TypeOK, RoundOK, Ahead
  <2> QED BY <2>2, <2>3
<1> QED BY <1>1, <1>2

LEMMA ConstructServerInv ==
  ASSUME IInv, ConstructServer PROVE IInv'
<1> USE DEF ConstructServer, mainVars, robin, stopVars, ioVars, logic
<1> USE Rotate DEF IInv
<1>1. TypeOK'
  BY DEF TypeOK
<1>2. RoundOK'
  OBVIOUS
<1>3. OnceOK'
  BY DEF OnceOK
<1>4. WorkerOK'
  BY DEF WorkerOK
<1>5. ThreadsOK'
  BY DEF ThreadsOK
<1>6. MainOK'
  BY DEF MainOK
<1> QED BY <1>1, <1>2, <1>3, <1>4, <1>5, <1>6 DEF IInv

LEMMA ConstructorThrowsInv ==
  ASSUME IInv, ConstructorThrows PROVE IInv'
<1> USE DEF ConstructorThrows, mainVars, robin, stopVars, ioVars, logic
<1>1. TypeOK'
  BY DEF IInv, TypeOK
<1>2. RoundOK'
  BY DEF IInv, RoundOK, Ahead
<1>3. OnceOK'
  BY DEF IInv, OnceOK
<1>4. WorkerOK'
  BY DEF IInv, WorkerOK
<1>5. ThreadsOK'
  BY DEF IInv, ThreadsOK
<1>6. MainOK'
  BY DEF IInv, MainOK
<1> QED BY <1>1, <1>2, <1>3, <1>4, <1>5, <1>6 DEF IInv

LEMMA HandleAcceptInv ==
  ASSUME IInv, HandleAccept PROVE IInv'
<1> USE DEF HandleAccept, mainVars, robin, stopVars, ioVars, logic
<1> USE Rotate DEF IInv
<1>1. TypeOK'
  BY DEF TypeOK
<1>2. RoundOK'
  OBVIOUS
<1>3. OnceOK'
  BY DEF OnceOK
<1>4. WorkerOK'
  BY DEF WorkerOK
<1>5. ThreadsOK'
  BY DEF ThreadsOK
<1>6. MainOK'
  BY DEF MainOK
<1> QED BY <1>1, <1>2, <1>3, <1>4, <1>5, <1>6 DEF IInv

LEMMA SignalInv ==
  ASSUME IInv, Signal PROVE IInv'
<1> USE DEF Signal, mainVars, robin, stopVars, ioVars, logic
<1>1. TypeOK'
  BY DEF IInv, TypeOK
<1>2. RoundOK'
  BY DEF IInv, RoundOK, Ahead
<1>3. OnceOK'
  BY DEF IInv, OnceOK
<1>4. WorkerOK'
  BY DEF IInv, WorkerOK
<1>5. ThreadsOK'
  BY DEF IInv, ThreadsOK
<1>6. MainOK'
  BY DEF IInv, MainOK
<1> QED BY <1>1, <1>2, <1>3, <1>4, <1>5, <1>6 DEF IInv

LEMMA StopServiceInv ==
  ASSUME IInv, StopService PROVE IInv'
<1> USE DEF StopService, mainVars, robin, stopVars, ioVars, logic
<1>1. TypeOK'
  BY PoolAssumption DEF IInv, TypeOK
<1>2. RoundOK'
  BY DEF IInv, RoundOK, Ahead
<1>3. OnceOK'
  BY DEF IInv, OnceOK
<1>4. WorkerOK'
  BY DEF IInv, WorkerOK
<1>5. ThreadsOK'
  BY DEF IInv, ThreadsOK
<1>6. MainOK'
  BY DEF IInv, MainOK
<1> QED BY <1>1, <1>2, <1>3, <1>4, <1>5, <1>6 DEF IInv

LEMMA JoinThreadInv ==
  ASSUME IInv, JoinThread PROVE IInv'
<1> USE DEF JoinThread, mainVars, robin, stopVars, ioVars, logic, Joinable
<1>1. TypeOK'
  BY DEF IInv, TypeOK
<1>2. RoundOK'
  BY DEF IInv, RoundOK, Ahead
<1>3. OnceOK'
  BY DEF IInv, OnceOK
<1>4. WorkerOK'
  BY DEF IInv, WorkerOK
<1>5. ThreadsOK'
  BY DEF IInv, TypeOK, Services, ThreadsOK
<1>6. MainOK'
  BY DEF IInv, MainOK
<1> QED BY <1>1, <1>2, <1>3, <1>4, <1>5, <1>6 DEF IInv

LEMMA RunReturnsInv ==
  ASSUME IInv, RunReturns PROVE IInv'
<1> USE DEF RunReturns, mainVars, robin, stopVars, ioVars, logic
<1>1. TypeOK'
  BY DEF IInv, TypeOK
<1>2. RoundOK'
  BY DEF IInv, RoundOK, Ahead
<1>3. OnceOK'
  BY DEF IInv, OnceOK
<1>4. WorkerOK'
  BY DEF IInv, WorkerOK
<1>5. ThreadsOK'
  BY DEF IInv, ThreadsOK
<1>6. MainOK'
  BY DEF IInv, MainOK
<1> QED BY <1>1, <1>2, <1>3, <1>4, <1>5, <1>6 DEF IInv

LEMMA DestroyServerInv ==
  ASSUME IInv, DestroyServer PROVE IInv'
<1> USE DEF DestroyServer, mainVars, robin, stopVars, ioVars, logic
<1>1. TypeOK'
  BY DEF IInv, TypeOK
<1>2. RoundOK'
  BY DEF IInv, RoundOK, Ahead
<1>3. OnceOK'
  BY DEF IInv, OnceOK
<1>4. WorkerOK'
  BY DEF IInv, WorkerOK
<1>5. ThreadsOK'
  BY DEF IInv, ThreadsOK
<1>6. MainOK'
  BY DEF IInv, MainOK
<1> QED BY <1>1, <1>2, <1>3, <1>4, <1>5, <1>6 DEF IInv

LEMMA DestroyPoolInv ==
  ASSUME IInv, DestroyPool PROVE IInv'
<1> USE DEF DestroyPool, mainVars, robin, stopVars, ioVars, logic
<1>1. TypeOK'
  BY DEF IInv, TypeOK
<1>2. RoundOK'
  BY DEF IInv, RoundOK, Ahead
<1>3. OnceOK'
  BY DEF IInv, OnceOK
<1>4. WorkerOK'
  BY DEF IInv, WorkerOK
<1>5. ThreadsOK'
  BY DEF IInv, ThreadsOK
<1>6. MainOK'
  BY DEF IInv, MainOK
<1> QED BY <1>1, <1>2, <1>3, <1>4, <1>5, <1>6 DEF IInv

LEMMA StopLogicInv ==
  ASSUME IInv, StopLogic PROVE IInv'
<1> USE DEF StopLogic, mainVars, robin, stopVars, ioVars, logic
<1>1. TypeOK'
  BY DEF IInv, TypeOK
<1>2. RoundOK'
  BY DEF IInv, RoundOK, Ahead
<1>3. OnceOK'
  BY DEF IInv, OnceOK
<1>4. WorkerOK'
  BY DEF IInv, WorkerOK
<1>5. ThreadsOK'
  BY DEF IInv, ThreadsOK
<1>6. MainOK'
  BY DEF IInv, MainOK
<1> QED BY <1>1, <1>2, <1>3, <1>4, <1>5, <1>6 DEF IInv

LEMMA EndInv ==
  ASSUME IInv, End PROVE IInv'
<1> USE DEF End, mainVars, robin, stopVars, ioVars, logic
<1>1. TypeOK'
  BY DEF IInv, TypeOK
<1>2. RoundOK'
  BY DEF IInv, RoundOK, Ahead
<1>3. OnceOK'
  BY DEF IInv, OnceOK
<1>4. WorkerOK'
  BY DEF WorkerOK
<1>5. ThreadsOK'
  BY DEF IInv, ThreadsOK
<1>6. MainOK'
  BY DEF IInv, MainOK
<1> QED BY <1>1, <1>2, <1>3, <1>4, <1>5, <1>6 DEF IInv

LEMMA BeginCallbackInv ==
  ASSUME IInv, BeginCallback PROVE IInv'
<1> USE DEF BeginCallback, mainVars, robin, stopVars, ioVars, logic
<1>1. TypeOK'
  BY DEF IInv, TypeOK
<1>2. RoundOK'
  BY DEF IInv, RoundOK, Ahead
<1>3. OnceOK'
  BY DEF IInv, OnceOK
<1>4. WorkerOK'
  BY DEF WorkerOK
<1>5. ThreadsOK'
  BY DEF IInv, ThreadsOK
<1>6. MainOK'
  BY DEF IInv, MainOK
<1> QED BY <1>1, <1>2, <1>3, <1>4, <1>5, <1>6 DEF IInv

LEMMA EndCallbackInv ==
  ASSUME IInv, EndCallback PROVE IInv'
<1> USE DEF EndCallback, mainVars, robin, stopVars, ioVars, logic
<1>1. TypeOK'
  BY DEF IInv, TypeOK, WorkerOK
<1>2. RoundOK'
  BY DEF IInv, RoundOK, Ahead
<1>3. OnceOK'
  BY DEF IInv, OnceOK
<1>4. WorkerOK'
  BY DEF WorkerOK
<1>5. ThreadsOK'
  BY DEF IInv, ThreadsOK
<1>6. MainOK'
  BY DEF IInv, MainOK
<1> QED BY <1>1, <1>2, <1>3, <1>4, <1>5, <1>6 DEF IInv

LEMMA WorkerExitsInv ==
  ASSUME IInv, WorkerExits PROVE IInv'
<1> USE DEF WorkerExits, mainVars, robin, stopVars, ioVars, logic
<1>1. TypeOK'
  BY DEF IInv, TypeOK
<1>2. RoundOK'
  BY DEF IInv, RoundOK, Ahead
<1>3. OnceOK'
  BY DEF IInv, OnceOK
<1>4. WorkerOK'
  BY DEF WorkerOK
<1>5. ThreadsOK'
  BY DEF IInv, ThreadsOK
<1>6. MainOK'
  BY DEF IInv, MainOK
<1> QED BY <1>1, <1>2, <1>3, <1>4, <1>5, <1>6 DEF IInv

LEMMA HandleInv ==
  ASSUME IInv, NEW t \in Services, Handle(t) PROVE IInv'
<1> USE DEF Handle, mainVars, robin, stopVars, ioVars, logic, At
<1>1. TypeOK'
  BY DEF IInv, TypeOK
<1>2. RoundOK'
  BY DEF IInv, RoundOK, Ahead
<1>3. OnceOK'
  BY DEF IInv, OnceOK
<1>4. WorkerOK'
  BY DEF IInv, WorkerOK
<1>5. ThreadsOK'
  BY DEF IInv, ThreadsOK
<1>6. MainOK'
  BY DEF IInv, MainOK
<1> QED BY <1>1, <1>2, <1>3, <1>4, <1>5, <1>6 DEF IInv

LEMMA HandlerReturnsInv ==
  ASSUME IInv, NEW t \in Services, HandlerReturns(t) PROVE IInv'
<1> USE DEF HandlerReturns, mainVars, robin, stopVars, ioVars, logic, At
<1>1. TypeOK'
  BY DEF IInv, TypeOK
<1>2. RoundOK'
  BY DEF IInv, RoundOK, Ahead
<1>3. OnceOK'
  BY DEF IInv, OnceOK
<1>4. WorkerOK'
  BY DEF IInv, WorkerOK
<1>5. ThreadsOK'
  BY DEF IInv, ThreadsOK
<1>6. MainOK'
  BY DEF IInv, MainOK
<1> QED BY <1>1, <1>2, <1>3, <1>4, <1>5, <1>6 DEF IInv

LEMMA GetInstanceInv ==
  ASSUME IInv, NEW t \in Services, GetInstance(t) PROVE IInv'
<1> USE DEF GetInstance, mainVars, robin, stopVars, ioVars, logic, At, OnceUnset
<1>1. TypeOK'
  BY DEF IInv, TypeOK
<1>2. RoundOK'
  BY DEF IInv, RoundOK, Ahead
<1>3. OnceOK'
  BY DEF IInv, TypeOK, OnceOK
<1>4. WorkerOK'
  BY DEF IInv, WorkerOK
<1>5. ThreadsOK'
  BY DEF IInv, TypeOK, ThreadsOK
<1>6. MainOK'
  BY DEF IInv, MainOK
<1> QED BY <1>1, <1>2, <1>3, <1>4, <1>5, <1>6 DEF IInv

LEMMA ConstructInv ==
  ASSUME IInv, NEW t \in Services, Construct(t) PROVE IInv'
<1> USE DEF Construct, mainVars, robin, stopVars, ioVars, logic, At
<1>1. TypeOK'
  BY DEF IInv, TypeOK
<1>2. RoundOK'
  BY DEF IInv, RoundOK, Ahead
<1>3. OnceOK'
  BY DEF IInv, TypeOK, OnceOK
<1>4. WorkerOK'
  BY DEF WorkerOK
<1>5. ThreadsOK'
  BY DEF IInv, ThreadsOK
<1>6. MainOK'
  BY DEF IInv, MainOK
<1> QED BY <1>1, <1>2, <1>3, <1>4, <1>5, <1>6 DEF IInv

LEMMA PostInv ==
  ASSUME IInv, NEW t \in Services, Post(t) PROVE IInv'
<1> USE DEF Post, mainVars, robin, stopVars, ioVars, logic, At
<1>1. TypeOK'
  BY DEF IInv, TypeOK
<1>2. RoundOK'
  BY DEF IInv, RoundOK, Ahead
<1>3. OnceOK'
  BY DEF IInv, OnceOK
<1>4. WorkerOK'
  BY DEF WorkerOK
<1>5. ThreadsOK'
  BY DEF IInv, ThreadsOK
<1>6. MainOK'
  BY DEF IInv, MainOK
<1> QED BY <1>1, <1>2, <1>3, <1>4, <1>5, <1>6 DEF IInv

LEMMA ThreadExitsInv ==
  ASSUME IInv, NEW t \in Services, ThreadExits(t) PROVE IInv'
<1> USE DEF ThreadExits, mainVars, robin, stopVars, ioVars, logic, MayReturn
<1>1. TypeOK'
  BY DEF IInv, TypeOK
<1>2. RoundOK'
  BY DEF IInv, RoundOK, Ahead
<1>3. OnceOK'
  BY DEF IInv, OnceOK
<1>4. WorkerOK'
  BY DEF IInv, WorkerOK
<1>5. ThreadsOK'
  BY DEF IInv, ThreadsOK
<1>6. MainOK'
  BY DEF IInv, MainOK
<1> QED BY <1>1, <1>2, <1>3, <1>4, <1>5, <1>6 DEF IInv

-----------------------------------------------------------------------------
LEMMA InitInv == Init => IInv
<1> SUFFICES ASSUME Init PROVE IInv
  OBVIOUS
<1> USE DEF Init, Services
<1>1. TypeOK
  <2>1. next \in Services /\ stopped \in 0 .. PoolSize /\ joined \in 0 .. PoolSize
    BY PoolAssumption
  <2>2. /\ handed \in [Services -> Nat] /\ sessions \in [Services -> Nat]
        /\ busy \in [Services -> {"no", "handler", "once", "posting"}]
    OBVIOUS
  <2> QED BY <2>1, <2>2 DEF TypeOK
<1>2. RoundOK
  BY DEF RoundOK, Ahead
<1>3. OnceOK /\ WorkerOK
  BY DEF OnceOK, WorkerOK
<1>4. ThreadsOK /\ MainOK
  BY DEF ThreadsOK, MainOK
<1> QED BY <1>1, <1>2, <1>3, <1>4 DEF IInv

LEMMA NextInv == IInv /\ [Next]_vars => IInv'
<1> SUFFICES ASSUME IInv, [Next]_vars PROVE IInv'
  OBVIOUS
<1>1. CASE Main
  BY <1>1, ConstructServerInv, ConstructorThrowsInv, HandleAcceptInv, SignalInv,
     StopServiceInv, JoinThreadInv, RunReturnsInv, DestroyServerInv, DestroyPoolInv,
     StopLogicInv, EndInv DEF Main
<1>2. CASE Worker
  BY <1>2, BeginCallbackInv, EndCallbackInv, WorkerExitsInv DEF Worker
<1>3. ASSUME NEW t \in Services, IO(t) PROVE IInv'
  BY <1>3, HandleInv, HandlerReturnsInv, GetInstanceInv, ConstructInv, PostInv,
     ThreadExitsInv DEF IO
<1>4. CASE UNCHANGED vars
  BY <1>4 DEF vars, IInv, TypeOK, RoundOK, OnceOK, WorkerOK, ThreadsOK, MainOK,
              Services, Ahead
<1> QED BY <1>1, <1>2, <1>3, <1>4 DEF Next

(* Every reachable state satisfies the inductive invariant.                *)
THEOREM Invariance == Spec => []IInv
  BY InitInv, NextInv, PTL DEF Spec

(* Every variable keeps to its type: GetIOService stays inside the vector. *)
THEOREM TypeCorrect == Spec => []TypeOK
<1>1. IInv => TypeOK
  BY DEF IInv
<1> QED BY <1>1, Invariance, PTL

(* No io_service of the pool gets two connections more than another.       *)
THEOREM HandedOutEvenly == Spec => []Balanced
<1>1. IInv => Balanced
  BY DEF IInv, TypeOK, RoundOK, Ahead, Balanced
<1> QED BY <1>1, Invariance, PTL

(* Concurrent first messages construct one logic system.                   *)
THEOREM ConstructedOnce == Spec => []OneInstance
<1>1. IInv => OneInstance
  BY DEF IInv, TypeOK, OnceOK, OneInstance
<1> QED BY <1>1, Invariance, PTL

(* The handlers are over before the server they refer to is destroyed.     *)
THEOREM HandlersHaveServer == Spec => []ServerOutlivesHandlers
<1>1. IInv => ServerOutlivesHandlers
  BY DEF IInv, TypeOK, ThreadsOK, MainOK, ServerOutlivesHandlers, Services
<1> QED BY <1>1, Invariance, PTL
=============================================================================
