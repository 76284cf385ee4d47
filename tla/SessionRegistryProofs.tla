----------------------- MODULE SessionRegistryProofs -----------------------
(***************************************************************************)
(* For any number of sessions and messages: nobody works on a session that *)
(* is destructed, and a session that reads stays registered from its       *)
(* insertion to its own error.                                             *)
(***************************************************************************)
EXTENDS SessionRegistry, SequenceTheorems, TLAPS

(* A session without a holder never finds one again.                       *)
DeadOK == \A s \in destructed : ~Held(s)

(* The session under accept is new to the map until it is inserted.        *)
AcceptOK ==
  accept # "inserted" => fresh \cap inserted = {}

(* The worker has a message, and knows the session it forwards to.         *)
WorkerOK ==
  /\ worker # "idle" => que # <<>>
  /\ worker \in {"index", "forward"} => target \in made
  /\ to_session \subseteq {target}
  /\ worker # "forward" => to_session = {}

(* A handler that removes its session has closed it.                       *)
ClearOK == \A s \in Sessions : /\ io[s] # "idle" => s \in made
                               /\ io[s] = "clear" => s \in closed

(* An outstanding write writes the front of a queue that has one.          *)
SendOK == \A s \in writing : unsent[s] > 0

IInv == TypeOK /\ DeadOK /\ AcceptOK /\ WorkerOK /\ ClearOK /\ SendOK
          /\ RegisteredWhileReading

-----------------------------------------------------------------------------
(* Whatever the step, a session destructed by it has no holder; so only    *)
(* those destructed before are left to look at.                            *)
LEMMA DeadStep ==
  ASSUME Destruct, \A s \in destructed : ~Held(s)'
  PROVE  DeadOK'
  BY DEF Destruct, DeadOK

(* Send starts a write only of a message it has queued.                    *)
LEMMA SendQueues ==
  ASSUME unsent \in [Sessions -> Nat], writing \subseteq Sessions, SendOK,
         NEW x \in Sessions, Send(x)
  PROVE  SendOK'
<1> SUFFICES ASSUME NEW s \in writing' PROVE unsent'[s] > 0
  BY DEF SendOK
<1>1. CASE s = x
  <2>1. unsent'[x] = unsent[x] + 1 /\ unsent[x] \in Nat
    BY DEF Send
  <2> QED BY <1>1, <2>1
<1>2. CASE s # x
  <2>1. s \in writing
    BY <1>2 DEF Send
  <2>2. unsent'[s] = unsent[s]
    BY <1>2, <2>1 DEF Send
  <2> QED BY <2>1, <2>2 DEF SendOK
<1> QED BY <1>1, <1>2

LEMMA AcceptStartInv == ASSUME IInv, AcceptStart PROVE IInv'
<1> USE DEF AcceptStart, acceptVars, ioVars, sendVars, workerVars
<1>1. TypeOK'
  BY SessionRegistryAssumption DEF IInv, TypeOK, Destruct
<1>2. DeadOK'
  BY DeadStep DEF IInv, DeadOK, Held, BoundToHandler
<1>3. AcceptOK'
  BY DEF IInv, AcceptOK
<1>4. WorkerOK'
  BY DEF IInv, WorkerOK
<1>5. ClearOK'
  BY DEF IInv, ClearOK
<1>6. RegisteredWhileReading'
  BY DEF IInv, AcceptOK, RegisteredWhileReading
<1>7. SendOK'
  BY DEF IInv, SendOK
<1> QED BY <1>1, <1>2, <1>3, <1>4, <1>5, <1>6, <1>7 DEF IInv

LEMMA AcceptInsertInv == ASSUME IInv, AcceptInsert PROVE IInv'
<1> USE DEF AcceptInsert, acceptVars, ioVars, sendVars, workerVars
<1>1. TypeOK'
  BY SessionRegistryAssumption DEF IInv, TypeOK, Destruct
<1>2. DeadOK'
  BY DeadStep DEF IInv, TypeOK, DeadOK, Held, BoundToHandler
<1>3. AcceptOK'
  BY DEF AcceptOK
<1>4. WorkerOK'
  BY DEF IInv, WorkerOK
<1>5. ClearOK'
  BY DEF IInv, ClearOK
<1>6. RegisteredWhileReading'
  BY DEF IInv, TypeOK, RegisteredWhileReading
<1>7. SendOK'
  BY DEF IInv, SendOK
<1> QED BY <1>1, <1>2, <1>3, <1>4, <1>5, <1>6, <1>7 DEF IInv

LEMMA StartAcceptInv == ASSUME IInv, StartAccept PROVE IInv'
<1> USE DEF StartAccept, acceptVars, ioVars, sendVars, workerVars, NewSession
<1>1. TypeOK'
  BY SessionRegistryAssumption DEF IInv, TypeOK, Destruct
<1>2. DeadOK'
  BY DeadStep DEF IInv, TypeOK, DeadOK, Held, BoundToHandler
<1>3. AcceptOK'
  BY DEF IInv, TypeOK, AcceptOK
<1>4. WorkerOK'
  BY DEF IInv, WorkerOK
<1>5. ClearOK'
  <2>1. made \subseteq made'
    OBVIOUS
  <2> QED BY <2>1 DEF IInv, ClearOK
<1>6. RegisteredWhileReading'
  BY DEF IInv, RegisteredWhileReading
<1>7. SendOK'
  BY DEF IInv, SendOK
<1> QED BY <1>1, <1>2, <1>3, <1>4, <1>5, <1>6, <1>7 DEF IInv

LEMMA AcceptErrorInv == ASSUME IInv, AcceptError PROVE IInv'
<1> USE DEF AcceptError, acceptVars, ioVars, sendVars, workerVars, NewSession
<1>1. TypeOK'
  BY SessionRegistryAssumption DEF IInv, TypeOK, Destruct
<1>2. DeadOK'
  BY DeadStep DEF IInv, TypeOK, DeadOK, Held, BoundToHandler
<1>3. AcceptOK'
  BY DEF IInv, TypeOK, AcceptOK
<1>4. WorkerOK'
  BY DEF IInv, WorkerOK
<1>5. ClearOK'
  <2>1. made \subseteq made'
    OBVIOUS
  <2> QED BY <2>1 DEF IInv, ClearOK
<1>6. RegisteredWhileReading'
  BY DEF IInv, RegisteredWhileReading
<1>7. SendOK'
  BY DEF IInv, SendOK
<1> QED BY <1>1, <1>2, <1>3, <1>4, <1>5, <1>6, <1>7 DEF IInv

LEMMA ReadMessageInv == ASSUME IInv, NEW s \in Sessions, ReadMessage(s) PROVE IInv'
<1> USE DEF ReadMessage, acceptVars, ioVars, sendVars, workerVars
<1>1. TypeOK'
  BY SessionRegistryAssumption DEF IInv, TypeOK, Destruct
<1>2. DeadOK'
  BY DeadStep DEF IInv, DeadOK, Held, BoundToHandler
<1>3. AcceptOK'
  BY DEF IInv, AcceptOK
<1>4. WorkerOK'
  BY DEF IInv, WorkerOK
<1>5. ClearOK'
  BY DEF IInv, ClearOK
<1>6. RegisteredWhileReading'
  BY DEF IInv, RegisteredWhileReading
<1>7. SendOK'
  BY DEF IInv, SendOK
<1> QED BY <1>1, <1>2, <1>3, <1>4, <1>5, <1>6, <1>7 DEF IInv

LEMMA ReadRejectInv == ASSUME IInv, NEW s \in Sessions, ReadReject(s) PROVE IInv'
<1> USE DEF ReadReject, acceptVars, ioVars, sendVars, workerVars, ReadNoMore
<1>1. TypeOK'
  BY SessionRegistryAssumption DEF IInv, TypeOK, Destruct
<1>2. DeadOK'
  BY DeadStep DEF IInv, DeadOK, Held, BoundToHandler
<1>3. AcceptOK'
  BY DEF IInv, AcceptOK
<1>4. WorkerOK'
  BY DEF IInv, WorkerOK
<1>5. ClearOK'
  BY DEF IInv, ClearOK
<1>6. RegisteredWhileReading'
  BY DEF IInv, RegisteredWhileReading
<1>7. SendOK'
  BY DEF IInv, SendOK
<1> QED BY <1>1, <1>2, <1>3, <1>4, <1>5, <1>6, <1>7 DEF IInv

LEMMA ReadThrowInv == ASSUME IInv, NEW s \in Sessions, ReadThrow(s) PROVE IInv'
<1> USE DEF ReadThrow, acceptVars, ioVars, sendVars, workerVars, ReadNoMore
<1>1. TypeOK'
  BY SessionRegistryAssumption DEF IInv, TypeOK, Destruct
<1>2. DeadOK'
  BY DeadStep DEF IInv, DeadOK, Held, BoundToHandler
<1>3. AcceptOK'
  BY DEF IInv, AcceptOK
<1>4. WorkerOK'
  BY DEF IInv, WorkerOK
<1>5. ClearOK'
  BY DEF IInv, ClearOK
<1>6. RegisteredWhileReading'
  BY DEF IInv, RegisteredWhileReading
<1>7. SendOK'
  BY DEF IInv, SendOK
<1> QED BY <1>1, <1>2, <1>3, <1>4, <1>5, <1>6, <1>7 DEF IInv

LEMMA ReadErrorInv == ASSUME IInv, NEW s \in Sessions, ReadError(s) PROVE IInv'
<1> USE DEF ReadError, acceptVars, ioVars, sendVars, workerVars, ReadNoMore
<1>1. TypeOK'
  BY SessionRegistryAssumption DEF IInv, TypeOK, Destruct
<1>2. DeadOK'
  BY DeadStep DEF IInv, DeadOK, Held, BoundToHandler
<1>3. AcceptOK'
  BY DEF IInv, AcceptOK
<1>4. WorkerOK'
  BY DEF IInv, WorkerOK
<1>5. ClearOK'
  BY DEF IInv, TypeOK, ClearOK
<1>6. RegisteredWhileReading'
  BY DEF IInv, RegisteredWhileReading
<1>7. SendOK'
  BY DEF IInv, SendOK
<1> QED BY <1>1, <1>2, <1>3, <1>4, <1>5, <1>6, <1>7 DEF IInv

LEMMA WriteOkInv == ASSUME IInv, NEW s \in Sessions, WriteOk(s) PROVE IInv'
<1> USE DEF WriteOk, acceptVars, ioVars, sendVars, workerVars
<1>1. TypeOK'
  BY SessionRegistryAssumption DEF IInv, TypeOK, Destruct, SendOK
<1>2. DeadOK'
  BY DeadStep DEF IInv, DeadOK, Held, BoundToHandler
<1>3. AcceptOK'
  BY DEF IInv, AcceptOK
<1>4. WorkerOK'
  BY DEF IInv, WorkerOK
<1>5. ClearOK'
  BY DEF IInv, ClearOK
<1>6. RegisteredWhileReading'
  BY DEF IInv, RegisteredWhileReading
<1>7. SendOK'
  BY DEF IInv, SendOK
<1> QED BY <1>1, <1>2, <1>3, <1>4, <1>5, <1>6, <1>7 DEF IInv

LEMMA WriteErrorInv == ASSUME IInv, NEW s \in Sessions, WriteError(s) PROVE IInv'
<1> USE DEF WriteError, acceptVars, ioVars, sendVars, workerVars
<1>1. TypeOK'
  BY SessionRegistryAssumption DEF IInv, TypeOK, Destruct
<1>2. DeadOK'
  BY DeadStep DEF IInv, DeadOK, Held, BoundToHandler
<1>3. AcceptOK'
  BY DEF IInv, AcceptOK
<1>4. WorkerOK'
  BY DEF IInv, WorkerOK
<1>5. ClearOK'
  BY DEF IInv, TypeOK, ClearOK
<1>6. RegisteredWhileReading'
  BY DEF IInv, RegisteredWhileReading
<1>7. SendOK'
  BY DEF IInv, SendOK
<1> QED BY <1>1, <1>2, <1>3, <1>4, <1>5, <1>6, <1>7 DEF IInv

LEMMA CloseInv == ASSUME IInv, NEW s \in Sessions, Close(s) PROVE IInv'
<1> USE DEF Close, acceptVars, ioVars, sendVars, workerVars
<1>1. TypeOK'
  <2>1. s \in made
    BY DEF IInv, ClearOK
  <2>2. destructed' \subseteq made
    BY DEF IInv, TypeOK, Destruct
  <2>3. io' \in [Sessions -> {"idle", "close", "clear"}]
    BY DEF IInv, TypeOK
  <2> QED BY <2>1, <2>2, <2>3 DEF IInv, TypeOK
<1>2. DeadOK'
  BY DeadStep DEF IInv, DeadOK, Held, BoundToHandler
<1>3. AcceptOK'
  BY DEF IInv, AcceptOK
<1>4. WorkerOK'
  BY DEF IInv, WorkerOK
<1>5. ClearOK'
  BY DEF IInv, ClearOK
<1>6. RegisteredWhileReading'
  BY DEF IInv, RegisteredWhileReading
<1>7. SendOK'
  BY DEF IInv, SendOK
<1> QED BY <1>1, <1>2, <1>3, <1>4, <1>5, <1>6, <1>7 DEF IInv

LEMMA ClearSessionInv == ASSUME IInv, NEW s \in Sessions, ClearSession(s) PROVE IInv'
<1> USE DEF ClearSession, acceptVars, ioVars, sendVars, workerVars, Erase
<1>1. TypeOK'
  BY SessionRegistryAssumption DEF IInv, TypeOK, Destruct
<1>2. DeadOK'
  BY DeadStep DEF IInv, DeadOK, Held, BoundToHandler
<1>3. AcceptOK'
  BY DEF IInv, AcceptOK
<1>4. WorkerOK'
  BY DEF IInv, WorkerOK
<1>5. ClearOK'
  BY DEF IInv, ClearOK
<1>6. RegisteredWhileReading'
  BY DEF IInv, ClearOK, RegisteredWhileReading
<1>7. SendOK'
  BY DEF IInv, SendOK
<1> QED BY <1>1, <1>2, <1>3, <1>4, <1>5, <1>6, <1>7 DEF IInv

LEMMA FindInv == ASSUME IInv, Find PROVE IInv'
<1> USE DEF Find, acceptVars, ioVars, sendVars, workerVars
<1>1. TypeOK'
  BY SessionRegistryAssumption DEF IInv, TypeOK, Destruct
<1>2. DeadOK'
  BY DeadStep DEF IInv, DeadOK, Held, BoundToHandler
<1>3. AcceptOK'
  BY DEF IInv, AcceptOK
<1>4. WorkerOK'
  BY DEF IInv, TypeOK, WorkerOK
<1>5. ClearOK'
  BY DEF IInv, ClearOK
<1>6. RegisteredWhileReading'
  BY DEF IInv, RegisteredWhileReading
<1>7. SendOK'
  BY DEF IInv, SendOK
<1> QED BY <1>1, <1>2, <1>3, <1>4, <1>5, <1>6, <1>7 DEF IInv

LEMMA IndexInv == ASSUME IInv, Index PROVE IInv'
<1> USE DEF Index, acceptVars, ioVars, sendVars, workerVars
<1>1. TypeOK'
  BY SessionRegistryAssumption DEF IInv, TypeOK, Destruct, WorkerOK
<1>2. DeadOK'
  BY DeadStep DEF IInv, DeadOK, Held, BoundToHandler
<1>3. AcceptOK'
  BY DEF IInv, AcceptOK
<1>4. WorkerOK'
  BY DEF IInv, WorkerOK
<1>5. ClearOK'
  BY DEF IInv, ClearOK
<1>6. RegisteredWhileReading'
  BY DEF IInv, RegisteredWhileReading
<1>7. SendOK'
  BY DEF IInv, SendOK
<1> QED BY <1>1, <1>2, <1>3, <1>4, <1>5, <1>6, <1>7 DEF IInv

LEMMA ForwardInv == ASSUME IInv, Forward PROVE IInv'
<1> USE DEF Forward, acceptVars, ioVars, sendVars, workerVars, Send, DropTarget
<1>1. TypeOK'
  <2>1. to_session # {} => target \in made /\ made \subseteq Sessions
    BY DEF IInv, TypeOK, WorkerOK
  <2>2. unsent' \in [Sessions -> Nat] /\ writing' \subseteq made
    BY <2>1 DEF IInv, TypeOK
  <2>3. destructed' \subseteq made
    BY DEF IInv, TypeOK, Destruct
  <2> QED BY <2>2, <2>3 DEF IInv, TypeOK
<1>2. DeadOK'
  BY DeadStep DEF IInv, DeadOK, WorkerOK, Held, BoundToHandler
<1>3. AcceptOK'
  BY DEF IInv, AcceptOK
<1>4. WorkerOK'
  BY DEF IInv, WorkerOK
<1>5. ClearOK'
  BY DEF IInv, ClearOK
<1>6. RegisteredWhileReading'
  BY DEF IInv, RegisteredWhileReading
<1>7. SendOK'
  <2>1. unsent \in [Sessions -> Nat] /\ writing \subseteq Sessions /\ SendOK
    BY DEF IInv, TypeOK
  <2>2. CASE to_session = {}
    BY <2>1, <2>2 DEF SendOK
  <2>3. CASE to_session # {}
    <3>1. target \in Sessions
      BY <2>3 DEF IInv, TypeOK, WorkerOK
    <3> QED BY <2>1, <2>3, <3>1, SendQueues DEF Send
  <2> QED BY <2>2, <2>3
<1> QED BY <1>1, <1>2, <1>3, <1>4, <1>5, <1>6, <1>7 DEF IInv

LEMMA ReplyInv == ASSUME IInv, Reply PROVE IInv'
<1> USE DEF Reply, acceptVars, ioVars, sendVars, workerVars, Send
<1>1. TypeOK'
  <2>1. que \in Seq(made) /\ que # <<>> /\ made \subseteq Sessions /\ Caller \in made
    <3>1. que \in Seq(made) /\ que # <<>> /\ made \subseteq Sessions
      BY DEF IInv, TypeOK
    <3> QED BY <3>1, HeadTailProperties DEF Caller
  <2>2. que' \in Seq(made)
    BY <2>1, HeadTailProperties
  <2>3. online' \subseteq made /\ writing' \subseteq made
    BY <2>1 DEF IInv, TypeOK
  <2>4. unsent' \in [Sessions -> Nat]
    BY <2>1 DEF IInv, TypeOK
  <2>5. destructed' \subseteq made
    BY DEF IInv, TypeOK, Destruct
  <2> QED BY <2>2, <2>3, <2>4, <2>5 DEF IInv, TypeOK
<1>2. DeadOK'
  BY DeadStep DEF IInv, DeadOK, Held, BoundToHandler, Caller
<1>3. AcceptOK'
  BY DEF IInv, AcceptOK
<1>4. WorkerOK'
  BY DEF IInv, WorkerOK
<1>5. ClearOK'
  BY DEF IInv, ClearOK
<1>6. RegisteredWhileReading'
  BY DEF IInv, RegisteredWhileReading
<1>7. SendOK'
  <2>1. unsent \in [Sessions -> Nat] /\ writing \subseteq Sessions /\ SendOK
    BY DEF IInv, TypeOK
  <2>2. Caller \in Sessions
    <3>1. que \in Seq(made) /\ que # <<>> /\ made \subseteq Sessions
      BY DEF IInv, TypeOK
    <3> QED BY <3>1, HeadTailProperties DEF Caller
  <2>3. CASE UNCHANGED sendVars
    BY <2>1, <2>3 DEF SendOK
  <2>4. CASE Send(Caller)
    BY <2>1, <2>2, <2>4, SendQueues DEF Send
  <2> QED BY <2>3, <2>4
<1> QED BY <1>1, <1>2, <1>3, <1>4, <1>5, <1>6, <1>7 DEF IInv

-----------------------------------------------------------------------------
LEMMA InitInv == Init => IInv
<1> SUFFICES ASSUME Init PROVE IInv
  OBVIOUS
<1>1. TypeOK
  BY SessionRegistryAssumption DEF Init, TypeOK
<1>2. DeadOK /\ AcceptOK /\ WorkerOK /\ ClearOK /\ SendOK /\ RegisteredWhileReading
  BY DEF Init, DeadOK, AcceptOK, WorkerOK, ClearOK, SendOK,
         RegisteredWhileReading
<1> QED BY <1>1, <1>2 DEF IInv

LEMMA NextInv == IInv /\ [Next]_vars => IInv'
<1> SUFFICES ASSUME IInv, [Next]_vars PROVE IInv'
  OBVIOUS
<1>1. CASE Accept
  BY <1>1, AcceptStartInv, AcceptInsertInv, StartAcceptInv, AcceptErrorInv DEF Accept
<1>2. ASSUME NEW s \in Sessions, IO(s) PROVE IInv'
  BY <1>2, ReadMessageInv, ReadRejectInv, ReadThrowInv, ReadErrorInv, WriteOkInv,
     WriteErrorInv, CloseInv, ClearSessionInv DEF IO
<1>3. CASE Callback
  BY <1>3, FindInv, IndexInv, ForwardInv, ReplyInv DEF Callback
<1>4. CASE UNCHANGED vars
  BY <1>4 DEF vars, IInv, TypeOK, DeadOK, AcceptOK, WorkerOK, ClearOK, SendOK,
              RegisteredWhileReading, Held, BoundToHandler
<1> QED BY <1>1, <1>2, <1>3, <1>4 DEF Next

(* Every reachable state satisfies the inductive invariant.                *)
THEOREM Invariance == Spec => []IInv
  BY InitInv, NextInv, PTL DEF Spec

(* Every variable of the registry keeps to its type.                       *)
THEOREM TypeCorrect == Spec => []TypeOK
<1>1. IInv => TypeOK
  BY DEF IInv
<1> QED BY <1>1, Invariance, PTL

(* The shared_ptrs of handlers, nodes and locals are enough: no handler    *)
(* and no callback ever works on a destructed session.                     *)
THEOREM NoUseAfterDestruction == Spec => []UsedIsAlive
<1>1. IInv => UsedIsAlive
  <2> SUFFICES ASSUME IInv, NEW s \in destructed
               PROVE  /\ s \notin reading \cup writing \cup to_session
                      /\ io[s] = "idle"
                      /\ que # <<>> => Caller # s
    BY DEF UsedIsAlive
  <2>1. ~Held(s)
    BY DEF IInv, DeadOK
  <2>2. que # <<>> => Caller # s
    <3> SUFFICES ASSUME que # <<>> PROVE Caller # s
      OBVIOUS
    <3>1. que \in Seq(made)
      BY DEF IInv, TypeOK
    <3>2. 1 \in 1 .. Len(que) /\ Head(que) = que[1]
      BY <3>1
    <3> QED BY <3>2, <2>1 DEF Held, Caller
  <2> QED BY <2>1, <2>2 DEF Held, BoundToHandler
<1> QED BY <1>1, Invariance, PTL

(* Only its own error or end takes a reading session out of the map.       *)
THEOREM StaysRegistered == Spec => []RegisteredWhileReading
<1>1. IInv => RegisteredWhileReading
  BY DEF IInv
<1> QED BY <1>1, Invariance, PTL
=============================================================================
