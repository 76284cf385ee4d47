------------------------- MODULE LogicQueueProofs -------------------------
(***************************************************************************)
(* For any set of I/O threads, any kinds of messages and any number of     *)
(* posts: no wakeup of a message is lost, the worker never touches the     *)
(* front of an empty queue, nothing is left behind when it exits, and      *)
(* PostMsgToQue and DealMsg implement the ordered service.                 *)
(***************************************************************************)
EXTENDS LogicQueue, SequenceTheorems, TLAPS

(* The destructor runs after the pool is joined, and the worker leaves its *)
(* loop only because of the destructor.                                    *)
ShutdownOK ==
  /\ b_stop <=> main \in {"notify", "join", "gone"}
  /\ worker \in {"drain", "exited"} => b_stop
  /\ main \notin {"running", "stopping"} => \A p \in Producers : io[p] = "idle"

(* What the worker knows about the queue where it is.                      *)
WorkerOK ==
  /\ worker = "decide" => b_stop \/ msg_que # <<>>
  /\ worker = "serve" => msg_que # <<>>
  /\ worker = "wait" => msg_que = <<>>
  /\ worker = "exited" => msg_que = <<>>

(* The queue holds the messages posted last.                               *)
QueueOK ==
  /\ Len(msg_que) <= Len(posted)
  /\ \A i \in 1 .. Len(msg_que) :
       msg_que[i] = posted[Len(posted) - Len(msg_que) + i]

IInv == TypeOK /\ ShutdownOK /\ WorkerOK /\ NoLostWakeup /\ QueueOK

-----------------------------------------------------------------------------
LEMMA EnterHandlerInv == ASSUME IInv, NEW p \in Producers, EnterHandler(p) PROVE IInv'
<1> USE DEF EnterHandler
<1>1. TypeOK'
  BY DEF IInv, TypeOK
<1>2. ShutdownOK'
  BY DEF IInv, ShutdownOK
<1>3. WorkerOK'
  BY DEF IInv, WorkerOK
<1>4. NoLostWakeup'
  BY DEF IInv, NoLostWakeup
<1>5. QueueOK'
  BY DEF IInv, QueueOK
<1> QED BY <1>1, <1>2, <1>3, <1>4, <1>5 DEF IInv

LEMMA LeaveHandlerInv == ASSUME IInv, NEW p \in Producers, LeaveHandler(p) PROVE IInv'
<1> USE DEF LeaveHandler
<1>1. TypeOK'
  BY DEF IInv, TypeOK
<1>2. ShutdownOK'
  BY DEF IInv, ShutdownOK
<1>3. WorkerOK'
  BY DEF IInv, WorkerOK
<1>4. NoLostWakeup'
  BY DEF IInv, NoLostWakeup
<1>5. QueueOK'
  BY DEF IInv, QueueOK
<1> QED BY <1>1, <1>2, <1>3, <1>4, <1>5 DEF IInv

LEMMA PostMsgToQueInv ==
  ASSUME IInv, NEW p \in Producers, NEW k \in Kinds, PostMsgToQue(p, k)
  PROVE  IInv'
<1> DEFINE m == [from |-> p, kind |-> k]
<1>1. /\ msg_que' = Append(msg_que, m) /\ posted' = Append(posted, m)
      /\ io[p] = "handler" /\ mutex = "free"
      /\ io' = IF NotifyNeeded THEN [io EXCEPT ![p] = "notify"] ELSE io
      /\ UNCHANGED <<mutex, b_stop, worker, main, terminated, called>>
  BY DEF PostMsgToQue
<1>2. m \in Message /\ msg_que \in Seq(Message) /\ posted \in Seq(Message)
  BY DEF IInv, TypeOK, Message
<1> HIDE DEF m
<1>3. /\ msg_que' \in Seq(Message) /\ posted' \in Seq(Message)
      /\ Len(msg_que') = Len(msg_que) + 1 /\ Len(posted') = Len(posted) + 1
      /\ msg_que' # <<>>
      /\ \A i \in 1 .. Len(msg_que) : msg_que'[i] = msg_que[i]
      /\ \A i \in 1 .. Len(posted) : posted'[i] = posted[i]
      /\ msg_que'[Len(msg_que) + 1] = m /\ posted'[Len(posted) + 1] = m
  BY <1>1, <1>2, AppendProperties
<1>4. Len(msg_que) \in Nat /\ Len(posted) \in Nat
  BY <1>2
<1>5. io' \in [Producers -> {"idle", "handler", "notify"}]
  BY <1>1 DEF IInv, TypeOK
<1>6. TypeOK'
  BY <1>1, <1>3, <1>5 DEF IInv, TypeOK
<1>7. main \in {"running", "stopping"}
  BY <1>1 DEF IInv, ShutdownOK
<1>8. ShutdownOK'
  BY <1>1, <1>7 DEF IInv, ShutdownOK
<1>9. WorkerOK'
  BY <1>1, <1>3, <1>7 DEF IInv, WorkerOK, ShutdownOK, TypeOK
<1>10. NoLostWakeup'
  <2> SUFFICES ASSUME worker = "waiting"
               PROVE  \E q \in Producers : io'[q] = "notify"
    BY <1>1 DEF NoLostWakeup
  <2>1. CASE msg_que = <<>>
    <3>1. NotifyNeeded
      BY <2>1, <1>3 DEF NotifyNeeded
    <3> QED BY <3>1, <1>1 DEF IInv, TypeOK
  <2>2. CASE msg_que # <<>>
    <3>1. PICK q \in Producers : io[q] = "notify"
      BY <2>2 DEF IInv, NoLostWakeup
    <3> QED BY <3>1, <1>1 DEF IInv, TypeOK
  <2> QED BY <2>1, <2>2
<1>11. QueueOK'
  <2>1. Len(msg_que) <= Len(posted)
    BY DEF IInv, QueueOK
  <2>2. ASSUME NEW i \in 1 .. Len(msg_que')
        PROVE  msg_que'[i] = posted'[Len(posted') - Len(msg_que') + i]
    <3>1. CASE i = Len(msg_que) + 1
      BY <3>1, <1>3, <1>4
    <3>2. CASE i \in 1 .. Len(msg_que)
      <4>1. Len(posted) - Len(msg_que) + i \in 1 .. Len(posted)
        BY <3>2, <1>4, <2>1
      <4>2. msg_que[i] = posted[Len(posted) - Len(msg_que) + i]
        BY <3>2 DEF IInv, QueueOK
      <4> QED BY <3>2, <4>1, <4>2, <1>3, <1>4
    <3> QED BY <3>1, <3>2, <1>3, <1>4
  <2> QED BY <2>1, <2>2, <1>3, <1>4 DEF QueueOK
<1> QED BY <1>6, <1>8, <1>9, <1>10, <1>11 DEF IInv

(* Taking the front leaves the messages posted last in the queue, and      *)
(* counts one more message as passed: the next one of the service.         *)
LEMMA TakeFrontPasses ==
  ASSUME IInv, TakeFront, UNCHANGED posted
  PROVE  /\ msg_que' \in Seq(Message) /\ called' \in Seq(Message)
         /\ QueueOK'
         /\ Len(posted) - Len(msg_que) < Len(posted)
         /\ Len(posted) - Len(msg_que') = Len(posted) - Len(msg_que) + 1
         /\ Head(msg_que) = posted[Len(posted) - Len(msg_que) + 1]
<1>1. /\ msg_que # <<>> /\ msg_que' = Tail(msg_que)
      /\ called' = IF Head(msg_que).kind \in Registered
                     THEN Append(called, Head(msg_que)) ELSE called
      /\ posted' = posted
  BY DEF TakeFront, Popped
<1>2. /\ msg_que \in Seq(Message) /\ called \in Seq(Message)
      /\ posted \in Seq(Message)
  BY DEF IInv, TypeOK
<1>3. /\ Len(msg_que) \in Nat \ {0} /\ Len(posted) \in Nat
      /\ Head(msg_que) = msg_que[1]
  BY <1>1, <1>2
<1>4. /\ msg_que' \in Seq(Message) /\ Len(msg_que') = Len(msg_que) - 1
      /\ \A i \in 1 .. Len(msg_que') : msg_que'[i] = msg_que[i + 1]
  BY <1>1, <1>2, HeadTailProperties
<1>5. Head(msg_que) \in Message
  BY <1>1, <1>2, HeadTailProperties
<1>6. called' \in Seq(Message)
  <2>1. Append(called, Head(msg_que)) \in Seq(Message)
    BY <1>2, <1>5, AppendProperties
  <2> QED BY <2>1, <1>1, <1>2
<1>7. /\ Len(msg_que) <= Len(posted)
      /\ \A i \in 1 .. Len(msg_que) :
           msg_que[i] = posted[Len(posted) - Len(msg_que) + i]
  BY DEF IInv, QueueOK
<1>8. Head(msg_que) = posted[Len(posted) - Len(msg_que) + 1]
  BY <1>3, <1>7
<1>9. QueueOK'
  <2>1. ASSUME NEW i \in 1 .. Len(msg_que')
        PROVE  msg_que'[i] = posted'[Len(posted') - Len(msg_que') + i]
    <3>1. i + 1 \in 1 .. Len(msg_que)
      BY <1>3, <1>4
    <3>2. /\ msg_que'[i] = msg_que[i + 1]
          /\ msg_que[i + 1] = posted[Len(posted) - Len(msg_que) + (i + 1)]
      BY <3>1, <1>4, <1>7
    <3>3. Len(posted) - Len(msg_que) + (i + 1) = Len(posted') - Len(msg_que') + i
      BY <1>1, <1>3, <1>4
    <3> QED BY <3>2, <3>3, <1>1
  <2>2. Len(msg_que') <= Len(posted')
    BY <1>1, <1>3, <1>4, <1>7
  <2> QED BY <2>1, <2>2 DEF QueueOK
<1> QED BY <1>3, <1>4, <1>6, <1>8, <1>9

LEMMA PostNotifyInv == ASSUME IInv, NEW p \in Producers, PostNotify(p) PROVE IInv'
<1> USE DEF PostNotify, Notify
<1>1. TypeOK'
  BY DEF IInv, TypeOK
<1>2. ShutdownOK'
  BY DEF IInv, ShutdownOK
<1>3. WorkerOK'
  BY DEF IInv, WorkerOK
<1>4. NoLostWakeup'
  BY DEF NoLostWakeup
<1>5. QueueOK'
  BY DEF IInv, QueueOK
<1> QED BY <1>1, <1>2, <1>3, <1>4, <1>5 DEF IInv

LEMMA LockInv == ASSUME IInv, Lock PROVE IInv'
<1> USE DEF Lock, Recheck
<1>1. TypeOK'
  BY DEF IInv, TypeOK
<1>2. ShutdownOK'
  BY DEF IInv, ShutdownOK
<1>3. WorkerOK'
  BY DEF WorkerOK
<1>4. NoLostWakeup'
  BY DEF NoLostWakeup
<1>5. QueueOK'
  BY DEF IInv, QueueOK
<1> QED BY <1>1, <1>2, <1>3, <1>4, <1>5 DEF IInv

LEMMA CheckInv == ASSUME IInv, Check PROVE IInv'
<1> USE DEF Check, NothingToDo
<1>1. TypeOK'
  BY DEF IInv, TypeOK
<1>2. ShutdownOK'
  BY DEF IInv, ShutdownOK
<1>3. WorkerOK'
  BY DEF WorkerOK
<1>4. NoLostWakeup'
  BY DEF NoLostWakeup
<1>5. QueueOK'
  BY DEF IInv, QueueOK
<1> QED BY <1>1, <1>2, <1>3, <1>4, <1>5 DEF IInv

LEMMA WaitInv == ASSUME IInv, Wait PROVE IInv'
<1> USE DEF Wait, Release
<1>1. TypeOK'
  BY DEF IInv, TypeOK
<1>2. ShutdownOK'
  BY DEF IInv, ShutdownOK
<1>3. WorkerOK'
  BY DEF WorkerOK
<1>4. NoLostWakeup'
  BY DEF IInv, WorkerOK, NoLostWakeup
<1>5. QueueOK'
  BY DEF IInv, QueueOK
<1> QED BY <1>1, <1>2, <1>3, <1>4, <1>5 DEF IInv

LEMMA SpuriousWakeupInv == ASSUME IInv, SpuriousWakeup PROVE IInv'
<1> USE DEF SpuriousWakeup
<1>1. TypeOK'
  BY DEF IInv, TypeOK
<1>2. ShutdownOK'
  BY DEF IInv, ShutdownOK
<1>3. WorkerOK'
  BY DEF WorkerOK
<1>4. NoLostWakeup'
  BY DEF NoLostWakeup
<1>5. QueueOK'
  BY DEF IInv, QueueOK
<1> QED BY <1>1, <1>2, <1>3, <1>4, <1>5 DEF IInv

LEMMA DecideInv == ASSUME IInv, Decide PROVE IInv'
<1> USE DEF Decide
<1>1. TypeOK'
  BY DEF IInv, TypeOK
<1>2. ShutdownOK'
  BY DEF IInv, ShutdownOK
<1>3. WorkerOK'
  BY DEF IInv, WorkerOK
<1>4. NoLostWakeup'
  BY DEF NoLostWakeup
<1>5. QueueOK'
  BY DEF IInv, QueueOK
<1> QED BY <1>1, <1>2, <1>3, <1>4, <1>5 DEF IInv

LEMMA ServeInv == ASSUME IInv, Serve PROVE IInv'
<1> USE DEF Serve, Release
<1>1. TypeOK'
  BY TakeFrontPasses DEF IInv, TypeOK
<1>2. ShutdownOK'
  BY DEF IInv, ShutdownOK
<1>3. WorkerOK'
  BY DEF WorkerOK
<1>4. NoLostWakeup'
  BY DEF NoLostWakeup
<1>5. QueueOK'
  BY TakeFrontPasses
<1> QED BY <1>1, <1>2, <1>3, <1>4, <1>5 DEF IInv

LEMMA DrainInv == ASSUME IInv, Drain PROVE IInv'
<1> USE DEF Drain
<1>1. TypeOK'
  BY TakeFrontPasses DEF IInv, TypeOK
<1>2. ShutdownOK'
  BY DEF IInv, ShutdownOK
<1>3. WorkerOK'
  BY DEF WorkerOK
<1>4. NoLostWakeup'
  BY DEF NoLostWakeup
<1>5. QueueOK'
  BY TakeFrontPasses
<1> QED BY <1>1, <1>2, <1>3, <1>4, <1>5 DEF IInv

LEMMA ExitInv == ASSUME IInv, Exit PROVE IInv'
<1> USE DEF Exit, Release, MayExit
<1>1. TypeOK'
  BY DEF IInv, TypeOK
<1>2. ShutdownOK'
  BY DEF IInv, ShutdownOK
<1>3. WorkerOK'
  BY DEF WorkerOK
<1>4. NoLostWakeup'
  BY DEF NoLostWakeup
<1>5. QueueOK'
  BY DEF QueueOK
<1> QED BY <1>1, <1>2, <1>3, <1>4, <1>5 DEF IInv

LEMMA CallbackThrowsInv == ASSUME IInv, CallbackThrows PROVE IInv'
<1> USE DEF CallbackThrows
<1>1. TypeOK'
  BY DEF IInv, TypeOK
<1>2. ShutdownOK'
  BY DEF IInv, ShutdownOK
<1>3. WorkerOK'
  BY DEF WorkerOK
<1>4. NoLostWakeup'
  BY DEF NoLostWakeup
<1>5. QueueOK'
  BY DEF IInv, QueueOK
<1> QED BY <1>1, <1>2, <1>3, <1>4, <1>5 DEF IInv

LEMMA StopPoolInv == ASSUME IInv, StopPool PROVE IInv'
<1> USE DEF StopPool
<1>1. TypeOK'
  BY DEF IInv, TypeOK
<1>2. ShutdownOK'
  BY DEF IInv, ShutdownOK
<1>3. WorkerOK'
  BY DEF IInv, WorkerOK
<1>4. NoLostWakeup'
  BY DEF IInv, NoLostWakeup
<1>5. QueueOK'
  BY DEF IInv, QueueOK
<1> QED BY <1>1, <1>2, <1>3, <1>4, <1>5 DEF IInv

LEMMA JoinPoolInv == ASSUME IInv, JoinPool PROVE IInv'
<1> USE DEF JoinPool, AllIdle
<1>1. TypeOK'
  BY DEF IInv, TypeOK
<1>2. ShutdownOK'
  BY DEF IInv, ShutdownOK
<1>3. WorkerOK'
  BY DEF IInv, WorkerOK
<1>4. NoLostWakeup'
  BY DEF IInv, NoLostWakeup
<1>5. QueueOK'
  BY DEF IInv, QueueOK
<1> QED BY <1>1, <1>2, <1>3, <1>4, <1>5 DEF IInv

LEMMA SetStopInv == ASSUME IInv, SetStop PROVE IInv'
<1> USE DEF SetStop
<1>1. TypeOK'
  BY DEF IInv, TypeOK
<1>2. ShutdownOK'
  BY DEF IInv, ShutdownOK
<1>3. WorkerOK'
  BY DEF IInv, WorkerOK
<1>4. NoLostWakeup'
  BY DEF IInv, NoLostWakeup
<1>5. QueueOK'
  BY DEF IInv, QueueOK
<1> QED BY <1>1, <1>2, <1>3, <1>4, <1>5 DEF IInv

LEMMA NotifyStopInv == ASSUME IInv, NotifyStop PROVE IInv'
<1> USE DEF NotifyStop, Notify
<1>1. TypeOK'
  BY DEF IInv, TypeOK
<1>2. ShutdownOK'
  BY DEF IInv, ShutdownOK
<1>3. WorkerOK'
  BY DEF IInv, WorkerOK
<1>4. NoLostWakeup'
  BY DEF NoLostWakeup
<1>5. QueueOK'
  BY DEF IInv, QueueOK
<1> QED BY <1>1, <1>2, <1>3, <1>4, <1>5 DEF IInv

LEMMA JoinWorkerInv == ASSUME IInv, JoinWorker PROVE IInv'
<1> USE DEF JoinWorker
<1>1. TypeOK'
  BY DEF IInv, TypeOK
<1>2. ShutdownOK'
  BY DEF IInv, ShutdownOK
<1>3. WorkerOK'
  BY DEF IInv, WorkerOK
<1>4. NoLostWakeup'
  BY DEF NoLostWakeup
<1>5. QueueOK'
  BY DEF IInv, QueueOK
<1> QED BY <1>1, <1>2, <1>3, <1>4, <1>5 DEF IInv

-----------------------------------------------------------------------------
LEMMA InitInv == Init => IInv
<1> SUFFICES ASSUME Init PROVE IInv
  OBVIOUS
<1>1. TypeOK
  <2>1. io \in [Producers -> {"idle", "handler", "notify"}]
    BY DEF Init
  <2>2. msg_que \in Seq(Message) /\ posted \in Seq(Message) /\ called \in Seq(Message)
    BY DEF Init
  <2> QED BY <2>1, <2>2 DEF Init, TypeOK
<1>2. ShutdownOK /\ WorkerOK /\ NoLostWakeup /\ QueueOK
  BY DEF Init, ShutdownOK, WorkerOK, NoLostWakeup, QueueOK
<1> QED BY <1>1, <1>2 DEF IInv

LEMMA NextInv == IInv /\ [Next]_vars => IInv'
<1> SUFFICES ASSUME IInv, [Next]_vars PROVE IInv'
  OBVIOUS
<1>1. ASSUME NEW p \in Producers, Producer(p) PROVE IInv'
  BY <1>1, EnterHandlerInv, LeaveHandlerInv, PostMsgToQueInv, PostNotifyInv DEF Producer
<1>2. CASE DealMsg
  BY <1>2, LockInv, CheckInv, WaitInv, DecideInv, ServeInv, DrainInv, ExitInv, CallbackThrowsInv DEF DealMsg
<1>3. CASE SpuriousWakeup
  BY <1>3, SpuriousWakeupInv
<1>4. CASE Shutdown
  BY <1>4, StopPoolInv, JoinPoolInv, SetStopInv, NotifyStopInv, JoinWorkerInv DEF Shutdown
<1>5. CASE UNCHANGED vars
  BY <1>5 DEF vars, IInv, TypeOK, ShutdownOK, WorkerOK, NoLostWakeup, QueueOK
<1> QED BY <1>1, <1>2, <1>3, <1>4, <1>5 DEF Next

(* Every reachable state satisfies the inductive invariant.                *)
THEOREM Invariance == Spec => []IInv
  BY InitInv, NextInv, PTL DEF Spec

(* Every variable of the logic queue keeps to its type, and the worker     *)
(* holds the mutex exactly where DealMsg does.                             *)
THEOREM TypeCorrect == Spec => []TypeOK
<1>1. IInv => TypeOK
  BY DEF IInv
<1> QED BY <1>1, Invariance, PTL

(* The notification sent only for the first message of an empty queue, and *)
(* after the unlock, is enough: the worker never sleeps through a message. *)
THEOREM WakesUp == Spec => []NoLostWakeup
<1>1. IInv => NoLostWakeup
  BY DEF IInv
<1> QED BY <1>1, Invariance, PTL

(* DealMsg calls front() only on a queue that has a front.                 *)
THEOREM FrontIsThere == Spec => []FrontExists
<1>1. IInv => FrontExists
  BY DEF IInv, WorkerOK, FrontExists
<1> QED BY <1>1, Invariance, PTL

(* When the worker is gone, the queue is empty and stays empty.            *)
THEOREM DrainsAll == Spec => []NothingLeftBehind
<1>1. IInv => NothingLeftBehind
  BY DEF IInv, WorkerOK, ShutdownOK, NothingLeftBehind
<1> QED BY <1>1, Invariance, PTL

(* The messages go through the logic system in the order in which they     *)
(* were posted, each once, and the callbacks see exactly the known ones.   *)
THEOREM Refines == Spec => Ordered
<1>1. Init => Service!Init
  BY DEF Init, Service!Init
<1>2. IInv /\ [Next]_vars => [Service!Next]_(Service!vars)
  <2> SUFFICES ASSUME IInv, [Next]_vars PROVE [Service!Next]_(Service!vars)
    OBVIOUS
  <2> USE DEF Service!vars, Service!Next
  <2>1. ASSUME NEW p \in Producers, NEW k \in Kinds, PostMsgToQue(p, k)
        PROVE  [Service!Next]_(Service!vars)
    <3>1. /\ Len(posted') = Len(posted) + 1 /\ Len(msg_que') = Len(msg_que) + 1
          /\ Len(posted) \in Nat /\ Len(msg_que) \in Nat
      BY <2>1 DEF PostMsgToQue
    <3> QED BY <2>1, <3>1 DEF PostMsgToQue, Service!Post
  <2>2. ASSUME Serve \/ Drain PROVE [Service!Next]_(Service!vars)
    <3>1. TakeFront /\ ~terminated /\ UNCHANGED <<posted, terminated>>
      BY <2>2 DEF Serve, Drain
    <3>2. /\ Len(posted) - Len(msg_que) < Len(posted)
          /\ Len(posted) - Len(msg_que') = Len(posted) - Len(msg_que) + 1
          /\ Head(msg_que) = posted[Len(posted) - Len(msg_que) + 1]
      BY <3>1, TakeFrontPasses
    <3>3. CASE Head(msg_que).kind \in Registered
      BY <2>2, <3>1, <3>2, <3>3 DEF TakeFront, Service!Call
    <3>4. CASE Head(msg_que).kind \notin Registered
      BY <2>2, <3>1, <3>2, <3>4 DEF TakeFront, Service!Skip
    <3> QED BY <3>3, <3>4
  <2>3. CASE CallbackThrows
    BY <2>3 DEF CallbackThrows, Service!Die
  <2>4. ASSUME NEW p \in Producers, EnterHandler(p) \/ LeaveHandler(p) \/ PostNotify(p)
        PROVE  [Service!Next]_(Service!vars)
    BY <2>4 DEF EnterHandler, LeaveHandler, PostNotify
  <2>5. CASE \/ Lock \/ Check \/ Wait \/ Decide \/ Exit \/ SpuriousWakeup
             \/ Shutdown \/ UNCHANGED vars
    BY <2>5 DEF Lock, Check, Wait, Decide, Exit, SpuriousWakeup, Shutdown, StopPool,
                JoinPool, SetStop, NotifyStop, JoinWorker, vars
  <2> QED BY <2>1, <2>2, <2>3, <2>4, <2>5 DEF Next, Producer, DealMsg
<1> QED BY <1>1, <1>2, Invariance, PTL DEF Spec, Ordered, Service!Spec
=============================================================================
