----------------------------- MODULE LogicQueue -----------------------------
(***************************************************************************)
(* The message queue of LogicSystem: PostMsgToQue on the I/O threads,      *)
(* DealMsg on the one worker thread, and the destructor on the main thread.*)
(*                                                                         *)
(* What a thread does under _mutex with data only _mutex protects is one   *)
(* step.  Everything that is not protected is a step of its own: the       *)
(* notify_one after the unlock, the two reads of _b_stop in DealMsg, and   *)
(* the write of _b_stop, which the destructor does without the mutex.      *)
(* condition_variable::wait puts the worker into the wait set and releases *)
(* the mutex atomically, and may wake up without a notification.           *)
(***************************************************************************)
EXTENDS Integers, Sequences

CONSTANTS Producers,  (* threads of the io_service pool                    *)
          Kinds,      (* kinds of messages                                 *)
          Registered, (* the kinds whose id has a callback                 *)
          Throwing,   (* the kinds whose callback throws: a stoi of a      *)
                      (* string that is not a number                       *)
          MaxPosts    (* bound: messages posted                            *)

ASSUME LogicQueueAssumption ==
  /\ Throwing \subseteq Registered
  /\ Registered \subseteq Kinds
  /\ MaxPosts \in Nat

VARIABLES
  msg_que,    (* _msg_que                                                  *)
  mutex,      (* the worker holds _mutex; producers hold it within a step  *)
  b_stop,     (* _b_stop                                                   *)
  worker,     (* where DealMsg is                                          *)
  io,         (* where each I/O thread is                                  *)
  main,       (* where the main thread is on its way out                   *)
  terminated, (* an exception left DealMsg: std::terminate                 *)
  posted,     (* history: the messages pushed                              *)
  called      (* history: the messages given to a callback                 *)

vars == <<msg_que, mutex, b_stop, worker, io, main, terminated, posted, called>>

Message == [from : Producers, kind : Kinds]

Init ==
  /\ msg_que = <<>>
  /\ mutex = "free"
  /\ b_stop = FALSE
  /\ worker = "lock"
  /\ io = [p \in Producers |-> "idle"]
  /\ main = "running"
  /\ terminated = FALSE
  /\ posted = <<>>
  /\ called = <<>>

(* notify_one: nothing happens unless the worker is in the wait set.       *)
Notify == worker' = IF worker = "waiting" THEN "relock" ELSE worker

Release == mutex' = "free"

-----------------------------------------------------------------------------
(* An I/O thread.  io_service::stop keeps it from starting a handler, but  *)
(* the handler under way goes on, and may post more than one message.      *)

EnterHandler(p) ==
  /\ ~terminated
  /\ io[p] = "idle"
  /\ main = "running"
  /\ io' = [io EXCEPT ![p] = "handler"]
  /\ UNCHANGED <<msg_que, mutex, b_stop, worker, main, terminated, posted, called>>

LeaveHandler(p) ==
  /\ ~terminated
  /\ io[p] = "handler"
  /\ io' = [io EXCEPT ![p] = "idle"]
  /\ UNCHANGED <<msg_que, mutex, b_stop, worker, main, terminated, posted, called>>

NotifyOnTwo == Len(msg_que') = 2

(* Only the push that makes the queue non-empty notifies.                  *)
NotifyNeeded == Len(msg_que') = 1

PostMsgToQue(p, k) ==
  /\ ~terminated
  /\ io[p] = "handler"
  /\ mutex = "free"
  /\ Len(posted) < MaxPosts
  /\ msg_que' = Append(msg_que, [from |-> p, kind |-> k])
  /\ posted' = Append(posted, [from |-> p, kind |-> k])
  /\ io' = IF NotifyNeeded THEN [io EXCEPT ![p] = "notify"] ELSE io
  /\ UNCHANGED <<mutex, b_stop, worker, main, terminated, called>>

PostNotify(p) ==
  /\ ~terminated
  /\ io[p] = "notify"
  /\ io' = [io EXCEPT ![p] = "handler"]
  /\ Notify
  /\ UNCHANGED <<msg_que, mutex, b_stop, main, terminated, posted, called>>

Producer(p) == \/ EnterHandler(p)
               \/ LeaveHandler(p)
               \/ \E k \in Kinds : PostMsgToQue(p, k)
               \/ PostNotify(p)

-----------------------------------------------------------------------------
(* DealMsg on the worker.                                                  *)

IfInsteadOfWhile == IF worker = "relock" THEN "decide" ELSE "check"

(* After a wait the condition is tested again.                             *)
Recheck == "check"

Lock ==
  /\ ~terminated
  /\ worker \in {"lock", "relock"}
  /\ mutex = "free"
  /\ mutex' = "worker"
  /\ worker' = Recheck
  /\ UNCHANGED <<msg_que, b_stop, io, main, terminated, posted, called>>

NothingToDo == msg_que = <<>> /\ ~b_stop

(* The condition of the inner while loop.                                  *)
Check ==
  /\ ~terminated
  /\ worker = "check"
  /\ worker' = IF NothingToDo THEN "wait" ELSE "decide"
  /\ UNCHANGED <<msg_que, mutex, b_stop, io, main, terminated, posted, called>>

Wait ==
  /\ ~terminated
  /\ worker = "wait"
  /\ worker' = "waiting"
  /\ Release
  /\ UNCHANGED <<msg_que, b_stop, io, main, terminated, posted, called>>

SpuriousWakeup ==
  /\ ~terminated
  /\ worker = "waiting"
  /\ worker' = "relock"
  /\ UNCHANGED <<msg_que, mutex, b_stop, io, main, terminated, posted, called>>

(* The second read of _b_stop.                                             *)
Decide ==
  /\ ~terminated
  /\ worker = "decide"
  /\ worker' = IF b_stop THEN "drain" ELSE "serve"
  /\ UNCHANGED <<msg_que, mutex, b_stop, io, main, terminated, posted, called>>

NotPopped == msg_que

Popped == Tail(msg_que)

(* The callback of the front message runs to its end, under the mutex, and *)
(* the message is popped; a message without a callback is only popped.     *)
TakeFront ==
  /\ msg_que # <<>>
  /\ Head(msg_que).kind \notin Throwing
  /\ called' = IF Head(msg_que).kind \in Registered
                 THEN Append(called, Head(msg_que)) ELSE called
  /\ msg_que' = Popped

Serve ==
  /\ ~terminated
  /\ worker = "serve"
  /\ TakeFront
  /\ worker' = "lock"
  /\ Release
  /\ UNCHANGED <<b_stop, io, main, terminated, posted>>

Drain ==
  /\ ~terminated
  /\ worker = "drain"
  /\ TakeFront
  /\ UNCHANGED <<mutex, b_stop, worker, io, main, terminated, posted>>

MayExit == msg_que = <<>>

Exit ==
  /\ ~terminated
  /\ worker = "drain"
  /\ MayExit
  /\ worker' = "exited"
  /\ Release
  /\ UNCHANGED <<msg_que, b_stop, io, main, terminated, posted, called>>

CallbackThrows ==
  /\ ~terminated
  /\ worker \in {"serve", "drain"}
  /\ msg_que # <<>>
  /\ Head(msg_que).kind \in Throwing
  /\ terminated' = TRUE
  /\ UNCHANGED <<msg_que, mutex, b_stop, worker, io, main, posted, called>>

DealMsg == Lock \/ Check \/ Wait \/ Decide \/ Serve \/ Drain \/ Exit
             \/ CallbackThrows

-----------------------------------------------------------------------------
(* The main thread: the signal handler stops the pool and joins its        *)
(* threads; after main has returned, the destructor of the static          *)
(* LogicSystem stops the worker.                                           *)

StopPool ==
  /\ ~terminated
  /\ main = "running"
  /\ main' = "stopping"
  /\ UNCHANGED <<msg_que, mutex, b_stop, worker, io, terminated, posted, called>>

JoinNobody == TRUE

AllIdle == \A p \in Producers : io[p] = "idle"

JoinPool ==
  /\ ~terminated
  /\ main = "stopping"
  /\ AllIdle
  /\ main' = "joined"
  /\ UNCHANGED <<msg_que, mutex, b_stop, worker, io, terminated, posted, called>>

SetStop ==
  /\ ~terminated
  /\ main = "joined"
  /\ b_stop' = TRUE
  /\ main' = "notify"
  /\ UNCHANGED <<msg_que, mutex, worker, io, terminated, posted, called>>

NotifyStop ==
  /\ ~terminated
  /\ main = "notify"
  /\ Notify
  /\ main' = "join"
  /\ UNCHANGED <<msg_que, mutex, b_stop, io, terminated, posted, called>>

JoinWorker ==
  /\ ~terminated
  /\ main = "join"
  /\ worker = "exited"
  /\ main' = "gone"
  /\ UNCHANGED <<msg_que, mutex, b_stop, worker, io, terminated, posted, called>>

Shutdown == StopPool \/ JoinPool \/ SetStop \/ NotifyStop \/ JoinWorker

Next == \/ \E p \in Producers : Producer(p)
        \/ DealMsg
        \/ SpuriousWakeup
        \/ Shutdown

Spec == Init /\ [][Next]_vars

(* The threads run, and an I/O thread ends the handler it is in; nobody    *)
(* has to post, to send a signal or to wake up without a reason.           *)
Fairness ==
  /\ WF_vars(DealMsg)
  /\ \A p \in Producers : WF_vars(PostNotify(p) \/ LeaveHandler(p))
  /\ WF_vars(JoinPool \/ SetStop \/ NotifyStop \/ JoinWorker)

LiveSpec == Spec /\ Fairness

-----------------------------------------------------------------------------
(* Every variable has a value of its type, and the worker holds _mutex     *)
(* exactly from its lock to its wait, to the end of a message or to the    *)
(* end of DealMsg: LogicSystem.cpp:32-70.                                  *)
TypeOK ==
  /\ msg_que \in Seq(Message)
  /\ mutex \in {"free", "worker"}
  /\ b_stop \in BOOLEAN
  /\ worker \in {"lock", "check", "wait", "waiting", "relock", "decide",
                 "serve", "drain", "exited"}
  /\ io \in [Producers -> {"idle", "handler", "notify"}]
  /\ main \in {"running", "stopping", "joined", "notify", "join", "gone"}
  /\ terminated \in BOOLEAN
  /\ posted \in Seq(Message)
  /\ called \in Seq(Message)
  /\ mutex = "worker" <=>
       worker \in {"check", "wait", "decide", "serve", "drain"}

(* No wakeup of a message is lost: when the worker sleeps although the     *)
(* queue is not empty, the thread that made it so is about to notify       *)
(* (LogicSystem.cpp:22-26 notifies only when the size becomes 1, and after *)
(* the unlock).                                                            *)
NoLostWakeup ==
  worker = "waiting" /\ msg_que # <<>> => \E p \in Producers : io[p] = "notify"

(* The worker never calls front() on an empty queue, although it tests     *)
(* _b_stop twice and the destructor may set it in between (lines 34, 39    *)
(* and 56).                                                                *)
FrontExists == worker = "serve" => msg_que # <<>>

(* Once the worker has left DealMsg nothing is in the queue and nothing    *)
(* will ever be: everybody who could post has gone before.                 *)
NothingLeftBehind ==
  worker = "exited" =>
    msg_que = <<>> /\ \A p \in Producers : io[p] # "handler"

(* PostMsgToQue and DealMsg implement the ordered service.                 *)
Service == INSTANCE OrderedService
             WITH passed <- Len(posted) - Len(msg_que), down <- terminated

Ordered == Service!Spec

(* Every message posted is dealt with, at the latest when the server goes  *)
(* down, unless a callback throws.                                         *)
AllServed == Service!LiveSpec

(* LogicSystem.cpp:38 says that the loop is left once the logic system is  *)
(* closed and everything is executed: a destructor that waits for the      *)
(* worker gets to its end, unless a callback throws.                       *)
CloseEndsLoop == main = "join" ~> (main = "gone" \/ terminated)
=============================================================================
