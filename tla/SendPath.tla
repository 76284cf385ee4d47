------------------------------ MODULE SendPath ------------------------------
(***************************************************************************)
(* The sending side of one CSession: Send, HandleWrite and Close, run by   *)
(* two threads.                                                            *)
(*                                                                         *)
(*   - the worker of the logic system calls Send (LogicSystem.cpp: every   *)
(*     callback runs on it);                                               *)
(*   - the one thread of the session's io_service runs HandleWrite and, in *)
(*     HandleRead, the error path that closes the socket.                  *)
(*                                                                         *)
(* _send_lock is a mutex, so the critical sections are split into steps    *)
(* and the mutex is a variable.  The messages accepted by Send are         *)
(* numbered in order; a message is written in Pieces parts, because the    *)
(* kernel may take any part of it, and two outstanding async_writes on one *)
(* socket would interleave their parts.                                    *)
(***************************************************************************)
EXTENDS Integers, Sequences

CONSTANTS MAX_SENDQUE, (* const.h                                          *)
          Pieces,      (* parts in which the kernel takes a message        *)
          MaxSends     (* bound: calls of Send                             *)

ASSUME SendPathAssumption ==
  /\ MAX_SENDQUE \in Nat
  /\ Pieces \in Nat \ {0}
  /\ MaxSends \in Nat

VARIABLES
  send_que,      (* _send_que: the numbers of the messages it holds        *)
  send_lock,     (* holder of _send_lock: "none", "worker" or "io"         *)
  worker,        (* where the worker is in Send                            *)
  send_que_size, (* Send: the local of that name                           *)
  io,            (* where the I/O thread is in a handler                   *)
  writes,        (* outstanding async_writes: [msg, done]                  *)
  wire,          (* <<message, piece>> given to the kernel, in order       *)
  closed,        (* _socket is closed                                      *)
  cleared,       (* CServer::ClearSession was called                       *)
  reading,       (* the session's async read is still outstanding          *)
  writeFailed,   (* HandleWrite was called with an error                   *)
  sends,         (* calls of Send so far                                   *)
  accepted       (* how many of them pushed a message                      *)

threads == <<worker, send_que_size, io>>
session == <<closed, cleared, reading, writeFailed>>
counts  == <<sends, accepted>>
vars == <<send_que, send_lock, worker, send_que_size, io, writes, wire,
          closed, cleared, reading, writeFailed, sends, accepted>>

Freed == <<0, 0>>   (* what a write finds in a buffer that is gone         *)

Init ==
  /\ send_que = <<>>
  /\ send_lock = "none"
  /\ worker = "idle"
  /\ send_que_size = 0
  /\ io = "idle"
  /\ writes = {}
  /\ wire = <<>>
  /\ closed = FALSE
  /\ cleared = FALSE
  /\ reading = TRUE
  /\ writeFailed = FALSE
  /\ sends = 0
  /\ accepted = 0

(* async_write of the front of the queue.                                  *)
AsyncWriteFront == writes' = writes \cup {[msg |-> send_que[1], done |-> 0]}

NoLock == TRUE

LockFree == send_lock = "none"

-----------------------------------------------------------------------------
(* Send, on the worker.                                                    *)

FullOneLater(size) == size > MAX_SENDQUE + 1

Full(size) == size > MAX_SENDQUE

SendLock ==
  /\ worker = "idle"
  /\ sends < MaxSends
  /\ LockFree
  /\ send_lock' = "worker"
  /\ send_que_size' = Len(send_que)
  /\ sends' = sends + 1
  /\ worker' = "locked"
  /\ UNCHANGED <<send_que, io, writes, wire, session, accepted>>

SendFull ==
  /\ worker = "locked"
  /\ Full(send_que_size)
  /\ worker' = "idle"
  /\ send_lock' = "none"
  /\ UNCHANGED <<send_que, send_que_size, io, writes, wire, session, counts>>

NeverUnderWay(size) == FALSE

WriteUnderWay(size) == size > 0

SendPush ==
  /\ worker = "locked"
  /\ ~Full(send_que_size)
  /\ accepted' = accepted + 1
  /\ send_que' = Append(send_que, accepted + 1)
  /\ worker' = IF WriteUnderWay(send_que_size) THEN "leave" ELSE "start"
  /\ UNCHANGED <<send_lock, send_que_size, io, writes, wire, session, sends>>

SendStart ==
  /\ worker = "start"
  /\ AsyncWriteFront
  /\ worker' = "idle"
  /\ send_lock' = "none"
  /\ UNCHANGED <<send_que, send_que_size, io, wire, session, counts>>

SendLeave ==
  /\ worker = "leave"
  /\ worker' = "idle"
  /\ send_lock' = "none"
  /\ UNCHANGED <<send_que, send_que_size, io, writes, wire, session, counts>>

Send == SendLock \/ SendFull \/ SendPush \/ SendStart \/ SendLeave

-----------------------------------------------------------------------------
(* The kernel and the io_service.                                          *)

PartLeft(w) == w.done < Pieces

BufferAlive(w) == \E i \in 1 .. Len(send_que) : send_que[i] = w.msg

(* The kernel takes the next part of an outstanding write.                 *)
WriteSome ==
  /\ ~closed
  /\ \E w \in writes :
       /\ PartLeft(w)
       /\ wire' = Append(wire, IF BufferAlive(w) THEN <<w.msg, w.done + 1>>
                                                ELSE Freed)
       /\ writes' = (writes \ {w}) \cup {[w EXCEPT !.done = @ + 1]}
  /\ UNCHANGED <<send_que, send_lock, threads, session, counts>>

(* A write has completed: the io_service calls HandleWrite without error.  *)
WriteDone ==
  /\ io = "idle"
  /\ \E w \in writes : /\ w.done = Pieces
                       /\ writes' = writes \ {w}
  /\ io' = "written"
  /\ UNCHANGED <<send_que, send_lock, worker, send_que_size, wire, session,
                 counts>>

(* A write fails, because the peer is gone or the socket was closed.       *)
WriteError ==
  /\ io = "idle"
  /\ \E w \in writes : /\ PartLeft(w)
                       /\ writes' = writes \ {w}
  /\ writeFailed' = TRUE
  /\ io' = "close"
  /\ UNCHANGED <<send_que, send_lock, worker, send_que_size, wire, closed,
                 cleared, reading, counts>>

(* The read fails: HandleRead takes its error branch.                      *)
ReadError ==
  /\ io = "idle"
  /\ reading
  /\ reading' = FALSE
  /\ io' = "close"
  /\ UNCHANGED <<send_que, send_lock, worker, send_que_size, writes, wire,
                 closed, cleared, writeFailed, counts>>

-----------------------------------------------------------------------------
(* HandleWrite without error, and the error branch it shares with          *)
(* HandleRead; on the I/O thread.                                          *)

NotPopped == send_que

Popped == Tail(send_que)

HandleWritePop ==
  /\ io = "written"
  /\ LockFree
  /\ send_lock' = "io"
  /\ send_que' = Popped
  /\ io' = "popped"
  /\ UNCHANGED <<worker, send_que_size, writes, wire, session, counts>>

NoWriteNext == UNCHANGED writes

WriteNext == IF send_que # <<>> THEN AsyncWriteFront ELSE UNCHANGED writes

HandleWriteNext ==
  /\ io = "popped"
  /\ WriteNext
  /\ io' = "idle"
  /\ send_lock' = "none"
  /\ UNCHANGED <<send_que, worker, send_que_size, wire, session, counts>>

Close ==
  /\ io = "close"
  /\ closed' = TRUE
  /\ io' = "clear"
  /\ UNCHANGED <<send_que, send_lock, worker, send_que_size, writes, wire,
                 cleared, reading, writeFailed, counts>>

ClearSession ==
  /\ io = "clear"
  /\ cleared' = TRUE
  /\ io' = "idle"
  /\ UNCHANGED <<send_que, send_lock, worker, send_que_size, writes, wire,
                 closed, reading, writeFailed, counts>>

HandleWrite == HandleWritePop \/ HandleWriteNext \/ Close \/ ClearSession

Next == Send \/ WriteSome \/ WriteDone \/ WriteError \/ ReadError \/ HandleWrite

Spec == Init /\ [][Next]_vars

(* Both threads run, and the kernel takes what an open connection has to   *)
(* write.  Nobody has to call Send, no read has to fail, and the mutex     *)
(* need not be fair: the worker is idle once it has no message to answer.  *)
Fairness == /\ WF_vars(SendFull \/ SendPush \/ SendStart \/ SendLeave)
            /\ WF_vars(WriteSome)
            /\ WF_vars(WriteDone)
            /\ WF_vars(HandleWrite)

LiveSpec == Spec /\ Fairness

-----------------------------------------------------------------------------
(* Every variable has a value of its type, and no write reports more than  *)
(* its message: CSession.h:35-41, CSession.cpp:31-92.                      *)
TypeOK ==
  /\ send_que \in Seq(1 .. MaxSends)
  /\ send_lock \in {"none", "worker", "io"}
  /\ worker \in {"idle", "locked", "start", "leave"}
  /\ send_que_size \in Nat
  /\ io \in {"idle", "written", "popped", "close", "clear"}
  /\ writes \subseteq [msg : 1 .. MaxSends, done : 0 .. Pieces]
  /\ wire \in Seq(Nat \X Nat)
  /\ closed \in BOOLEAN /\ cleared \in BOOLEAN /\ reading \in BOOLEAN
  /\ writeFailed \in BOOLEAN
  /\ sends \in 0 .. MaxSends
  /\ accepted \in 0 .. sends

(* At most one async_write is outstanding, and it writes the front of the  *)
(* queue, whose buffer the queue keeps alive: CSession.cpp:40-45, 78-86.   *)
OneWriteOfFront ==
  \/ writes = {}
  \/ /\ send_que # <<>>
     /\ \E d \in 0 .. Pieces : writes = {[msg |-> send_que[1], done |-> d]}

(* As long as no write has failed, a queue that is not empty has somebody  *)
(* who takes care of its front: an outstanding write, or a thread that is  *)
(* about to start or has just finished one, and never two of them.         *)
SomebodyWrites ==
  LET busy == {who \in {"worker", "write", "written", "popped"} :
                 \/ who = "worker"  /\ worker = "start"
                 \/ who = "write"   /\ writes # {}
                 \/ who = "written" /\ io = "written"
                 \/ who = "popped"  /\ io = "popped" /\ send_que # <<>>}
  IN  /\ (send_que # <<>> /\ ~writeFailed) => busy # {}
      /\ \A a, b \in busy : a = b

(* The queue of a session never holds more than MAX_SENDQUE + 1 messages,  *)
(* not even when its socket is closed and nothing drains it any more.      *)
QueueBound == Len(send_que) <= MAX_SENDQUE + 1

(* Send and HandleWrite implement a FIFO channel.                          *)
Channel == INSTANCE FifoChannel WITH broken <- closed \/ writeFailed

InOrder == Channel!Spec

(* Whatever Send accepts is written in the end, unless the session breaks. *)
AllWritten == Channel!LiveSpec
=============================================================================
