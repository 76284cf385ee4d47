--------------------------- MODULE SendPathProofs ---------------------------
(***************************************************************************)
(* For every capacity, every way the kernel cuts a message and any number  *)
(* of calls: the send path of a session has at most one write outstanding, *)
(* never stalls, keeps its bound and implements a FIFO channel.            *)
(***************************************************************************)
EXTENDS SendPath, SequenceTheorems, TLAPS

(* Who holds the mutex is where it is needed.                              *)
LockOK == /\ send_lock = "worker" <=> worker # "idle"
          /\ send_lock = "io" <=> io = "popped"

(* The local of Send is still the size of the queue, until the push.       *)
SizeOK == /\ worker = "locked" => send_que_size = Len(send_que) /\ accepted < sends
          /\ worker = "start" => Len(send_que) = 1
          /\ Len(send_que) <= MAX_SENDQUE + 1

(* The queue holds the last messages accepted.                             *)
QueueOK == /\ Len(send_que) <= accepted
           /\ \A i \in 1 .. Len(send_que) :
                send_que[i] = accepted - Len(send_que) + i

(* Who is about to write or has written the front.                         *)
Duty == /\ writes # {} =>
             /\ worker # "start" /\ io # "written" /\ io # "popped"
             /\ send_que # <<>> /\ ~writeFailed
             /\ \E d \in 0 .. Pieces :
                  writes = {[msg |-> accepted - Len(send_que) + 1, done |-> d]}
        /\ io = "written" => worker # "start" /\ send_que # <<>> /\ ~writeFailed
        /\ io = "popped" => ~writeFailed
        /\ worker = "start" => io # "written" /\ ~writeFailed
        /\ writeFailed => send_que # <<>>
        /\ send_que # <<>> /\ ~writeFailed =>
             writes # {} \/ worker = "start" \/ io = "written" \/ io = "popped"

(* What the wire has to carry next when the front of the queue is written  *)
(* up to its d-th part.                                                    *)
Expected(d) == IF d < Pieces
                 THEN <<accepted - Len(send_que) + 1, d + 1>>
                 ELSE <<accepted - Len(send_que) + 2, 1>>

WireOK ==
  ~writeFailed =>
    /\ \A w \in writes : Channel!NextPiece = Expected(w.done)
    /\ writes = {} /\ io = "written" => Channel!NextPiece = Expected(Pieces)
    /\ writes = {} /\ io # "written" => Channel!NextPiece = Expected(0)

IInv == TypeOK /\ LockOK /\ SizeOK /\ QueueOK /\ Duty /\ WireOK

-----------------------------------------------------------------------------
LEMMA LastOfAppend ==
  ASSUME NEW S, NEW s \in Seq(S), NEW e \in S
  PROVE  /\ Append(s, e) \in Seq(S)
         /\ Append(s, e) # <<>>
         /\ Append(s, e)[Len(Append(s, e))] = e
<1>1. /\ Append(s, e) \in Seq(S) /\ Len(Append(s, e)) = Len(s) + 1
      /\ Append(s, e)[Len(s) + 1] = e
  BY AppendProperties
<1>2. Len(s) \in Nat
  OBVIOUS
<1> QED BY <1>1, <1>2

LEMMA SendLockInv == ASSUME IInv, SendLock PROVE IInv'
<1> USE SendPathAssumption DEF SendLock, session, LockFree
<1>1. TypeOK'
  BY DEF IInv, TypeOK
<1>2. LockOK'
  BY DEF IInv, LockOK
<1>3. SizeOK'
  BY DEF IInv, TypeOK, SizeOK
<1>4. QueueOK'
  BY DEF IInv, QueueOK
<1>5. Duty'
  BY DEF IInv, Duty
<1>6. WireOK'
  BY DEF IInv, WireOK, Expected, Channel!NextPiece
<1> QED BY <1>1, <1>2, <1>3, <1>4, <1>5, <1>6 DEF IInv

LEMMA SendFullInv == ASSUME IInv, SendFull PROVE IInv'
<1> USE SendPathAssumption DEF SendFull, session, counts, Full
<1>1. TypeOK'
  BY DEF IInv, TypeOK
<1>2. LockOK'
  BY DEF IInv, LockOK
<1>3. SizeOK'
  BY DEF IInv, SizeOK
<1>4. QueueOK'
  BY DEF IInv, QueueOK
<1>5. Duty'
  BY DEF IInv, Duty
<1>6. WireOK'
  BY DEF IInv, WireOK, Expected, Channel!NextPiece
<1> QED BY <1>1, <1>2, <1>3, <1>4, <1>5, <1>6 DEF IInv

LEMMA SendPushInv == ASSUME IInv, SendPush PROVE IInv'
<1> DEFINE len == Len(send_que)
<1>1. /\ worker = "locked" /\ ~(send_que_size > MAX_SENDQUE)
      /\ accepted' = accepted + 1
      /\ send_que' = Append(send_que, accepted + 1)
      /\ worker' = IF send_que_size > 0 THEN "leave" ELSE "start"
      /\ UNCHANGED <<send_lock, send_que_size, io, writes, wire, closed, cleared,
                     reading, writeFailed, sends>>
  BY DEF SendPush, Full, WriteUnderWay, session
<1>2. /\ send_que \in Seq(1 .. MaxSends) /\ len \in Nat
      /\ accepted \in Nat /\ sends \in 0 .. MaxSends /\ accepted < sends
      /\ send_que_size = len /\ len <= accepted
      /\ MAX_SENDQUE \in Nat /\ MaxSends \in Nat /\ Pieces \in Nat \ {0}
  BY <1>1, SendPathAssumption DEF IInv, TypeOK, SizeOK, QueueOK
<1>3. /\ send_que' \in Seq(1 .. MaxSends) /\ Len(send_que') = len + 1
      /\ \A i \in 1 .. len : send_que'[i] = send_que[i]
      /\ send_que'[len + 1] = accepted + 1
  <2>1. accepted + 1 \in 1 .. MaxSends
    BY <1>2
  <2> QED BY <1>1, <1>2, <2>1
<1>4. TypeOK'
  <2>1. worker' \in {"idle", "locked", "start", "leave"} /\ accepted' \in 0 .. sends
    BY <1>1, <1>2
  <2> QED BY <1>1, <1>3, <2>1 DEF IInv, TypeOK
<1>5. LockOK'
  BY <1>1 DEF IInv, LockOK
<1>6. SizeOK'
  BY <1>1, <1>2, <1>3 DEF SizeOK
<1>7. QueueOK'
  BY <1>1, <1>2, <1>3 DEF IInv, QueueOK
<1>8. /\ accepted' - Len(send_que') = accepted - len
      /\ send_que' # <<>> /\ (send_que = <<>> <=> ~(send_que_size > 0))
  BY <1>1, <1>2, <1>3
<1>9. Duty'
  <2>1. CASE send_que_size > 0
    <3>1. worker' = "leave" /\ send_que # <<>>
      BY <1>1, <1>8, <2>1
    <3> QED BY <3>1, <1>1, <1>8 DEF IInv, Duty
  <2>2. CASE ~(send_que_size > 0)
    <3>1. worker' = "start" /\ send_que = <<>>
      BY <1>1, <1>8, <2>2
    <3> QED BY <3>1, <1>1, <1>8 DEF IInv, Duty
  <2> QED BY <2>1, <2>2
<1>10. WireOK'
  <2>1. ASSUME NEW d \in 0 .. Pieces PROVE Expected(d)' = Expected(d)
    BY <1>2, <1>8 DEF Expected
  <2>2. Channel!NextPiece' = Channel!NextPiece
    BY <1>1 DEF Channel!NextPiece, Channel!Succ
  <2>3. \A w \in writes : w.done \in 0 .. Pieces
    BY DEF IInv, TypeOK
  <2>4. /\ \A w \in writes : Expected(w.done)' = Expected(w.done)
        /\ Expected(0)' = Expected(0) /\ Expected(Pieces)' = Expected(Pieces)
    BY <1>2, <2>1, <2>3
  <2> QED BY <1>1, <2>2, <2>4 DEF IInv, WireOK
<1> QED BY <1>4, <1>5, <1>6, <1>7, <1>9, <1>10 DEF IInv

LEMMA SendStartInv == ASSUME IInv, SendStart PROVE IInv'
<1>1. /\ worker = "start" /\ worker' = "idle" /\ send_lock' = "none"
      /\ writes' = writes \cup {[msg |-> send_que[1], done |-> 0]}
      /\ UNCHANGED <<send_que, send_que_size, io, wire, closed, cleared,
                     reading, writeFailed, sends, accepted>>
  BY DEF SendStart, AsyncWriteFront, session, counts
<1>2. /\ writes = {} /\ io # "written" /\ io # "popped" /\ ~writeFailed
      /\ send_lock = "worker"
  BY <1>1 DEF IInv, Duty, LockOK
<1>3. /\ Len(send_que) = 1 /\ send_que # <<>> /\ send_que[1] \in 1 .. MaxSends
      /\ send_que[1] = accepted - Len(send_que) + 1
      /\ 0 \in 0 .. Pieces
  <2>1. /\ send_que \in Seq(1 .. MaxSends) /\ Len(send_que) = 1
        /\ Pieces \in Nat
    BY <1>1, SendPathAssumption DEF IInv, TypeOK, SizeOK
  <2>2. 1 \in 1 .. Len(send_que)
    BY <2>1
  <2>3. send_que[1] = accepted - Len(send_que) + 1
    BY <2>2 DEF IInv, QueueOK
  <2>4. send_que[1] \in 1 .. MaxSends
    BY <2>1, <2>2, ElementOfSeq
  <2>5. send_que # <<>>
    BY <2>1
  <2>6. 0 \in 0 .. Pieces
    BY <2>1
  <2> QED BY <2>1, <2>3, <2>4, <2>5, <2>6
<1>4. writes' = {[msg |-> accepted - Len(send_que) + 1, done |-> 0]}
  BY <1>1, <1>2, <1>3
<1>5. TypeOK'
  <2>1. writes' \subseteq [msg : 1 .. MaxSends, done : 0 .. Pieces]
    BY <1>3, <1>4
  <2> QED BY <1>1, <2>1 DEF IInv, TypeOK
<1>6. LockOK' /\ SizeOK' /\ QueueOK'
  BY <1>1, <1>2 DEF IInv, LockOK, SizeOK, QueueOK
<1>7. Duty'
  BY <1>1, <1>2, <1>3, <1>4 DEF Duty
<1>8. WireOK'
  <2>1. Channel!NextPiece' = Channel!NextPiece /\ Channel!NextPiece = Expected(0)
    BY <1>1, <1>2 DEF IInv, WireOK, Channel!NextPiece
  <2>2. Expected(0)' = Expected(0)
    BY <1>1 DEF Expected
  <2>3. writes' # {} /\ \A w \in writes' : w.done = 0
    BY <1>4
  <2> QED BY <2>1, <2>2, <2>3 DEF WireOK
<1> QED BY <1>5, <1>6, <1>7, <1>8 DEF IInv

LEMMA SendLeaveInv == ASSUME IInv, SendLeave PROVE IInv'
<1> USE SendPathAssumption DEF SendLeave, session, counts
<1>1. TypeOK'
  BY DEF IInv, TypeOK
<1>2. LockOK'
  BY DEF IInv, LockOK
<1>3. SizeOK'
  BY DEF IInv, SizeOK
<1>4. QueueOK'
  BY DEF IInv, QueueOK
<1>5. Duty'
  BY DEF IInv, Duty
<1>6. WireOK'
  BY DEF IInv, WireOK, Expected, Channel!NextPiece
<1> QED BY <1>1, <1>2, <1>3, <1>4, <1>5, <1>6 DEF IInv

(* The kernel takes the piece the channel has to carry next.               *)
LEMMA WriteSomeInv ==
  ASSUME IInv, WriteSome
  PROVE  /\ IInv'
         /\ wire' = Append(wire, Channel!NextPiece)
         /\ Channel!NextPiece[1] <= accepted
         /\ ~closed /\ ~writeFailed
<1> DEFINE front == accepted - Len(send_que) + 1
<1>1. /\ ~closed
      /\ UNCHANGED <<send_que, send_lock, worker, send_que_size, io, closed,
                     cleared, reading, writeFailed, sends, accepted>>
  BY DEF WriteSome, threads, session, counts
<1>2. PICK w \in writes :
        /\ w.done < Pieces
        /\ wire' = Append(wire, IF BufferAlive(w) THEN <<w.msg, w.done + 1>> ELSE Freed)
        /\ writes' = (writes \ {w}) \cup {[w EXCEPT !.done = @ + 1]}
  BY DEF WriteSome, PartLeft
<1>3. PICK d \in 0 .. Pieces : writes = {[msg |-> front, done |-> d]}
  BY <1>2 DEF IInv, Duty
<1>4. /\ worker # "start" /\ io # "written" /\ io # "popped"
      /\ send_que # <<>> /\ ~writeFailed
  BY <1>2 DEF IInv, Duty
<1>5. /\ w = [msg |-> front, done |-> d] /\ w.msg = front /\ w.done = d
      /\ d < Pieces
  BY <1>2, <1>3
<1>6. /\ send_que \in Seq(1 .. MaxSends) /\ Len(send_que) \in Nat \ {0}
      /\ accepted \in Nat /\ Pieces \in Nat /\ Len(send_que) <= accepted
      /\ send_que[1] = front /\ send_que[1] \in 1 .. MaxSends
  BY <1>4, SendPathAssumption DEF IInv, TypeOK, QueueOK
<1>7. BufferAlive(w)
  BY <1>5, <1>6 DEF BufferAlive
<1>8. /\ wire' = Append(wire, <<front, d + 1>>)
      /\ writes' = {[msg |-> front, done |-> d + 1]}
  <2>1. [w EXCEPT !.done = @ + 1] = [msg |-> front, done |-> d + 1]
    BY <1>5
  <2>2. writes \ {w} = {}
    BY <1>3, <1>5
  <2> QED BY <1>2, <1>5, <1>7, <2>1, <2>2
<1>9. Channel!NextPiece = <<front, d + 1>>
  <2>1. Channel!NextPiece = Expected(d)
    BY <1>2, <1>4, <1>5 DEF IInv, WireOK
  <2> QED BY <1>5, <2>1 DEF Expected
<1>10. front \in 1 .. MaxSends /\ front <= accepted /\ d + 1 \in 0 .. Pieces
  BY <1>3, <1>5, <1>6
<1>11. /\ wire' \in Seq(Nat \X Nat) /\ wire' # <<>>
       /\ wire'[Len(wire')] = <<front, d + 1>>
  <2>1. <<front, d + 1>> \in Nat \X Nat
    BY <1>10
  <2>2. wire \in Seq(Nat \X Nat)
    BY DEF IInv, TypeOK
  <2>3. wire' = Append(wire, <<front, d + 1>>)
    BY <1>8
  <2> HIDE DEF front
  <2> QED BY <2>1, <2>2, <2>3, LastOfAppend
<1>12. TypeOK'
  <2>1. writes' \subseteq [msg : 1 .. MaxSends, done : 0 .. Pieces]
    BY <1>8, <1>10
  <2> QED BY <1>1, <1>11, <2>1 DEF IInv, TypeOK
<1>13. LockOK' /\ SizeOK' /\ QueueOK'
  BY <1>1 DEF IInv, LockOK, SizeOK, QueueOK
<1>14. Duty'
  <2>1. front' = front
    BY <1>1
  <2>2. \E e \in 0 .. Pieces : writes' = {[msg |-> front', done |-> e]}
    BY <1>8, <1>10, <2>1
  <2>3. writes' # {} /\ send_que' # <<>> /\ ~writeFailed' /\ worker' # "start"
        /\ io' # "written" /\ io' # "popped"
    BY <1>1, <1>4, <1>8
  <2> QED BY <2>2, <2>3 DEF Duty
<1>15. WireOK'
  <2>1. Channel!NextPiece' = IF d + 1 < Pieces THEN <<front, d + 1 + 1>>
                                              ELSE <<front + 1, 1>>
    BY <1>11 DEF Channel!NextPiece, Channel!Succ
  <2>2. Channel!NextPiece' = Expected(d + 1)'
    BY <2>1, <1>1, <1>6, <1>10 DEF Expected
  <2>3. writes' # {} /\ \A v \in writes' : v.done = d + 1
    BY <1>8
  <2> QED BY <2>1, <2>2, <2>3 DEF WireOK
<1> QED BY <1>1, <1>4, <1>8, <1>9, <1>10, <1>12, <1>13, <1>14, <1>15 DEF IInv

LEMMA WriteDoneInv == ASSUME IInv, WriteDone PROVE IInv'
<1> USE SendPathAssumption DEF WriteDone, session, counts
<1>1. TypeOK'
  BY DEF IInv, TypeOK
<1>2. LockOK'
  BY DEF IInv, LockOK
<1>3. SizeOK'
  BY DEF IInv, SizeOK
<1>4. QueueOK'
  BY DEF IInv, QueueOK
<1>5. Duty'
  BY DEF IInv, Duty
<1>6. WireOK'
  BY DEF IInv, WireOK, Expected, Channel!NextPiece
<1> QED BY <1>1, <1>2, <1>3, <1>4, <1>5, <1>6 DEF IInv

LEMMA WriteErrorInv == ASSUME IInv, WriteError PROVE IInv'
<1> USE SendPathAssumption DEF WriteError, counts, PartLeft
<1>1. TypeOK'
  BY DEF IInv, TypeOK
<1>2. LockOK'
  BY DEF IInv, LockOK
<1>3. SizeOK'
  BY DEF IInv, SizeOK
<1>4. QueueOK'
  BY DEF IInv, QueueOK
<1>5. Duty'
  BY DEF IInv, Duty
<1>6. WireOK'
  BY DEF WireOK
<1> QED BY <1>1, <1>2, <1>3, <1>4, <1>5, <1>6 DEF IInv

LEMMA ReadErrorInv == ASSUME IInv, ReadError PROVE IInv'
<1> USE SendPathAssumption DEF ReadError, counts
<1>1. TypeOK'
  BY DEF IInv, TypeOK
<1>2. LockOK'
  BY DEF IInv, LockOK
<1>3. SizeOK'
  BY DEF IInv, SizeOK
<1>4. QueueOK'
  BY DEF IInv, QueueOK
<1>5. Duty'
  BY DEF IInv, Duty
<1>6. WireOK'
  BY DEF IInv, WireOK, Expected, Channel!NextPiece
<1> QED BY <1>1, <1>2, <1>3, <1>4, <1>5, <1>6 DEF IInv

LEMMA HandleWritePopInv == ASSUME IInv, HandleWritePop PROVE IInv'
<1>1. /\ io = "written" /\ io' = "popped" /\ send_lock = "none" /\ send_lock' = "io"
      /\ send_que' = Tail(send_que)
      /\ UNCHANGED <<worker, send_que_size, writes, wire, closed, cleared,
                     reading, writeFailed, sends, accepted>>
  BY DEF HandleWritePop, LockFree, Popped, session, counts
<1>2. /\ worker = "idle" /\ ~writeFailed /\ send_que # <<>> /\ writes = {}
  BY <1>1 DEF IInv, LockOK, Duty
<1>3. /\ send_que' \in Seq(1 .. MaxSends) /\ Len(send_que') = Len(send_que) - 1
      /\ Len(send_que) \in Nat \ {0} /\ accepted \in Nat /\ Pieces \in Nat \ {0}
      /\ \A i \in 1 .. Len(send_que') : send_que'[i] = send_que[i + 1]
  BY <1>1, <1>2, SendPathAssumption DEF IInv, TypeOK
<1>4. TypeOK'
  BY <1>1, <1>3 DEF IInv, TypeOK
<1>5. LockOK'
  BY <1>1, <1>2 DEF LockOK
<1>6. SizeOK'
  BY <1>1, <1>2, <1>3, SendPathAssumption DEF IInv, SizeOK
<1>7. QueueOK'
  BY <1>1, <1>3 DEF IInv, QueueOK
<1>8. Duty'
  BY <1>1, <1>2 DEF Duty
<1>9. WireOK'
  <2>1. Channel!NextPiece = Expected(Pieces)
    BY <1>1, <1>2 DEF IInv, WireOK
  <2>2. Expected(0)' = Expected(Pieces)
    BY <1>1, <1>3 DEF Expected
  <2>3. Channel!NextPiece' = Channel!NextPiece
    BY <1>1 DEF Channel!NextPiece, Channel!Succ
  <2> QED BY <1>1, <1>2, <2>1, <2>2, <2>3 DEF WireOK
<1> QED BY <1>4, <1>5, <1>6, <1>7, <1>8, <1>9 DEF IInv

LEMMA HandleWriteNextInv == ASSUME IInv, HandleWriteNext PROVE IInv'
<1>1. /\ io = "popped" /\ io' = "idle" /\ send_lock' = "none"
      /\ writes' = IF send_que # <<>>
                     THEN writes \cup {[msg |-> send_que[1], done |-> 0]}
                     ELSE writes
      /\ UNCHANGED <<send_que, worker, send_que_size, wire, closed, cleared,
                     reading, writeFailed, sends, accepted>>
  BY DEF HandleWriteNext, WriteNext, AsyncWriteFront, session, counts
<1>2. /\ writes = {} /\ ~writeFailed /\ send_lock = "io" /\ worker = "idle"
  BY <1>1 DEF IInv, Duty, LockOK
<1>3. ASSUME send_que # <<>>
      PROVE  /\ send_que[1] \in 1 .. MaxSends /\ 0 \in 0 .. Pieces
             /\ writes' = {[msg |-> accepted - Len(send_que) + 1, done |-> 0]}
  <2>1. /\ send_que \in Seq(1 .. MaxSends) /\ 1 \in 1 .. Len(send_que)
        /\ Pieces \in Nat
    BY <1>3, SendPathAssumption DEF IInv, TypeOK
  <2>2. send_que[1] = accepted - Len(send_que) + 1
    BY <2>1 DEF IInv, QueueOK
  <2>3. send_que[1] \in 1 .. MaxSends
    BY <2>1, ElementOfSeq
  <2>4. 0 \in 0 .. Pieces
    BY <2>1
  <2>5. writes' = {[msg |-> send_que[1], done |-> 0]}
    BY <1>1, <1>2, <1>3
  <2> QED BY <2>2, <2>3, <2>4, <2>5
<1>4. TypeOK'
  <2>1. writes' \subseteq [msg : 1 .. MaxSends, done : 0 .. Pieces]
    BY <1>1, <1>2, <1>3
  <2> QED BY <1>1, <2>1 DEF IInv, TypeOK
<1>5. LockOK' /\ SizeOK' /\ QueueOK'
  BY <1>1, <1>2 DEF IInv, LockOK, SizeOK, QueueOK
<1>6. Duty'
  <2>1. CASE send_que = <<>>
    BY <2>1, <1>1, <1>2 DEF Duty
  <2>2. CASE send_que # <<>>
    <3>1. \E d \in 0 .. Pieces :
            writes' = {[msg |-> accepted' - Len(send_que') + 1, done |-> d]}
      BY <2>2, <1>1, <1>3
    <3>2. writes' # {}
      BY <3>1
    <3> QED BY <2>2, <3>1, <3>2, <1>1, <1>2 DEF Duty
  <2> QED BY <2>1, <2>2
<1>7. WireOK'
  <2>1. Channel!NextPiece' = Channel!NextPiece /\ Channel!NextPiece = Expected(0)
    BY <1>1, <1>2 DEF IInv, WireOK, Channel!NextPiece
  <2>2. Expected(0)' = Expected(0)
    BY <1>1 DEF Expected
  <2>3. \A w \in writes' : w.done = 0
    BY <1>1, <1>2, <1>3
  <2> QED BY <1>1, <2>1, <2>2, <2>3 DEF WireOK
<1> QED BY <1>4, <1>5, <1>6, <1>7 DEF IInv

LEMMA CloseInv == ASSUME IInv, Close PROVE IInv'
<1> USE SendPathAssumption DEF Close, counts
<1>1. TypeOK'
  BY DEF IInv, TypeOK
<1>2. LockOK'
  BY DEF IInv, LockOK
<1>3. SizeOK'
  BY DEF IInv, SizeOK
<1>4. QueueOK'
  BY DEF IInv, QueueOK
<1>5. Duty'
  BY DEF IInv, Duty
<1>6. WireOK'
  BY DEF IInv, WireOK, Expected, Channel!NextPiece
<1> QED BY <1>1, <1>2, <1>3, <1>4, <1>5, <1>6 DEF IInv

LEMMA ClearSessionInv == ASSUME IInv, ClearSession PROVE IInv'
<1> USE SendPathAssumption DEF ClearSession, counts
<1>1. TypeOK'
  BY DEF IInv, TypeOK
<1>2. LockOK'
  BY DEF IInv, LockOK
<1>3. SizeOK'
  BY DEF IInv, SizeOK
<1>4. QueueOK'
  BY DEF IInv, QueueOK
<1>5. Duty'
  BY DEF IInv, Duty
<1>6. WireOK'
  BY DEF IInv, WireOK, Expected, Channel!NextPiece
<1> QED BY <1>1, <1>2, <1>3, <1>4, <1>5, <1>6 DEF IInv

-----------------------------------------------------------------------------
LEMMA InitInv == Init => IInv
<1> SUFFICES ASSUME Init PROVE IInv
  OBVIOUS
<1>1. TypeOK
  <2>1. send_que \in Seq(1 .. MaxSends) /\ wire \in Seq(Nat \X Nat)
    BY DEF Init
  <2>2. sends \in 0 .. MaxSends /\ accepted \in 0 .. sends
    BY SendPathAssumption DEF Init
  <2>3. writes \subseteq [msg : 1 .. MaxSends, done : 0 .. Pieces]
    BY DEF Init
  <2> QED BY <2>1, <2>2, <2>3 DEF Init, TypeOK
<1>2. LockOK /\ SizeOK /\ QueueOK /\ Duty
  BY SendPathAssumption DEF Init, LockOK, SizeOK, QueueOK, Duty
<1>3. WireOK
  BY SendPathAssumption DEF Init, WireOK, Expected, Channel!NextPiece
<1> QED BY <1>1, <1>2, <1>3 DEF IInv

LEMMA NextInv == IInv /\ [Next]_vars => IInv'
<1> SUFFICES ASSUME IInv, [Next]_vars PROVE IInv'
  OBVIOUS
<1>1. CASE Send
  BY <1>1, SendLockInv, SendFullInv, SendPushInv, SendStartInv, SendLeaveInv DEF Send
<1>2. CASE WriteSome \/ WriteDone \/ WriteError \/ ReadError
  BY <1>2, WriteSomeInv, WriteDoneInv, WriteErrorInv, ReadErrorInv
<1>3. CASE HandleWrite
  BY <1>3, HandleWritePopInv, HandleWriteNextInv, CloseInv, ClearSessionInv DEF HandleWrite
<1>4. CASE UNCHANGED vars
  <2>1. TypeOK' /\ LockOK' /\ SizeOK' /\ QueueOK' /\ Duty'
    BY <1>4 DEF vars, IInv, TypeOK, LockOK, SizeOK, QueueOK, Duty
  <2>2. WireOK'
    BY <1>4 DEF vars, IInv, WireOK, Expected, Channel!NextPiece
  <2> QED BY <2>1, <2>2 DEF IInv
<1> QED BY <1>1, <1>2, <1>3, <1>4 DEF Next

(* Every reachable state of the send path satisfies the inductive          *)
(* invariant: lock, locals, queue, duty to write and wire agree.           *)
THEOREM Invariance == Spec => []IInv
  BY InitInv, NextInv, PTL DEF Spec

(* The variables of the send path always have values of their types.       *)
THEOREM TypeCorrect == Spec => []TypeOK
<1>1. IInv => TypeOK
  BY DEF IInv
<1> QED BY <1>1, Invariance, PTL

(* There is never a second async_write on the socket of a session, and the *)
(* one that is outstanding writes a buffer the queue still owns.           *)
THEOREM OneWrite == Spec => []OneWriteOfFront
<1>1. IInv => OneWriteOfFront
  <2> SUFFICES ASSUME IInv, writes # {} PROVE OneWriteOfFront
    BY DEF OneWriteOfFront
  <2>1. send_que # <<>> /\ send_que \in Seq(1 .. MaxSends)
    BY DEF IInv, Duty, TypeOK
  <2>2. send_que[1] = accepted - Len(send_que) + 1
    BY <2>1 DEF IInv, QueueOK
  <2> QED BY <2>1, <2>2 DEF IInv, Duty, OneWriteOfFront
<1> QED BY <1>1, Invariance, PTL

(* A queue that is not empty is always being written by exactly one party, *)
(* as long as no write has failed: the send path never stalls.             *)
THEOREM NeverStalls == Spec => []SomebodyWrites
<1>1. IInv => SomebodyWrites
  <2> SUFFICES ASSUME IInv PROVE SomebodyWrites
    OBVIOUS
  <2>1. ~writeFailed /\ send_que # <<>> =>
          \/ worker = "start" \/ writes # {} \/ io = "written"
          \/ io = "popped" /\ send_que # <<>>
    BY DEF IInv, Duty
  <2>2. /\ worker = "start" => writes = {} /\ io # "written" /\ io # "popped"
        /\ writes # {} => io # "written" /\ io # "popped"
    BY DEF IInv, Duty, LockOK
  <2> QED BY <2>1, <2>2 DEF SomebodyWrites
<1> QED BY <1>1, Invariance, PTL

(* The queue never holds more than MAX_SENDQUE + 1 messages.               *)
THEOREM Bounded == Spec => []QueueBound
<1>1. IInv => QueueBound
  BY DEF IInv, SizeOK, QueueBound
<1> QED BY <1>1, Invariance, PTL

(* Send and HandleWrite together implement the FIFO channel.               *)
THEOREM Refines == Spec => InOrder
<1>1. Init => Channel!Init
  BY DEF Init, Channel!Init
<1>2. IInv /\ [Next]_vars => [Channel!Next]_(Channel!vars)
  <2> SUFFICES ASSUME IInv, [Next]_vars PROVE [Channel!Next]_(Channel!vars)
    OBVIOUS
  <2> USE DEF Channel!vars, Channel!Next
  <2>1. CASE SendPush
    BY <2>1 DEF SendPush, session, Channel!Accept
  <2>2. CASE WriteSome
    BY <2>2, WriteSomeInv DEF WriteSome, session, counts, Channel!Transfer
  <2>3. CASE WriteError
    BY <2>3 DEF WriteError, counts, Channel!Break
  <2>4. CASE Close
    BY <2>4 DEF Close, counts, Channel!Break
  <2>5. CASE \/ SendLock \/ SendFull \/ SendStart \/ SendLeave
             \/ WriteDone \/ ReadError \/ HandleWritePop \/ HandleWriteNext
             \/ ClearSession \/ UNCHANGED vars
    BY <2>5 DEF SendLock, SendFull, SendStart, SendLeave, WriteDone, ReadError,
                HandleWritePop, HandleWriteNext, ClearSession, vars, session, counts
  <2> QED BY <2>1, <2>2, <2>3, <2>4, <2>5 DEF Next, Send, HandleWrite
<1> QED BY <1>1, <1>2, Invariance, PTL DEF Spec, InOrder, Channel!Spec
=============================================================================
