---------------------------- MODULE FrameReader ----------------------------
(***************************************************************************)
(* CSession::HandleRead: how one session turns the byte stream of its TCP  *)
(* connection into messages for the logic queue.  The kernel completes     *)
(* async_read_some with any number of bytes, so a chunk may end inside a   *)
(* header, inside a body, or hold several frames.                          *)
(*                                                                         *)
(* One action is one iteration of the handler's while loop: an iteration   *)
(* may block in PostMsgToQue on the mutex of the logic system, so other    *)
(* threads run between two iterations, never inside one as far as this     *)
(* session's reading state is concerned (its io_service has one thread).   *)
(*                                                                         *)
(* A byte is represented by its position in the stream (0, 1, ...), a      *)
(* buffer by a function from offsets to bytes.  NUL is the byte memset     *)
(* writes and the terminator, Junk a byte of memory nobody initialised.    *)
(*                                                                         *)
(* A header that announces the length -1 gets a node without any byte, and *)
(* everything that comes after it is copied there: memory that belongs to  *)
(* others is overwritten.  Of what that may do to the process the model    *)
(* has both ends: the session reads on as its code says, or all is over.   *)
(***************************************************************************)
EXTENDS Integers, Sequences

CONSTANTS HeadTotalLen, MaxLength, Streams

(* A stream has a size, and at every position the id and the length that   *)
(* HeadTotalLen bytes decode to when they are read from that position on.  *)
(* Both are C shorts: they may be negative.                                *)
ASSUME StreamsAssumption ==
  /\ HeadTotalLen \in Nat \ {0}
  /\ MaxLength \in Nat \ {0}
  /\ \A s \in Streams : /\ s.size \in Nat
                        /\ s.id  \in [0 .. s.size -> Int]
                        /\ s.len \in [0 .. s.size -> Int]

NUL  == -1
Junk == -2

ShortMax == 32767 (* bound: bytes counted by a _cur_len, which is a short; *)
                  (* the model ends where a node without bytes passes it   *)

VARIABLES
  stream,            (* what the peer sends; fixed when the session starts *)
  rcvd,              (* stream bytes the kernel has handed to async reads  *)
  data,              (* CSession::_data                                    *)
  copy_len,          (* HandleRead: bytes of data already consumed         *)
  bytes_transferred, (* HandleRead: bytes of data still to consume         *)
  b_head_parse,      (* the header of the current frame is decoded         *)
  recv_head_node,    (* MsgNode: data and cur_len of the header            *)
  recv_msg_node,     (* RecvNode: id, total_len, cur_len, data of the body;*)
                     (* a null pointer at first, which nothing reads: the  *)
                     (* empty node stands for it                           *)
  posted,            (* messages given to LogicSystem::PostMsgToQue        *)
  reading,           (* "armed": an async read is outstanding,             *)
                     (* "handling": HandleRead is in its loop,             *)
                     (* "stopped": neither, and nothing arms it again,     *)
                     (* "dead": the process is gone                        *)
  socketClosed,      (* CSession::Close was called                         *)
  cleared            (* CServer::ClearSession was called                   *)

node   == <<b_head_parse, recv_head_node, recv_msg_node>>
local  == <<data, copy_len, bytes_transferred>>
fate   == <<socketClosed, cleared>>
vars   == <<stream, rcvd, data, copy_len, bytes_transferred, b_head_parse,
            recv_head_node, recv_msg_node, posted, reading, socketClosed,
            cleared>>

-----------------------------------------------------------------------------
(* Memory.                                                                 *)

Zeroed(n) == [k \in 0 .. n - 1 |-> NUL]

Memcpy(dst, at, src, from, n) ==
  [k \in DOMAIN dst |->
     IF at <= k /\ k < at + n THEN src[from + (k - at)] ELSE dst[k]]

(* MsgNode's constructor allocates total_len + 1 bytes and sets only the   *)
(* last one.  For -1 it allocates none and sets the one in front of them.  *)
NewRecvNode(len, id) ==
  [id |-> id, total_len |-> len, cur_len |-> 0,
   data |-> [k \in 0 .. len |-> IF k = len THEN NUL ELSE Junk]]

ClearForgotten(head) == head

Clear(head) == [data |-> Zeroed(HeadTotalLen), cur_len |-> 0]

(* memcpy at _cur_len, then _cur_len += n.  What is copied behind the last *)
(* byte of a node is counted, and lost.                                    *)
Fill(n, from, count) ==
  [n EXCEPT !.data = Memcpy(@, n.cur_len, data, from, count),
            !.cur_len = @ + count]

(* The string DealMsg builds from a node: _data up to _cur_len.            *)
MessageOf(n) == [id |-> n.id, body |-> [k \in 0 .. n.cur_len - 1 |-> n.data[k]]]

-----------------------------------------------------------------------------
(* The header of the frame under way, once bytes of data complete it.      *)

HeadRemain == HeadTotalLen - recv_head_node.cur_len

HeadBytes == Memcpy(recv_head_node.data, recv_head_node.cur_len,
                    data, copy_len, HeadRemain)

(* What the header bytes decode to.  Bytes that are not consecutive in the *)
(* stream decode to nothing meaningful: position stream.size stands for it.*)
HeadPosition ==
  IF /\ HeadBytes[0] >= 0
     /\ \A k \in 0 .. HeadTotalLen - 1 : HeadBytes[k] = HeadBytes[0] + k
    THEN HeadBytes[0] ELSE stream.size

msg_id  == stream.id[HeadPosition]
msg_len == stream.len[HeadPosition]

HeadArrived == bytes_transferred + recv_head_node.cur_len >= HeadTotalLen

(* Both checks return after ClearSession.                                  *)
Rejected == msg_id > MaxLength \/ msg_len > MaxLength

(* A negative length passes the checks.  Below -1 new char[len + 1] throws, *)
(* and the catch clause of HandleRead only logs; at -1 it succeeds.        *)
NodeCannotBeAllocated == ~Rejected /\ msg_len < -1

(* bytes_transferred is a size_t: what is compared with it is converted,   *)
(* and a negative number becomes larger than any count of bytes.           *)
Below(n, len) == len < 0 \/ n < len

WholeMsg == recv_msg_node.total_len

RemainMsg == recv_msg_node.total_len - recv_msg_node.cur_len

(* The body goes to a node without bytes: the length was -1.               *)
Overrun == recv_msg_node.total_len < 0

-----------------------------------------------------------------------------
Init ==
  /\ stream \in Streams
  /\ rcvd = 0
  /\ data = Zeroed(MaxLength)
  /\ copy_len = 0
  /\ bytes_transferred = 0
  /\ b_head_parse = FALSE
  /\ recv_head_node = [data    |-> [k \in 0 .. HeadTotalLen - 1 |-> Junk],
                       cur_len |-> 0]
  /\ recv_msg_node = NewRecvNode(0, 0)
  /\ posted = <<>>
  /\ reading = "armed"
  /\ socketClosed = FALSE
  /\ cleared = FALSE

(* The next async_read_some, with _data zeroed; the locals are gone.       *)
Rearm == /\ data' = Zeroed(MaxLength)
         /\ copy_len' = 0
         /\ bytes_transferred' = 0
         /\ reading' = "armed"

LeaveLoopUnarmed(n) == /\ copy_len' = copy_len + n
                       /\ bytes_transferred' = bytes_transferred - n
                       /\ UNCHANGED <<data, reading>>

(* After n bytes are used and a message is complete: continue the loop     *)
(* when bytes are left, read again otherwise.                              *)
ContinueOrRearm(n) ==
  IF bytes_transferred - n > 0
    THEN /\ copy_len' = copy_len + n
         /\ bytes_transferred' = bytes_transferred - n
         /\ UNCHANGED <<data, reading>>
    ELSE Rearm

(* An outstanding read completes with n bytes.                             *)
ReadSome(n) ==
  /\ reading = "armed"
  /\ rcvd + n <= stream.size
  /\ data' = [k \in 0 .. MaxLength - 1 |-> IF k < n THEN rcvd + k ELSE data[k]]
  /\ rcvd' = rcvd + n
  /\ copy_len' = 0
  /\ bytes_transferred' = n
  /\ reading' = "handling"
  /\ UNCHANGED <<stream, b_head_parse, recv_head_node, recv_msg_node, posted,
                 socketClosed, cleared>>

(* An outstanding read completes with an error: end of file or a reset.    *)
ReadError ==
  /\ reading = "armed"
  /\ reading' = "stopped"
  /\ socketClosed' = TRUE
  /\ cleared' = TRUE
  /\ UNCHANGED <<stream, rcvd, data, copy_len, bytes_transferred, b_head_parse,
                 recv_head_node, recv_msg_node, posted>>

Handling == reading = "handling" /\ bytes_transferred > 0

(* Still not enough bytes for a header: keep them and read again.          *)
StoreHeadPart ==
  /\ Handling
  /\ ~b_head_parse
  /\ ~HeadArrived
  /\ recv_head_node' = Fill(recv_head_node, copy_len, bytes_transferred)
  /\ Rearm
  /\ UNCHANGED <<stream, rcvd, b_head_parse, recv_msg_node, posted,
                 socketClosed, cleared>>

(* The header announces an id or a length beyond MAX_LENGTH.               *)
RejectHead ==
  /\ Handling
  /\ ~b_head_parse
  /\ HeadArrived
  /\ Rejected
  /\ cleared' = TRUE
  /\ recv_head_node' = [recv_head_node EXCEPT !.data = HeadBytes]
  /\ reading' = "stopped"
  /\ UNCHANGED <<stream, rcvd, data, copy_len, bytes_transferred, b_head_parse,
                 recv_msg_node, posted, socketClosed>>

(* The header announces a length below -1.                                 *)
ThrowOnHead ==
  /\ Handling
  /\ ~b_head_parse
  /\ HeadArrived
  /\ NodeCannotBeAllocated
  /\ recv_head_node' = [recv_head_node EXCEPT !.data = HeadBytes]
  /\ reading' = "stopped"
  /\ UNCHANGED <<stream, rcvd, data, copy_len, bytes_transferred, b_head_parse,
                 recv_msg_node, posted, socketClosed, cleared>>

(* The header is complete, the body is not: keep what has come of it.  The *)
(* body of a frame of length -1 never is.                                  *)
ParseHeadStoreBodyPart ==
  /\ Handling
  /\ ~b_head_parse
  /\ HeadArrived
  /\ ~Rejected
  /\ ~NodeCannotBeAllocated
  /\ Below(bytes_transferred - HeadRemain, msg_len)
  /\ recv_msg_node' = Fill(NewRecvNode(msg_len, msg_id), copy_len + HeadRemain,
                           bytes_transferred - HeadRemain)
  /\ recv_head_node' = [recv_head_node EXCEPT !.data = HeadBytes]
  /\ b_head_parse' = TRUE
  /\ Rearm
  /\ UNCHANGED <<stream, rcvd, posted, socketClosed, cleared>>

(* Header and body are both there: post the message.                       *)
ParseHeadPostBody ==
  /\ Handling
  /\ ~b_head_parse
  /\ HeadArrived
  /\ ~Rejected
  /\ ~NodeCannotBeAllocated
  /\ ~Below(bytes_transferred - HeadRemain, msg_len)
  /\ recv_msg_node' = Fill(NewRecvNode(msg_len, msg_id), copy_len + HeadRemain,
                           msg_len)
  /\ posted' = Append(posted, MessageOf(recv_msg_node'))
  /\ b_head_parse' = FALSE
  /\ recv_head_node' = Clear(recv_head_node)
  /\ ContinueOrRearm(HeadRemain + msg_len)
  /\ UNCHANGED <<stream, rcvd, socketClosed, cleared>>

(* More of a body, but not its end.                                        *)
StoreBodyPart ==
  /\ Handling
  /\ b_head_parse
  /\ Below(bytes_transferred, RemainMsg)
  /\ Overrun => recv_msg_node.cur_len + bytes_transferred <= ShortMax
  /\ recv_msg_node' = Fill(recv_msg_node, copy_len, bytes_transferred)
  /\ Rearm
  /\ UNCHANGED <<stream, rcvd, b_head_parse, recv_head_node, posted,
                 socketClosed, cleared>>

(* The rest of a body: post the message.                                   *)
PostBody ==
  /\ Handling
  /\ b_head_parse
  /\ ~Below(bytes_transferred, RemainMsg)
  /\ recv_msg_node' = Fill(recv_msg_node, copy_len, RemainMsg)
  /\ posted' = Append(posted, MessageOf(recv_msg_node'))
  /\ b_head_parse' = FALSE
  /\ recv_head_node' = Clear(recv_head_node)
  /\ ContinueOrRearm(RemainMsg)
  /\ UNCHANGED <<stream, rcvd, socketClosed, cleared>>

(* The overwritten memory was in use.                                      *)
Die ==
  /\ Overrun
  /\ reading \in {"armed", "handling"}
  /\ reading' = "dead"
  /\ UNCHANGED <<stream, rcvd, local, node, posted, fate>>

HandleRead == \/ StoreHeadPart
              \/ RejectHead
              \/ ThrowOnHead
              \/ ParseHeadStoreBodyPart
              \/ ParseHeadPostBody
              \/ StoreBodyPart
              \/ PostBody

Next == \/ \E n \in 1 .. MaxLength : ReadSome(n)
        \/ ReadError
        \/ HandleRead
        \/ Die

Spec == Init /\ [][Next]_vars

(* The kernel hands over bytes that have arrived and the io_service thread *)
(* runs the handlers that are ready; nothing forces the peer to fail.      *)
Fairness == /\ WF_vars(\E n \in 1 .. MaxLength : ReadSome(n))
            /\ WF_vars(HandleRead)

LiveSpec == Spec /\ Fairness

-----------------------------------------------------------------------------
(* Where the frame under way starts in the stream.                         *)
FrameStart ==
  rcvd - bytes_transferred
    - (IF b_head_parse THEN HeadTotalLen + recv_msg_node.cur_len
                       ELSE recv_head_node.cur_len)

(* The node of a body under way: a node with room for its bytes, or the one *)
(* without any.                                                            *)
WholeNode(nd) == \E n \in 0 .. MaxLength :
  nd \in [id : Int, total_len : {n}, cur_len : 0 .. n, data : [0 .. n -> Int]]

EmptyNode(nd) ==
  nd \in [id : Int, total_len : {-1}, cur_len : Nat, data : [0 .. -1 -> Int]]

(* Every variable has the values its C++ type and the protocol allow:      *)
(* CSession.cpp:134-257.                                                   *)
TypeOK ==
  /\ stream \in Streams
  /\ rcvd \in 0 .. stream.size
  /\ data \in [0 .. MaxLength - 1 -> Int]
  /\ copy_len \in Nat
  /\ bytes_transferred \in Nat
  /\ copy_len + bytes_transferred <= MaxLength
  /\ bytes_transferred <= rcvd
  /\ b_head_parse \in BOOLEAN
  /\ recv_head_node \in [data : [0 .. HeadTotalLen - 1 -> Int],
                        cur_len : 0 .. HeadTotalLen]
  /\ WholeNode(recv_msg_node) \/ EmptyNode(recv_msg_node)
  /\ reading \in {"armed", "handling", "stopped", "dead"}
  /\ socketClosed \in BOOLEAN
  /\ cleared \in BOOLEAN

(* HandleRead copies bytes of its chunk only, and into its two nodes never *)
(* more bytes than they were allocated with: however the stream is cut, a  *)
(* body does not grow by the bytes of the next frame.  The one exception   *)
(* is the length -1 of a header, which passes the check of CSession.cpp:   *)
(* 176; no other header and no way to cut the stream leads there.          *)
CopiesFit ==
  /\ copy_len + bytes_transferred <= MaxLength
  /\ recv_head_node.cur_len <= HeadTotalLen
  /\ recv_msg_node.cur_len > recv_msg_node.total_len =>
       b_head_parse /\ FrameStart \in DOMAIN stream.len /\ stream.len[FrameStart] = -1

(* The reader implements the framing promise, whatever the chunks: the     *)
(* messages posted are exactly the frames of the stream, complete, in      *)
(* order and with their own bytes (comments 1-12 of HandleRead).  A header *)
(* of length -1 ends what is promised: it is not acceptable, and no frame  *)
(* is posted from it on.                                                   *)
Framing == INSTANCE FrameStream
             WITH pos <- FrameStart, delivered <- posted,
                  ended <- (reading = "stopped" \/ Overrun)

Framed == Framing!Spec

(* Nothing a peer has sent completely stays in the reader: every complete  *)
(* acceptable frame is posted unless the reading ends.                     *)
FramedLive == Framing!LiveSpec

(* CSession.cpp:153 says that an illegal id or length removes the session  *)
(* from the server, so the session is certainly closed: a session that     *)
(* does not read any more is not registered any more.                      *)
StoppedIsCleared == reading = "stopped" => cleared
=============================================================================
