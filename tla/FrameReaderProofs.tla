------------------------- MODULE FrameReaderProofs -------------------------
(***************************************************************************)
(* For every header size, every maximal length and every set of streams:   *)
(* the reader is type correct, copies outside a buffer after a header that *)
(* announces the length -1 and never otherwise, and implements the framing *)
(* promise of FrameStream.                                                 *)
(***************************************************************************)
EXTENDS FrameReader, TLAPS

(* While the handler loops, the unread part of _data is the tail of what   *)
(* has been received.                                                      *)
ChunkOK ==
  /\ reading = "armed" => copy_len = 0 /\ bytes_transferred = 0
  /\ reading = "handling" =>
       \A k \in copy_len .. copy_len + bytes_transferred - 1 :
         data[k] = (rcvd - bytes_transferred) + (k - copy_len)

(* The bytes kept of a header under way are the first bytes of its frame.  *)
HeadOK ==
  ~b_head_parse =>
    /\ recv_head_node.cur_len < HeadTotalLen
    /\ \A k \in 0 .. recv_head_node.cur_len - 1 :
         recv_head_node.data[k] = FrameStart + k

(* The node of a body under way was made from the header of its frame, and *)
(* holds the first bytes of the body, not all of them, unless it has none. *)
BodyOK ==
  b_head_parse =>
    /\ FrameStart + HeadTotalLen <= stream.size
    /\ stream.id[FrameStart] <= MaxLength
    /\ recv_msg_node.id = stream.id[FrameStart]
    /\ recv_msg_node.total_len = stream.len[FrameStart]
    /\ ~Overrun =>
         /\ recv_msg_node.cur_len < recv_msg_node.total_len
         /\ \A k \in 0 .. recv_msg_node.cur_len - 1 :
              recv_msg_node.data[k] = FrameStart + HeadTotalLen + k

(* The reader never leaves a node without bytes.                           *)
OverrunOK == Overrun => b_head_parse

(* The inductive invariant.                                                *)
IInv == /\ TypeOK
        /\ FrameStart \in Nat
        /\ ChunkOK
        /\ HeadOK
        /\ BodyOK
        /\ OverrunOK

-----------------------------------------------------------------------------
(* A copy writes the n bytes it is given and leaves the others.            *)
LEMMA MemcpyType ==
  ASSUME NEW D \in SUBSET Int, NEW dst \in [D -> Int], NEW src,
         NEW at \in Int, NEW from \in Int, NEW n \in Int,
         \A k \in from .. from + n - 1 : src[k] \in Int
  PROVE  Memcpy(dst, at, src, from, n) \in [D -> Int]
  BY DEF Memcpy

LEMMA MemcpyValue ==
  ASSUME NEW D \in SUBSET Int, NEW dst \in [D -> Int], NEW src,
         NEW at \in Int, NEW from \in Int, NEW n \in Int, NEW k \in D
  PROVE  Memcpy(dst, at, src, from, n)[k] =
           IF at <= k /\ k < at + n THEN src[from + (k - at)] ELSE dst[k]
  BY DEF Memcpy

(* Once a header is complete, the code decodes the id and the length that  *)
(* the stream has at the start of the frame.                               *)
LEMMA HeadDecoded ==
  ASSUME IInv, Handling, ~b_head_parse, HeadArrived
  PROVE  /\ HeadBytes \in [0 .. HeadTotalLen - 1 -> Int]
         /\ \A k \in 0 .. HeadTotalLen - 1 : HeadBytes[k] = FrameStart + k
         /\ HeadRemain \in 1 .. bytes_transferred
         /\ FrameStart + HeadTotalLen <= stream.size
         /\ FrameStart \in 0 .. stream.size
         /\ msg_id = stream.id[FrameStart]
         /\ msg_len = stream.len[FrameStart]
         /\ msg_id \in Int
         /\ msg_len \in Int
<1> DEFINE c == recv_head_node.cur_len
<1>1. /\ HeadTotalLen \in Nat \ {0} /\ MaxLength \in Nat /\ stream.size \in Nat
      /\ stream.id \in [0 .. stream.size -> Int]
      /\ stream.len \in [0 .. stream.size -> Int]
  BY StreamsAssumption DEF IInv, TypeOK
<1>2. /\ recv_head_node.data \in [0 .. HeadTotalLen - 1 -> Int]
      /\ data \in [0 .. MaxLength - 1 -> Int]
  BY DEF IInv, TypeOK
<1>3. /\ copy_len \in Nat /\ bytes_transferred \in Nat
      /\ copy_len + bytes_transferred <= MaxLength
      /\ rcvd \in 0 .. stream.size
      /\ c \in 0 .. HeadTotalLen
      /\ FrameStart \in Nat
  BY DEF IInv, TypeOK
<1>4. /\ c < HeadTotalLen
      /\ FrameStart = rcvd - bytes_transferred - c
      /\ HeadRemain = HeadTotalLen - c
      /\ bytes_transferred + c >= HeadTotalLen
  BY DEF FrameStart, HeadRemain, HeadArrived, IInv, HeadOK
<1>5. /\ HeadRemain \in 1 .. bytes_transferred
      /\ FrameStart + HeadTotalLen <= stream.size
      /\ FrameStart \in 0 .. stream.size
  <2>1. HeadTotalLen \in Nat \ {0} /\ stream.size \in Nat
    BY <1>1
  <2> QED BY <2>1, <1>3, <1>4
<1>6. \A k \in copy_len .. copy_len + HeadRemain - 1 : k \in 0 .. MaxLength - 1
  <2>1. MaxLength \in Nat
    BY <1>1
  <2> QED BY <2>1, <1>3, <1>5
<1>7. HeadBytes \in [0 .. HeadTotalLen - 1 -> Int]
  <2>1. \A k \in copy_len .. copy_len + HeadRemain - 1 : data[k] \in Int
    BY <1>2, <1>6
  <2>2. /\ 0 .. HeadTotalLen - 1 \in SUBSET Int
        /\ c \in Int /\ copy_len \in Int /\ HeadRemain \in Int
    BY <1>3, <1>5
  <2> HIDE DEF c
  <2>3. Memcpy(recv_head_node.data, c, data, copy_len, HeadRemain)
          \in [0 .. HeadTotalLen - 1 -> Int]
    BY <1>2, <2>1, <2>2, MemcpyType
  <2> QED BY <2>3 DEF HeadBytes, c
<1>8. \A k \in 0 .. HeadTotalLen - 1 : HeadBytes[k] = FrameStart + k
  <2> SUFFICES ASSUME NEW k \in 0 .. HeadTotalLen - 1
               PROVE  HeadBytes[k] = FrameStart + k
    OBVIOUS
  <2>1. HeadBytes[k] = IF c <= k /\ k < c + HeadRemain
                         THEN data[copy_len + (k - c)]
                         ELSE recv_head_node.data[k]
    BY <1>2 DEF HeadBytes, Memcpy
  <2>2. k \in Int /\ c \in Int
    BY <1>3
  <2>3. CASE k < c
    <3>1. recv_head_node.data[k] = FrameStart + k
      <4>1. k \in 0 .. c - 1
        BY <1>3, <2>3
      <4> QED BY <4>1 DEF IInv, HeadOK
    <3> QED BY <2>1, <2>2, <2>3, <3>1
  <2>4. CASE k >= c
    <3>1. /\ copy_len + (k - c) \in copy_len .. copy_len + bytes_transferred - 1
          /\ k < c + HeadRemain
      <4>1. HeadTotalLen \in Nat
        BY <1>1
      <4> QED BY <4>1, <1>3, <1>4, <2>4
    <3>2. data[copy_len + (k - c)]
            = (rcvd - bytes_transferred) + ((copy_len + (k - c)) - copy_len)
      BY <3>1 DEF IInv, ChunkOK, Handling
    <3>3. data[copy_len + (k - c)] = FrameStart + k
      BY <3>2, <1>3, <1>4, <2>2
    <3> QED BY <2>1, <2>4, <3>1, <3>3
  <2> QED BY <2>2, <2>3, <2>4
<1>9. HeadPosition = FrameStart
  <2>1. 0 \in 0 .. HeadTotalLen - 1
    BY <1>1
  <2>2. HeadBytes[0] = FrameStart + 0
    BY <1>8, <2>1
  <2>3. HeadBytes[0] = FrameStart /\ HeadBytes[0] >= 0
    BY <2>2, <1>3
  <2> QED BY <2>3, <1>8 DEF HeadPosition
<1> QED BY <1>1, <1>5, <1>7, <1>8, <1>9 DEF msg_id, msg_len

-----------------------------------------------------------------------------
(* What the rest of the proof needs of one state.                          *)
LEMMA Facts ==
  ASSUME IInv
  PROVE  /\ HeadTotalLen \in Nat \ {0} /\ MaxLength \in Nat \ {0}
         /\ stream \in Streams /\ stream.size \in Nat
         /\ rcvd \in 0 .. stream.size
         /\ copy_len \in Nat /\ bytes_transferred \in Nat
         /\ copy_len + bytes_transferred <= MaxLength
         /\ bytes_transferred <= rcvd
         /\ recv_head_node.cur_len \in 0 .. HeadTotalLen
         /\ recv_msg_node.id \in Int
         /\ recv_msg_node.total_len \in -1 .. MaxLength
         /\ recv_msg_node.cur_len \in Nat
         /\ ~Overrun => /\ WholeNode(recv_msg_node)
                        /\ recv_msg_node.total_len \in 0 .. MaxLength
                        /\ recv_msg_node.cur_len \in 0 .. recv_msg_node.total_len
         /\ Overrun => EmptyNode(recv_msg_node)
         /\ FrameStart \in Nat
<1>1. /\ HeadTotalLen \in Nat \ {0} /\ MaxLength \in Nat \ {0}
      /\ stream \in Streams /\ stream.size \in Nat
      /\ rcvd \in 0 .. stream.size
      /\ copy_len \in Nat /\ bytes_transferred \in Nat
      /\ copy_len + bytes_transferred <= MaxLength
      /\ bytes_transferred <= rcvd
      /\ recv_head_node.cur_len \in 0 .. HeadTotalLen
      /\ FrameStart \in Nat
  BY StreamsAssumption DEF IInv, TypeOK
<1>2. CASE WholeNode(recv_msg_node)
  <2>1. /\ recv_msg_node.id \in Int
        /\ recv_msg_node.total_len \in 0 .. MaxLength
        /\ recv_msg_node.cur_len \in 0 .. recv_msg_node.total_len
    BY <1>2 DEF WholeNode
  <2>2. ~Overrun
    BY <2>1 DEF Overrun
  <2> QED BY <1>1, <1>2, <2>1, <2>2
<1>3. CASE EmptyNode(recv_msg_node)
  <2>1. /\ recv_msg_node.id \in Int /\ recv_msg_node.total_len = -1
        /\ recv_msg_node.cur_len \in Nat
    BY <1>3 DEF EmptyNode
  <2>2. Overrun
    BY <2>1 DEF Overrun
  <2> QED BY <1>1, <1>3, <2>1, <2>2
<1> QED BY <1>2, <1>3 DEF IInv, TypeOK

(* A node for a body of N bytes that holds cur of them.                    *)
Node(N, cur) ==
  [id : Int, total_len : {N}, cur_len : {cur}, data : [0 .. N -> Int]]

LEMMA NodeFields ==
  ASSUME NEW N, NEW cur, NEW nd \in Node(N, cur)
  PROVE  /\ nd.id \in Int /\ nd.total_len = N /\ nd.cur_len = cur
         /\ nd.data \in [0 .. N -> Int]
  BY DEF Node

LEMMA NodeTyped ==
  ASSUME NEW N \in 0 .. MaxLength, NEW cur \in 0 .. N, NEW nd \in Node(N, cur)
  PROVE  WholeNode(nd)
  BY DEF Node, WholeNode

(* A node without bytes only counts what it is filled with.                *)
LEMMA EmptyFill ==
  ASSUME NEW nd, EmptyNode(nd), NEW from, NEW n \in Nat
  PROVE  /\ EmptyNode(Fill(nd, from, n)) /\ Fill(nd, from, n).total_len = -1
         /\ Fill(nd, from, n).id = nd.id
         /\ Fill(nd, from, n).cur_len = nd.cur_len + n
<1> DEFINE d == Memcpy(nd.data, nd.cur_len, data, from, n)
<1>1. /\ nd.id \in Int /\ nd.total_len = -1 /\ nd.cur_len \in Nat
      /\ nd.data \in [0 .. -1 -> Int]
      /\ nd = [id |-> nd.id, total_len |-> nd.total_len, cur_len |-> nd.cur_len,
               data |-> nd.data]
  BY DEF EmptyNode
<1>2. d \in [0 .. -1 -> Int]
  <2>1. DOMAIN nd.data = 0 .. -1 /\ 0 .. -1 = {}
    BY <1>1
  <2> QED BY <2>1 DEF Memcpy
<1>3. Fill(nd, from, n) = [nd EXCEPT !.data = d, !.cur_len = nd.cur_len + n]
  BY DEF Fill
<1> HIDE DEF d
<1>4. nd.cur_len + n \in Nat
  BY <1>1
<1> DEFINE m == nd.cur_len + n
<1>5. m \in Nat
  BY <1>4
<1> HIDE DEF m
<1>6. nd \in [id : Int, total_len : {-1}, cur_len : Nat, data : [0 .. -1 -> Int]]
  BY DEF EmptyNode
<1>7. Fill(nd, from, n) = [nd EXCEPT !.data = d, !.cur_len = m]
  BY <1>3 DEF m
<1>8. /\ Fill(nd, from, n)
           \in [id : Int, total_len : {-1}, cur_len : Nat, data : [0 .. -1 -> Int]]
      /\ Fill(nd, from, n).id = nd.id /\ Fill(nd, from, n).cur_len = m
  BY <1>2, <1>5, <1>6, <1>7
<1> QED BY <1>8 DEF EmptyNode, m

LEMMA EmptyNew ==
  ASSUME NEW i \in Int
  PROVE  /\ EmptyNode(NewRecvNode(-1, i)) /\ NewRecvNode(-1, i).id = i
         /\ NewRecvNode(-1, i).cur_len = 0
<1>1. [k \in 0 .. -1 |-> IF k = -1 THEN NUL ELSE Junk] \in [0 .. -1 -> Int]
  BY DEF NUL, Junk
<1> QED BY <1>1 DEF NewRecvNode, EmptyNode

(* A node filled with n bytes of the chunk is a well-typed node.           *)
LEMMA FillType ==
  ASSUME NEW N \in Nat, NEW cur \in 0 .. N, NEW from \in Int,
         NEW n \in Nat, cur + n <= N,
         NEW nd \in Node(N, cur),
         \A k \in from .. from + n - 1 : data[k] \in Int
  PROVE  /\ Fill(nd, from, n) \in Node(N, cur + n)
         /\ Fill(nd, from, n).id = nd.id
<1> DEFINE d == Memcpy(nd.data, cur, data, from, n)
<1>1. /\ nd.cur_len = cur /\ nd.total_len = N /\ nd.id \in Int
      /\ nd.data \in [0 .. N -> Int]
  BY NodeFields
<1>2. 0 .. N \in SUBSET Int /\ cur \in Int /\ n \in Int
  OBVIOUS
<1>3. d \in [0 .. N -> Int]
  BY <1>1, <1>2, MemcpyType
<1>5. Fill(nd, from, n) = [nd EXCEPT !.data = d, !.cur_len = cur + n]
  BY <1>1 DEF Fill
<1> HIDE DEF d
<1>6. cur + n \in 0 .. N
  OBVIOUS
<1> QED BY <1>1, <1>3, <1>5, <1>6 DEF Node

LEMMA FillValue ==
  ASSUME NEW N \in Nat, NEW cur \in 0 .. N, NEW from \in Int,
         NEW n \in Nat, NEW nd \in Node(N, cur), NEW k \in 0 .. N
  PROVE  Fill(nd, from, n).data[k] =
           IF cur <= k /\ k < cur + n THEN data[from + (k - cur)] ELSE nd.data[k]
<1>1. nd.cur_len = cur /\ nd.data \in [0 .. N -> Int]
  BY NodeFields
<1>2. nd = [id |-> nd.id, total_len |-> nd.total_len, cur_len |-> nd.cur_len,
            data |-> nd.data]
  BY DEF Node
<1>3. Fill(nd, from, n).data = Memcpy(nd.data, cur, data, from, n)
  BY <1>1, <1>2 DEF Fill
<1> QED BY <1>1, <1>3 DEF Memcpy

LEMMA NewRecvNodeType ==
  ASSUME NEW N \in Nat, NEW i \in Int
  PROVE  NewRecvNode(N, i) \in Node(N, 0) /\ NewRecvNode(N, i).id = i
  BY DEF NewRecvNode, NUL, Junk, Node

(* A step that keeps the frame under way and what is known of it.          *)
LEMMA SameFrame ==
  ASSUME IInv, FrameStart' = FrameStart,
         UNCHANGED <<stream, b_head_parse, recv_head_node, recv_msg_node>>
  PROVE  FrameStart' \in Nat /\ HeadOK' /\ BodyOK' /\ OverrunOK'
  BY DEF IInv, HeadOK, BodyOK, OverrunOK, Overrun

(* Between two frames nothing has to be known of the nodes.                *)
LEMMA NextFrame ==
  ASSUME b_head_parse' = FALSE, ~Overrun',
         recv_head_node' = Clear(recv_head_node), FrameStart' \in Nat
  PROVE  /\ HeadOK' /\ BodyOK' /\ OverrunOK'
         /\ recv_head_node' \in [data : [0 .. HeadTotalLen - 1 -> Int],
                                 cur_len : 0 .. HeadTotalLen]
<1>1. HeadTotalLen \in Nat \ {0}
  BY StreamsAssumption
<1> QED BY <1>1 DEF HeadOK, BodyOK, OverrunOK, Clear, Zeroed, NUL

(* Continuing the loop or reading again: _data and the two locals stay     *)
(* consistent, and the next frame starts where the message ended.          *)
LEMMA AfterMessage ==
  ASSUME IInv, Handling,
         NEW n \in 0 .. bytes_transferred, ContinueOrRearm(n),
         b_head_parse' = FALSE, recv_head_node'.cur_len = 0,
         rcvd' = rcvd
  PROVE  /\ data' \in [0 .. MaxLength - 1 -> Int]
         /\ copy_len' \in Nat /\ bytes_transferred' \in Nat
         /\ copy_len' + bytes_transferred' <= MaxLength
         /\ bytes_transferred' <= rcvd'
         /\ reading' \in {"armed", "handling"}
         /\ ChunkOK'
         /\ FrameStart' = rcvd - bytes_transferred + n
<1>0. /\ data \in [0 .. MaxLength - 1 -> Int]
      /\ copy_len \in Nat /\ bytes_transferred \in Nat /\ rcvd \in Nat
      /\ copy_len + bytes_transferred <= MaxLength /\ MaxLength \in Nat
      /\ bytes_transferred <= rcvd
  BY Facts DEF IInv, TypeOK
<1>1. CASE bytes_transferred - n > 0
  <2>1. /\ copy_len' = copy_len + n
        /\ bytes_transferred' = bytes_transferred - n
        /\ data' = data /\ reading' = reading /\ reading = "handling"
    BY <1>1 DEF ContinueOrRearm, Handling
  <2>2. ASSUME NEW k \in copy_len' .. copy_len' + bytes_transferred' - 1
        PROVE  data'[k] = (rcvd' - bytes_transferred') + (k - copy_len')
    <3>1. k \in copy_len .. copy_len + bytes_transferred - 1
      BY <1>0, <2>1
    <3>2. data[k] = (rcvd - bytes_transferred) + (k - copy_len)
      BY <3>1, <2>1 DEF IInv, ChunkOK
    <3>3. k \in Int
      BY <3>1
    <3>4. (rcvd - bytes_transferred) + (k - copy_len)
            = (rcvd' - bytes_transferred') + (k - copy_len')
      BY <3>3, <1>0, <2>1
    <3> QED BY <2>1, <3>2, <3>4
  <2>3. ChunkOK'
    BY <2>1, <2>2 DEF ChunkOK
  <2>4. FrameStart' = rcvd - bytes_transferred + n
    BY <1>0, <2>1 DEF FrameStart
  <2> QED BY <1>0, <2>1, <2>3, <2>4
<1>2. CASE ~(bytes_transferred - n > 0)
  <2>1. /\ copy_len' = 0 /\ bytes_transferred' = 0
        /\ data' = Zeroed(MaxLength) /\ reading' = "armed"
    BY <1>2 DEF ContinueOrRearm, Rearm
  <2>2. data' \in [0 .. MaxLength - 1 -> Int]
    BY <2>1 DEF Zeroed, NUL
  <2>3. n = bytes_transferred
    BY <1>0, <1>2
  <2>4. FrameStart' = rcvd - bytes_transferred + n
    BY <1>0, <2>1, <2>3 DEF FrameStart
  <2> QED BY <1>0, <2>1, <2>2, <2>4 DEF ChunkOK
<1> QED BY <1>1, <1>2

-----------------------------------------------------------------------------
LEMMA InitInv == Init => IInv
<1> SUFFICES ASSUME Init PROVE IInv
  OBVIOUS
<1>1. HeadTotalLen \in Nat \ {0} /\ MaxLength \in Nat \ {0} /\ stream.size \in Nat
  BY StreamsAssumption DEF Init
<1>2. FrameStart = 0
  BY <1>1 DEF Init, FrameStart
<1>3. recv_head_node \in [data : [0 .. HeadTotalLen - 1 -> Int], cur_len : 0 .. HeadTotalLen]
  BY <1>1 DEF Init, Junk
<1>4. data \in [0 .. MaxLength - 1 -> Int]
  BY DEF Init, Zeroed, NUL
<1>6. WholeNode(recv_msg_node)
  <2>1. recv_msg_node = NewRecvNode(0, 0) /\ 0 \in 0 .. MaxLength /\ 0 \in 0 .. 0
    BY <1>1 DEF Init
  <2>2. recv_msg_node \in Node(0, 0)
    BY <2>1, NewRecvNodeType
  <2> QED BY <2>1, <2>2, NodeTyped
<1>7. TypeOK
  <2>1. /\ rcvd \in 0 .. stream.size /\ copy_len \in Nat /\ bytes_transferred \in Nat
        /\ copy_len + bytes_transferred <= MaxLength /\ bytes_transferred <= rcvd
    BY <1>1 DEF Init
  <2>2. /\ stream \in Streams /\ b_head_parse \in BOOLEAN
        /\ reading \in {"armed", "handling", "stopped", "dead"}
        /\ socketClosed \in BOOLEAN /\ cleared \in BOOLEAN
    BY DEF Init
  <2> QED BY <2>1, <2>2, <1>3, <1>4, <1>6 DEF TypeOK
<1>8. ChunkOK /\ HeadOK /\ BodyOK /\ OverrunOK
  BY <1>1 DEF Init, ChunkOK, HeadOK, BodyOK, OverrunOK, Overrun, NewRecvNode
<1> QED BY <1>2, <1>7, <1>8 DEF IInv

(* Reading on with what is left of a chunk kept in a node: the locals of   *)
(* HandleRead are gone.                                                    *)
LEMMA AfterRearm ==
  ASSUME IInv, Rearm, UNCHANGED rcvd
  PROVE  /\ data' \in [0 .. MaxLength - 1 -> Int]
         /\ copy_len' = 0 /\ bytes_transferred' = 0
         /\ copy_len' + bytes_transferred' <= MaxLength
         /\ bytes_transferred' <= rcvd'
         /\ reading' = "armed"
         /\ ChunkOK'
<1>1. MaxLength \in Nat /\ rcvd \in Nat
  BY Facts
<1> QED BY <1>1 DEF Rearm, Zeroed, NUL, ChunkOK

(* The parts of the type invariant a step of the loop can disturb.         *)
LEMMA TypeAfter ==
  ASSUME IInv, UNCHANGED <<stream, rcvd>>,
         b_head_parse' \in BOOLEAN, socketClosed' \in BOOLEAN, cleared' \in BOOLEAN,
         data' \in [0 .. MaxLength - 1 -> Int],
         copy_len' \in Nat, bytes_transferred' \in Nat,
         copy_len' + bytes_transferred' <= MaxLength,
         bytes_transferred' <= rcvd',
         recv_head_node' \in [data : [0 .. HeadTotalLen - 1 -> Int],
                              cur_len : 0 .. HeadTotalLen],
         WholeNode(recv_msg_node') \/ EmptyNode(recv_msg_node'),
         reading' \in {"armed", "handling", "stopped", "dead"}
  PROVE  TypeOK'
<1>1. stream' \in Streams /\ rcvd' \in 0 .. stream'.size
  BY DEF IInv, TypeOK
<1> QED BY <1>1 DEF TypeOK

(* What the type invariant says of the variables a step leaves alone.      *)
LEMMA TypeParts ==
  ASSUME IInv
  PROVE  /\ b_head_parse \in BOOLEAN /\ socketClosed \in BOOLEAN /\ cleared \in BOOLEAN
         /\ data \in [0 .. MaxLength - 1 -> Int]
         /\ recv_head_node \in [data : [0 .. HeadTotalLen - 1 -> Int],
                                cur_len : 0 .. HeadTotalLen]
         /\ WholeNode(recv_msg_node) \/ EmptyNode(recv_msg_node)
         /\ reading \in {"armed", "handling", "stopped", "dead"}
  BY DEF IInv, TypeOK

(* A header part is kept: the frame under way stays the same.              *)
LEMMA StoreHeadPartInv ==
  ASSUME IInv, StoreHeadPart
  PROVE  IInv' /\ FrameStart' = FrameStart
<1> DEFINE c == recv_head_node.cur_len
           d == Memcpy(recv_head_node.data, c, data, copy_len, bytes_transferred)
<1>1. /\ ~b_head_parse /\ b_head_parse' = b_head_parse
      /\ recv_head_node' = Fill(recv_head_node, copy_len, bytes_transferred)
      /\ Rearm /\ Handling /\ ~HeadArrived
      /\ UNCHANGED <<stream, rcvd, b_head_parse, recv_msg_node, posted,
                     socketClosed, cleared>>
  BY DEF StoreHeadPart
<1>2. /\ recv_head_node \in [data : [0 .. HeadTotalLen - 1 -> Int],
                             cur_len : 0 .. HeadTotalLen]
      /\ data \in [0 .. MaxLength - 1 -> Int]
  BY DEF IInv, TypeOK
<1>3. /\ HeadTotalLen \in Nat /\ MaxLength \in Nat /\ rcvd \in Nat
      /\ copy_len \in Nat /\ bytes_transferred \in Nat
      /\ copy_len + bytes_transferred <= MaxLength
      /\ c \in 0 .. HeadTotalLen /\ FrameStart \in Nat
      /\ bytes_transferred + c < HeadTotalLen
      /\ FrameStart = rcvd - bytes_transferred - c
  BY <1>1, Facts DEF HeadArrived, FrameStart
<1>4. d \in [0 .. HeadTotalLen - 1 -> Int]
  <2>1. \A k \in copy_len .. copy_len + bytes_transferred - 1 : k \in 0 .. MaxLength - 1
    BY <1>3
  <2>2. \A k \in copy_len .. copy_len + bytes_transferred - 1 : data[k] \in Int
    BY <2>1, <1>2
  <2>3. /\ 0 .. HeadTotalLen - 1 \in SUBSET Int
        /\ c \in Int /\ copy_len \in Int /\ bytes_transferred \in Int
    BY <1>3
  <2>4. recv_head_node.data \in [0 .. HeadTotalLen - 1 -> Int]
    BY <1>2
  <2> HIDE DEF c
  <2> QED BY <2>2, <2>3, <2>4, MemcpyType
<1>5. /\ recv_head_node' \in [data : [0 .. HeadTotalLen - 1 -> Int],
                              cur_len : 0 .. HeadTotalLen]
      /\ recv_head_node'.cur_len = c + bytes_transferred
      /\ recv_head_node'.data = d
  <2>1. recv_head_node' = [recv_head_node EXCEPT !.data = d, !.cur_len = c + bytes_transferred]
    BY <1>1, <1>2 DEF Fill
  <2>2. c + bytes_transferred \in 0 .. HeadTotalLen
    BY <1>3
  <2> HIDE DEF c, d
  <2> QED BY <2>1, <2>2, <1>2, <1>4
<1>6. FrameStart' = FrameStart
  BY <1>1, <1>3, <1>5 DEF FrameStart, Rearm
<1>7. ASSUME NEW k \in 0 .. c + bytes_transferred - 1
      PROVE  d[k] = FrameStart + k
  <2>1. d[k] = IF c <= k /\ k < c + bytes_transferred
                 THEN data[copy_len + (k - c)] ELSE recv_head_node.data[k]
    <3>1. k \in 0 .. HeadTotalLen - 1
      BY <1>3
    <3> QED BY <3>1, <1>2 DEF Memcpy
  <2>2. k \in Int /\ c \in Int
    BY <1>3
  <2>3. CASE k < c
    <3>1. k \in 0 .. c - 1
      BY <1>3, <2>3
    <3>2. recv_head_node.data[k] = FrameStart + k
      BY <3>1, <1>1 DEF IInv, HeadOK
    <3> QED BY <2>1, <2>2, <2>3, <3>2
  <2>4. CASE k >= c
    <3>1. /\ copy_len + (k - c) \in copy_len .. copy_len + bytes_transferred - 1
          /\ k < c + bytes_transferred
      BY <1>3, <2>4
    <3>2. data[copy_len + (k - c)]
            = (rcvd - bytes_transferred) + ((copy_len + (k - c)) - copy_len)
      BY <3>1, <1>1 DEF IInv, ChunkOK, Handling
    <3>3. data[copy_len + (k - c)] = FrameStart + k
      BY <3>2, <1>3, <2>2
    <3> QED BY <2>1, <2>4, <3>1, <3>3
  <2> QED BY <2>2, <2>3, <2>4
<1>8. HeadOK' /\ BodyOK'
  <2> HIDE DEF d
  <2>1. c + bytes_transferred < HeadTotalLen
    BY <1>3
  <2>2. recv_head_node'.cur_len < HeadTotalLen
    BY <2>1, <1>5
  <2>3. \A k \in 0 .. recv_head_node'.cur_len - 1 :
          recv_head_node'.data[k] = FrameStart' + k
    <3> SUFFICES ASSUME NEW k \in 0 .. recv_head_node'.cur_len - 1
                 PROVE  recv_head_node'.data[k] = FrameStart' + k
      OBVIOUS
    <3>0. recv_head_node'.cur_len = c + bytes_transferred
      BY <1>5
    <3>1. k \in 0 .. c + bytes_transferred - 1
      BY <3>0, <1>3
    <3>2. d[k] = FrameStart + k
      BY <3>1, <1>7
    <3> QED BY <3>2, <1>5, <1>6
  <2>4. ~b_head_parse'
    BY <1>1
  <2> QED BY <2>2, <2>3, <2>4 DEF HeadOK, BodyOK
<1>81. OverrunOK'
  BY <1>1 DEF IInv, OverrunOK, Overrun
<1>9. TypeOK'
  <2>1. copy_len' \in Nat /\ bytes_transferred' \in Nat
    BY <1>1, AfterRearm
  <2>2. /\ b_head_parse' \in BOOLEAN /\ socketClosed' \in BOOLEAN /\ cleared' \in BOOLEAN
        /\ WholeNode(recv_msg_node') \/ EmptyNode(recv_msg_node')
    BY <1>1, TypeParts
  <2>3. reading' \in {"armed", "handling", "stopped", "dead"}
    BY <1>1, AfterRearm
  <2> QED BY <2>1, <2>2, <2>3, <1>1, <1>5, AfterRearm, TypeAfter
<1> QED BY <1>1, <1>3, <1>6, <1>8, <1>81, <1>9, AfterRearm DEF IInv

(* A node that holds the first cur bytes of a body that starts at stream   *)
(* position B holds cur + n of them once n bytes of the chunk are added.   *)
LEMMA BodyGrows ==
  ASSUME IInv, Handling,
         NEW N \in 0 .. MaxLength, NEW cur \in 0 .. N,
         NEW o \in Nat, NEW n \in Nat, o + n <= bytes_transferred, cur + n <= N,
         NEW nd \in Node(N, cur),
         NEW B \in Int, B = (rcvd - bytes_transferred) + o - cur,
         \A k \in 0 .. cur - 1 : nd.data[k] = B + k
  PROVE  /\ Fill(nd, copy_len + o, n) \in Node(N, cur + n)
         /\ Fill(nd, copy_len + o, n).id = nd.id
         /\ \A k \in 0 .. cur + n - 1 : Fill(nd, copy_len + o, n).data[k] = B + k
<1> DEFINE from == copy_len + o
           new == Fill(nd, from, n)
<1>1. /\ MaxLength \in Nat /\ copy_len \in Nat /\ bytes_transferred \in Nat
      /\ copy_len + bytes_transferred <= MaxLength /\ rcvd \in Nat
      /\ N \in Nat /\ cur \in Nat /\ cur <= N
  BY Facts
<1>2. data \in [0 .. MaxLength - 1 -> Int]
  BY DEF IInv, TypeOK
<1>3. \A k \in from .. from + n - 1 : data[k] \in Int
  <2>1. \A k \in from .. from + n - 1 : k \in 0 .. MaxLength - 1
    BY <1>1
  <2> QED BY <2>1, <1>2
<1>4. from \in Int
  BY <1>1
<1>5. /\ new \in Node(N, cur + n)
      /\ new.id = nd.id
      /\ \A k \in 0 .. N :
           new.data[k] = IF cur <= k /\ k < cur + n
                           THEN data[from + (k - cur)]
                           ELSE nd.data[k]
  <2> HIDE DEF from
  <2>1. new \in Node(N, cur + n)
    BY <1>1, <1>3, <1>4, FillType
  <2>2. new.id = nd.id
    BY <1>1, <1>3, <1>4, FillType
  <2>3. ASSUME NEW k \in 0 .. N
        PROVE  new.data[k] = IF cur <= k /\ k < cur + n
                               THEN data[from + (k - cur)]
                               ELSE nd.data[k]
    BY <1>1, <1>4, FillValue
  <2> QED BY <2>1, <2>2, <2>3
<1>6. ASSUME NEW k \in 0 .. cur + n - 1
      PROVE  new.data[k] = B + k
  <2>1. k \in 0 .. N /\ k \in Int /\ k < cur + n
    BY <1>1
  <2>2. new.data[k] = IF cur <= k THEN data[from + (k - cur)]
                                  ELSE nd.data[k]
    BY <2>1, <1>5
  <2>3. CASE k < cur
    <3>1. k \in 0 .. cur - 1 /\ ~(cur <= k)
      BY <1>1, <2>1, <2>3
    <3> QED BY <2>2, <3>1
  <2>4. CASE k >= cur
    <3>1. /\ from + (k - cur) \in copy_len .. copy_len + bytes_transferred - 1
          /\ cur <= k
      BY <1>1, <2>1, <2>4
    <3>2. data[from + (k - cur)]
            = (rcvd - bytes_transferred) + ((from + (k - cur)) - copy_len)
      BY <3>1 DEF IInv, ChunkOK, Handling
    <3>3. (rcvd - bytes_transferred) + ((from + (k - cur)) - copy_len) = B + k
      BY <1>1, <2>1
    <3> QED BY <2>2, <3>1, <3>2, <3>3
  <2> QED BY <2>1, <1>1, <2>3, <2>4
<1> QED BY <1>5, <1>6

(* A header is parsed and the first part of its body kept.                 *)
LEMMA ParseHeadStoreBodyPartInv ==
  ASSUME IInv, ParseHeadStoreBodyPart, msg_len # -1
  PROVE  IInv' /\ FrameStart' = FrameStart /\ ~Overrun'
<1> DEFINE n == bytes_transferred - HeadRemain
           node0 == NewRecvNode(msg_len, msg_id)
<1>1. /\ Handling /\ ~b_head_parse /\ HeadArrived /\ ~Rejected
      /\ ~NodeCannotBeAllocated
      /\ Below(n, msg_len)
      /\ recv_msg_node' = Fill(node0, copy_len + HeadRemain, n)
      /\ recv_head_node' = [recv_head_node EXCEPT !.data = HeadBytes]
      /\ b_head_parse' = TRUE
      /\ Rearm
      /\ UNCHANGED <<stream, rcvd, posted, socketClosed, cleared>>
  BY DEF ParseHeadStoreBodyPart
<1>2. /\ HeadBytes \in [0 .. HeadTotalLen - 1 -> Int]
      /\ HeadRemain \in 1 .. bytes_transferred
      /\ FrameStart + HeadTotalLen <= stream.size
      /\ FrameStart \in 0 .. stream.size
      /\ msg_id = stream.id[FrameStart]
      /\ msg_len = stream.len[FrameStart]
      /\ msg_id \in Int
      /\ msg_len \in Int
  BY <1>1, HeadDecoded
<1>3. /\ HeadTotalLen \in Nat /\ MaxLength \in Nat /\ rcvd \in Nat
      /\ bytes_transferred \in Nat /\ FrameStart \in Nat
      /\ recv_head_node.cur_len \in Int
      /\ FrameStart = rcvd - bytes_transferred - recv_head_node.cur_len
      /\ HeadRemain = HeadTotalLen - recv_head_node.cur_len
  BY <1>1, Facts DEF FrameStart, HeadRemain
<1>4. /\ msg_id <= MaxLength /\ msg_len \in 0 .. MaxLength /\ n \in Nat
      /\ n < msg_len /\ HeadRemain \in Nat
  <2>1. msg_id <= MaxLength /\ msg_len <= MaxLength /\ ~(msg_len < -1)
    <3>1. msg_id \in Int /\ msg_len \in Int /\ MaxLength \in Int
      BY <1>2, <1>3
    <3> QED BY <3>1, <1>1 DEF Rejected, NodeCannotBeAllocated
  <2>2. msg_id \in Int /\ msg_len \in Int /\ HeadRemain \in 1 .. bytes_transferred
    BY <1>2
  <2>3. msg_len \in 0 .. MaxLength
    BY <2>1, <2>2, <1>3
  <2>4. n < msg_len
    BY <2>3, <1>1 DEF Below
  <2> QED BY <2>1, <2>2, <2>3, <2>4, <1>3
<1>5. /\ recv_msg_node' \in Node(msg_len, n)
      /\ recv_msg_node'.id = msg_id
      /\ \A k \in 0 .. n - 1 : recv_msg_node'.data[k] = FrameStart + HeadTotalLen + k
  <2> DEFINE B == FrameStart + HeadTotalLen
  <2>1. node0 \in Node(msg_len, 0) /\ node0.id = msg_id
    <3>1. msg_len \in Nat
      BY <1>3, <1>4
    <3> QED BY <3>1, <1>2, NewRecvNodeType
  <2>2. /\ HeadRemain + n <= bytes_transferred /\ 0 + n <= msg_len /\ 0 + n = n
        /\ 0 \in 0 .. msg_len /\ 0 .. 0 - 1 = {}
        /\ B \in Int /\ B = (rcvd - bytes_transferred) + HeadRemain - 0
    BY <1>3, <1>4
  <2>3. recv_msg_node' = Fill(node0, copy_len + HeadRemain, n)
    BY <1>1
  <2>4. \A k \in 0 .. 0 - 1 : node0.data[k] = B + k
    BY <2>2
  <2> HIDE DEF n, node0, B
  <2>5. /\ recv_msg_node' \in Node(msg_len, 0 + n)
        /\ recv_msg_node'.id = node0.id
    BY <1>1, <1>4, <2>1, <2>2, <2>3, <2>4, BodyGrows
  <2>6. ASSUME NEW k \in 0 .. 0 + n - 1
        PROVE  recv_msg_node'.data[k] = B + k
    BY <1>1, <1>4, <2>1, <2>2, <2>3, <2>4, BodyGrows
  <2>7. 0 + n = n
    BY <2>2
  <2>8. ASSUME NEW k \in 0 .. n - 1
        PROVE  recv_msg_node'.data[k] = B + k
    <3>1. k \in 0 .. 0 + n - 1
      BY <1>4, <2>7
    <3> QED BY <3>1, <2>6
  <2> QED BY <2>1, <2>5, <2>7, <2>8 DEF B
<1>51. /\ recv_msg_node'.id = msg_id /\ recv_msg_node'.total_len = msg_len
       /\ recv_msg_node'.cur_len = n
  BY <1>5, NodeFields
<1>6. FrameStart' = FrameStart
  BY <1>1, <1>3, <1>51 DEF FrameStart, Rearm
<1>7. recv_head_node' \in [data : [0 .. HeadTotalLen - 1 -> Int],
                           cur_len : 0 .. HeadTotalLen]
  BY <1>1, <1>2 DEF IInv, TypeOK
<1>8. HeadOK' /\ OverrunOK' /\ ~Overrun'
  <2>1. ~Overrun'
    BY <1>4, <1>51 DEF Overrun
  <2> QED BY <2>1, <1>1 DEF HeadOK, OverrunOK
<1>9. BodyOK'
  <2> HIDE DEF n
  <2>1. stream' = stream
    BY <1>1
  <2> QED BY <2>1, <1>1, <1>2, <1>4, <1>5, <1>51, <1>6 DEF BodyOK
<1>10. TypeOK'
  <2>1. copy_len' \in Nat /\ bytes_transferred' \in Nat
    BY <1>1, AfterRearm
  <2>2. /\ b_head_parse' \in BOOLEAN /\ socketClosed' \in BOOLEAN /\ cleared' \in BOOLEAN
        /\ reading' \in {"armed", "handling", "stopped", "dead"}
    BY <1>1, TypeParts, AfterRearm
  <2>3. WholeNode(recv_msg_node')
    <3>1. msg_len \in 0 .. MaxLength /\ n \in 0 .. msg_len
      BY <1>4
    <3> HIDE DEF n
    <3> QED BY <3>1, <1>5, NodeTyped
  <2> QED BY <2>1, <2>2, <2>3, <1>1, <1>7, AfterRearm, TypeAfter
<1> QED BY <1>1, <1>3, <1>6, <1>8, <1>9, <1>10, AfterRearm DEF IInv

(* A header of length -1 is parsed: nothing is promised from here on.      *)
LEMMA MinusOneInv ==
  ASSUME IInv, ParseHeadStoreBodyPart, msg_len = -1
  PROVE  IInv' /\ Framing!End
<1> DEFINE n == bytes_transferred - HeadRemain
           node0 == NewRecvNode(-1, msg_id)
<1>1. /\ Handling /\ ~b_head_parse /\ HeadArrived /\ ~Rejected
      /\ recv_msg_node' = Fill(node0, copy_len + HeadRemain, n)
      /\ recv_head_node' = [recv_head_node EXCEPT !.data = HeadBytes]
      /\ b_head_parse' = TRUE
      /\ Rearm
      /\ UNCHANGED <<stream, rcvd, posted, socketClosed, cleared>>
  BY DEF ParseHeadStoreBodyPart
<1>2. /\ HeadBytes \in [0 .. HeadTotalLen - 1 -> Int]
      /\ HeadRemain \in 1 .. bytes_transferred
      /\ FrameStart + HeadTotalLen <= stream.size
      /\ msg_id = stream.id[FrameStart]
      /\ stream.len[FrameStart] = -1
      /\ msg_id \in Int
  BY <1>1, HeadDecoded
<1>3. /\ HeadTotalLen \in Nat /\ MaxLength \in Nat /\ rcvd \in Nat
      /\ bytes_transferred \in Nat /\ FrameStart \in Nat
      /\ recv_head_node.cur_len \in Int
      /\ FrameStart = rcvd - bytes_transferred - recv_head_node.cur_len
      /\ HeadRemain = HeadTotalLen - recv_head_node.cur_len
  BY <1>1, Facts DEF FrameStart, HeadRemain
<1>4. n \in Nat /\ msg_id <= MaxLength
  <2>1. n \in Nat
    BY <1>2, <1>3
  <2>2. msg_id <= MaxLength
    <3>1. ~Rejected
      BY <1>1
    <3> QED BY <3>1, <1>2, <1>3 DEF Rejected
  <2> QED BY <2>1, <2>2
<1>5. /\ EmptyNode(recv_msg_node') /\ recv_msg_node'.total_len = -1
      /\ recv_msg_node'.id = msg_id /\ recv_msg_node'.cur_len = n
  <2>1. EmptyNode(node0) /\ node0.id = msg_id /\ node0.cur_len = 0
    BY <1>2, EmptyNew
  <2>2. 0 + n = n
    BY <1>4
  <2> HIDE DEF n, node0
  <2> QED BY <2>1, <2>2, <1>1, <1>4, EmptyFill
<1>6. Overrun'
  BY <1>5 DEF Overrun
<1>7. ~Overrun
  BY <1>1 DEF IInv, OverrunOK
<1>8. FrameStart' = FrameStart
  BY <1>1, <1>3, <1>5 DEF FrameStart, Rearm
<1>9. HeadOK' /\ BodyOK' /\ OverrunOK'
  <2> HIDE DEF n
  <2> QED BY <1>1, <1>2, <1>4, <1>5, <1>6, <1>8 DEF HeadOK, BodyOK, OverrunOK
<1>10. TypeOK'
  <2>1. copy_len' \in Nat /\ bytes_transferred' \in Nat
    BY <1>1, AfterRearm
  <2>2. /\ b_head_parse' \in BOOLEAN /\ socketClosed' \in BOOLEAN /\ cleared' \in BOOLEAN
        /\ reading' \in {"armed", "handling", "stopped", "dead"}
    BY <1>1, TypeParts, AfterRearm
  <2>3. recv_head_node' \in [data : [0 .. HeadTotalLen - 1 -> Int],
                             cur_len : 0 .. HeadTotalLen]
    BY <1>1, <1>2 DEF IInv, TypeOK
  <2> HIDE DEF n
  <2> QED BY <2>1, <2>2, <2>3, <1>1, <1>5, AfterRearm, TypeAfter
<1>11. Framing!End
  BY <1>1, <1>6, <1>7, <1>8 DEF Framing!End, Handling
<1> QED BY <1>1, <1>3, <1>8, <1>9, <1>10, <1>11, AfterRearm DEF IInv

(* The message posted when a body is complete is the message of its frame. *)
LEMMA MessageOfFrame ==
  ASSUME NEW nd, NEW N \in Nat, nd \in Node(N, N),
         nd.id = stream.id[FrameStart], N = stream.len[FrameStart],
         \A k \in 0 .. N - 1 : nd.data[k] = FrameStart + HeadTotalLen + k
  PROVE  MessageOf(nd) = Framing!Message(FrameStart)
<1>1. nd.cur_len = N
  BY NodeFields
<1>2. [k \in 0 .. nd.cur_len - 1 |-> nd.data[k]]
        = [k \in 0 .. stream.len[FrameStart] - 1 |-> FrameStart + HeadTotalLen + k]
  BY <1>1
<1> QED BY <1>2 DEF MessageOf, Framing!Message

(* Header and body arrive together.                                        *)
LEMMA ParseHeadPostBodyInv ==
  ASSUME IInv, ParseHeadPostBody
  PROVE  IInv' /\ Framing!Deliver
<1> DEFINE node0 == NewRecvNode(msg_len, msg_id)
           used == HeadRemain + msg_len
<1>1. /\ Handling /\ ~b_head_parse /\ HeadArrived /\ ~Rejected
      /\ ~NodeCannotBeAllocated
      /\ ~Below(bytes_transferred - HeadRemain, msg_len)
      /\ recv_msg_node' = Fill(node0, copy_len + HeadRemain, msg_len)
      /\ posted' = Append(posted, MessageOf(recv_msg_node'))
      /\ b_head_parse' = FALSE
      /\ recv_head_node' = Clear(recv_head_node)
      /\ ContinueOrRearm(used)
      /\ UNCHANGED <<stream, rcvd, socketClosed, cleared>>
  BY DEF ParseHeadPostBody
<1>2. /\ HeadRemain \in 1 .. bytes_transferred
      /\ FrameStart + HeadTotalLen <= stream.size
      /\ FrameStart \in 0 .. stream.size
      /\ msg_id = stream.id[FrameStart]
      /\ msg_len = stream.len[FrameStart]
      /\ msg_id \in Int
      /\ msg_len \in Int
  BY <1>1, HeadDecoded
<1>3. /\ HeadTotalLen \in Nat /\ MaxLength \in Nat /\ rcvd \in Nat
      /\ bytes_transferred \in Nat /\ FrameStart \in Nat
      /\ stream.size \in Nat /\ rcvd <= stream.size
      /\ recv_head_node.cur_len \in Int
      /\ FrameStart = rcvd - bytes_transferred - recv_head_node.cur_len
      /\ HeadRemain = HeadTotalLen - recv_head_node.cur_len
  BY <1>1, Facts DEF FrameStart, HeadRemain
<1>4. /\ msg_id <= MaxLength /\ msg_len \in 0 .. MaxLength
      /\ HeadRemain \in Nat /\ used \in 0 .. bytes_transferred
  <2>1. msg_id <= MaxLength /\ msg_len <= MaxLength /\ ~(msg_len < 0)
    <3>1. msg_id \in Int /\ msg_len \in Int /\ MaxLength \in Int
      BY <1>2, <1>3
    <3> QED BY <3>1, <1>1 DEF Rejected, Below
  <2>2. msg_id \in Int /\ msg_len \in Int /\ HeadRemain \in 1 .. bytes_transferred
    BY <1>2
  <2>3. bytes_transferred - HeadRemain >= msg_len
    <3>1. bytes_transferred - HeadRemain \in Int
      BY <2>2, <1>3
    <3> QED BY <3>1, <2>2, <1>1 DEF Below
  <2> QED BY <2>1, <2>2, <2>3, <1>3
<1>5. /\ recv_msg_node' \in Node(msg_len, msg_len)
      /\ recv_msg_node'.id = msg_id
      /\ \A k \in 0 .. msg_len - 1 :
           recv_msg_node'.data[k] = FrameStart + HeadTotalLen + k
  <2> DEFINE B == FrameStart + HeadTotalLen
  <2>1. node0 \in Node(msg_len, 0) /\ node0.id = msg_id
    <3>1. msg_len \in Nat
      BY <1>3, <1>4
    <3> QED BY <3>1, <1>2, NewRecvNodeType
  <2>2. /\ HeadRemain + msg_len <= bytes_transferred
        /\ 0 + msg_len <= msg_len /\ 0 + msg_len = msg_len
        /\ 0 \in 0 .. msg_len /\ 0 .. 0 - 1 = {} /\ msg_len \in Nat
        /\ B \in Int /\ B = (rcvd - bytes_transferred) + HeadRemain - 0
    BY <1>3, <1>4
  <2>3. recv_msg_node' = Fill(node0, copy_len + HeadRemain, msg_len)
    BY <1>1
  <2>4. \A k \in 0 .. 0 - 1 : node0.data[k] = B + k
    BY <2>2
  <2> HIDE DEF node0, B
  <2>5. /\ recv_msg_node' \in Node(msg_len, 0 + msg_len)
        /\ recv_msg_node'.id = node0.id
    <3>1. IInv /\ Handling
      BY <1>1
    <3> QED BY <3>1, <1>4, <2>1, <2>2, <2>3, <2>4, BodyGrows
  <2>6. ASSUME NEW k \in 0 .. 0 + msg_len - 1
        PROVE  recv_msg_node'.data[k] = B + k
    <3>1. IInv /\ Handling
      BY <1>1
    <3> QED BY <3>1, <1>4, <2>1, <2>2, <2>3, <2>4, BodyGrows
  <2>7. 0 + msg_len = msg_len
    BY <2>2
  <2>8. ASSUME NEW k \in 0 .. msg_len - 1
        PROVE  recv_msg_node'.data[k] = B + k
    <3>1. k \in 0 .. 0 + msg_len - 1
      BY <1>4, <2>7
    <3> QED BY <3>1, <2>6
  <2> QED BY <2>1, <2>5, <2>7, <2>8 DEF B
<1>6. recv_head_node'.cur_len = 0
  BY <1>1 DEF Clear
<1>7. /\ data' \in [0 .. MaxLength - 1 -> Int]
      /\ copy_len' \in Nat /\ bytes_transferred' \in Nat
      /\ copy_len' + bytes_transferred' <= MaxLength
      /\ bytes_transferred' <= rcvd'
      /\ reading' \in {"armed", "handling"}
      /\ ChunkOK'
      /\ FrameStart' = rcvd - bytes_transferred + used
  <2> HIDE DEF used
  <2>1. ContinueOrRearm(used) /\ Handling /\ b_head_parse' = FALSE /\ rcvd' = rcvd
    BY <1>1
  <2> QED BY <2>1, <1>4, <1>6, AfterMessage
<1>8. FrameStart' = FrameStart + HeadTotalLen + stream.len[FrameStart]
  <2>1. FrameStart' = rcvd - bytes_transferred + used
    BY <1>7
  <2> QED BY <2>1, <1>2, <1>3
<1>9. FrameStart' \in Nat
  BY <1>2, <1>3, <1>4, <1>8
<1>91. ~Overrun /\ ~Overrun'
  <2>1. recv_msg_node'.total_len = msg_len
    BY <1>5, NodeFields
  <2> QED BY <2>1, <1>1, <1>4 DEF IInv, OverrunOK, Overrun
<1>10. /\ HeadOK' /\ BodyOK' /\ OverrunOK'
       /\ recv_head_node' \in [data : [0 .. HeadTotalLen - 1 -> Int],
                               cur_len : 0 .. HeadTotalLen]
  BY <1>1, <1>9, <1>91, NextFrame
<1>11. TypeOK'
  <2>1. WholeNode(recv_msg_node')
    <3>1. msg_len \in 0 .. msg_len
      BY <1>4
    <3> QED BY <3>1, <1>4, <1>5, NodeTyped
  <2>2. /\ b_head_parse' \in BOOLEAN /\ socketClosed' \in BOOLEAN /\ cleared' \in BOOLEAN
        /\ reading' \in {"armed", "handling", "stopped", "dead"}
    BY <1>1, <1>7, TypeParts
  <2> QED BY <2>1, <2>2, <1>1, <1>7, <1>10, TypeAfter
<1>12. Framing!Deliver
  <2>1. MessageOf(recv_msg_node') = Framing!Message(FrameStart)
    <3>1. msg_len \in Nat
      BY <1>3, <1>4
    <3> QED BY <3>1, <1>2, <1>5, MessageOfFrame
  <2>2. ~(reading = "stopped" \/ Overrun) /\ ~(reading = "stopped" \/ Overrun)'
    BY <1>1, <1>7, <1>91 DEF Handling
  <2>3. /\ stream.id[FrameStart] <= MaxLength
        /\ stream.len[FrameStart] \in 0 .. MaxLength
    BY <1>2, <1>4
  <2>4. FrameStart + HeadTotalLen + stream.len[FrameStart] <= stream.size
    BY <1>2, <1>3, <1>4
  <2> QED BY <2>1, <2>2, <2>3, <2>4, <1>1, <1>2, <1>8
      DEF Framing!Deliver, Framing!Valid, Framing!Complete
<1> QED BY <1>7, <1>9, <1>10, <1>11, <1>12 DEF IInv

(* The node of the body under way.                                         *)
LEMMA CurrentNode ==
  ASSUME IInv, b_head_parse, ~Overrun
  PROVE  /\ recv_msg_node \in Node(recv_msg_node.total_len, recv_msg_node.cur_len)
         /\ recv_msg_node.total_len \in 0 .. MaxLength
         /\ recv_msg_node.cur_len \in 0 .. recv_msg_node.total_len
         /\ RemainMsg \in Nat
         /\ RemainMsg = recv_msg_node.total_len - recv_msg_node.cur_len
         /\ FrameStart = rcvd - bytes_transferred - HeadTotalLen - recv_msg_node.cur_len
         /\ FrameStart \in Nat
         /\ \A k \in 0 .. recv_msg_node.cur_len - 1 :
              recv_msg_node.data[k] = FrameStart + HeadTotalLen + k
<1>1. PICK n \in 0 .. MaxLength :
        recv_msg_node \in [id : Int, total_len : {n}, cur_len : 0 .. n,
                           data : [0 .. n -> Int]]
  BY Facts DEF WholeNode
<1>2. recv_msg_node \in Node(recv_msg_node.total_len, recv_msg_node.cur_len)
  BY <1>1 DEF Node
<1>3. /\ recv_msg_node.total_len \in 0 .. MaxLength
      /\ recv_msg_node.cur_len \in 0 .. recv_msg_node.total_len
      /\ HeadTotalLen \in Nat /\ rcvd \in Nat /\ bytes_transferred \in Nat
      /\ FrameStart \in Nat
  BY Facts
<1>4. RemainMsg \in Nat /\ RemainMsg = recv_msg_node.total_len - recv_msg_node.cur_len
  BY <1>3 DEF RemainMsg
<1>5. FrameStart = rcvd - bytes_transferred - HeadTotalLen - recv_msg_node.cur_len
  BY <1>3 DEF FrameStart
<1>6. \A k \in 0 .. recv_msg_node.cur_len - 1 :
        recv_msg_node.data[k] = FrameStart + HeadTotalLen + k
  BY DEF IInv, BodyOK
<1> QED BY <1>2, <1>3, <1>4, <1>5, <1>6

(* More of a body is kept.                                                 *)
LEMMA StoreBodyPartInv ==
  ASSUME IInv, StoreBodyPart, ~Overrun
  PROVE  IInv' /\ FrameStart' = FrameStart /\ ~Overrun'
<1> DEFINE N == recv_msg_node.total_len
           cur == recv_msg_node.cur_len
           B == FrameStart + HeadTotalLen
<1>1. /\ Handling /\ b_head_parse /\ Below(bytes_transferred, RemainMsg)
      /\ recv_msg_node' = Fill(recv_msg_node, copy_len, bytes_transferred)
      /\ Rearm
      /\ UNCHANGED <<stream, rcvd, b_head_parse, recv_head_node, posted,
                     socketClosed, cleared>>
  BY DEF StoreBodyPart
<1>2. /\ recv_msg_node \in Node(N, cur)
      /\ N \in 0 .. MaxLength /\ cur \in 0 .. N
      /\ RemainMsg = N - cur
      /\ FrameStart = rcvd - bytes_transferred - HeadTotalLen - cur
      /\ FrameStart \in Nat
      /\ \A k \in 0 .. cur - 1 : recv_msg_node.data[k] = B + k
  BY <1>1, CurrentNode
<1>3. /\ copy_len \in Nat /\ bytes_transferred \in Nat /\ rcvd \in Nat
      /\ HeadTotalLen \in Nat /\ MaxLength \in Nat
  BY Facts
<1>4. /\ 0 + bytes_transferred <= bytes_transferred /\ copy_len + 0 = copy_len
      /\ cur + bytes_transferred < N /\ cur + bytes_transferred <= N
      /\ B \in Int /\ B = (rcvd - bytes_transferred) + 0 - cur
  <2>1. bytes_transferred < N - cur
    BY <1>1, <1>2 DEF Below
  <2> QED BY <2>1, <1>2, <1>3
<1>5. /\ recv_msg_node' \in Node(N, cur + bytes_transferred)
      /\ recv_msg_node'.id = recv_msg_node.id
  <2> HIDE DEF N, cur, B
  <2>1. recv_msg_node' = Fill(recv_msg_node, copy_len + 0, bytes_transferred)
    BY <1>1, <1>4
  <2>2. 0 \in Nat
    OBVIOUS
  <2> QED BY <2>1, <2>2, <1>1, <1>2, <1>3, <1>4, BodyGrows
<1>6. ASSUME NEW k \in 0 .. cur + bytes_transferred - 1
      PROVE  recv_msg_node'.data[k] = B + k
  <2> HIDE DEF N, cur, B
  <2>1. recv_msg_node' = Fill(recv_msg_node, copy_len + 0, bytes_transferred)
    BY <1>1, <1>4
  <2>2. 0 \in Nat
    OBVIOUS
  <2> QED BY <2>1, <2>2, <1>1, <1>2, <1>3, <1>4, BodyGrows
<1>7. /\ recv_msg_node'.cur_len = cur + bytes_transferred
      /\ recv_msg_node'.total_len = N
  BY <1>5, NodeFields
<1>8. FrameStart' = FrameStart
  <2>1. FrameStart' = rcvd' - bytes_transferred' - (HeadTotalLen + recv_msg_node'.cur_len)
    BY <1>1 DEF FrameStart
  <2>2. rcvd' = rcvd /\ bytes_transferred' = 0
    BY <1>1 DEF Rearm
  <2>3. cur \in Int
    BY <1>2
  <2> HIDE DEF cur
  <2> QED BY <2>1, <2>2, <2>3, <1>2, <1>3, <1>7
<1>9. BodyOK'
  <2> HIDE DEF N, cur, B
  <2>1. /\ FrameStart + HeadTotalLen <= stream.size
        /\ stream.id[FrameStart] <= MaxLength
        /\ recv_msg_node.id = stream.id[FrameStart]
        /\ N = stream.len[FrameStart]
    BY <1>1 DEF IInv, BodyOK, N
  <2>2. ASSUME NEW k \in 0 .. recv_msg_node'.cur_len - 1
        PROVE  recv_msg_node'.data[k] = FrameStart' + HeadTotalLen + k
    <3>1. recv_msg_node'.data[k] = B + k
      <4>1. recv_msg_node'.cur_len = cur + bytes_transferred
        BY <1>7
      <4>2. cur \in Int /\ bytes_transferred \in Int
        BY <1>2, <1>3
      <4>3. k \in 0 .. cur + bytes_transferred - 1
        BY <4>1, <4>2
      <4> QED BY <4>3, <1>6
    <3> QED BY <3>1, <1>8 DEF B
  <2>3. stream' = stream
    BY <1>1
  <2> QED BY <2>1, <2>2, <2>3, <1>4, <1>5, <1>7, <1>8 DEF BodyOK
<1>10. HeadOK' /\ OverrunOK' /\ ~Overrun'
  <2>1. ~Overrun'
    BY <1>2, <1>7 DEF Overrun
  <2> QED BY <2>1, <1>1 DEF HeadOK, OverrunOK
<1>11. TypeOK'
  <2>1. WholeNode(recv_msg_node')
    <3>1. cur + bytes_transferred \in 0 .. N
      BY <1>2, <1>3, <1>4
    <3> HIDE DEF N, cur
    <3> QED BY <3>1, <1>2, <1>5, NodeTyped
  <2>2. copy_len' \in Nat /\ bytes_transferred' \in Nat
    BY <1>1, AfterRearm
  <2>3. /\ b_head_parse' \in BOOLEAN /\ socketClosed' \in BOOLEAN /\ cleared' \in BOOLEAN
        /\ reading' \in {"armed", "handling", "stopped", "dead"}
        /\ recv_head_node' \in [data : [0 .. HeadTotalLen - 1 -> Int],
                                cur_len : 0 .. HeadTotalLen]
    BY <1>1, TypeParts, AfterRearm
  <2> QED BY <2>1, <2>2, <2>3, <1>1, AfterRearm, TypeAfter
<1> QED BY <1>1, <1>2, <1>8, <1>9, <1>10, <1>11, AfterRearm DEF IInv

(* A node without bytes goes on counting what overwrites the memory of     *)
(* others.                                                                 *)
LEMMA SwallowInv ==
  ASSUME IInv, StoreBodyPart, Overrun
  PROVE  IInv' /\ FrameStart' = FrameStart /\ Overrun'
<1> DEFINE cur == recv_msg_node.cur_len
<1>1. /\ Handling /\ b_head_parse
      /\ recv_msg_node' = Fill(recv_msg_node, copy_len, bytes_transferred)
      /\ Rearm
      /\ UNCHANGED <<stream, rcvd, b_head_parse, recv_head_node, posted,
                     socketClosed, cleared>>
  BY DEF StoreBodyPart
<1>2. /\ EmptyNode(recv_msg_node) /\ recv_msg_node.total_len = -1
      /\ cur \in Nat /\ bytes_transferred \in Nat /\ rcvd \in Nat
      /\ HeadTotalLen \in Nat /\ FrameStart \in Nat
  BY Facts DEF EmptyNode
<1>3. /\ EmptyNode(recv_msg_node') /\ recv_msg_node'.total_len = -1
      /\ recv_msg_node'.id = recv_msg_node.id
      /\ recv_msg_node'.cur_len = cur + bytes_transferred
  BY <1>1, <1>2, EmptyFill
<1>4. Overrun'
  BY <1>3 DEF Overrun
<1>5. FrameStart' = FrameStart
  BY <1>1, <1>2, <1>3 DEF FrameStart, Rearm
<1>6. HeadOK' /\ BodyOK' /\ OverrunOK'
  <2>1. /\ FrameStart + HeadTotalLen <= stream.size
        /\ stream.id[FrameStart] <= MaxLength
        /\ recv_msg_node.id = stream.id[FrameStart]
        /\ recv_msg_node.total_len = stream.len[FrameStart]
    BY <1>1 DEF IInv, BodyOK
  <2> QED BY <2>1, <1>1, <1>2, <1>3, <1>4, <1>5 DEF HeadOK, BodyOK, OverrunOK
<1>7. TypeOK'
  <2>1. copy_len' \in Nat /\ bytes_transferred' \in Nat
    BY <1>1, AfterRearm
  <2>2. /\ b_head_parse' \in BOOLEAN /\ socketClosed' \in BOOLEAN /\ cleared' \in BOOLEAN
        /\ reading' \in {"armed", "handling", "stopped", "dead"}
        /\ recv_head_node' \in [data : [0 .. HeadTotalLen - 1 -> Int],
                                cur_len : 0 .. HeadTotalLen]
    BY <1>1, TypeParts, AfterRearm
  <2> QED BY <2>1, <2>2, <1>1, <1>3, AfterRearm, TypeAfter
<1> QED BY <1>1, <1>2, <1>4, <1>5, <1>6, <1>7, AfterRearm DEF IInv

(* The rest of a body arrives.                                             *)
LEMMA PostBodyInv ==
  ASSUME IInv, PostBody
  PROVE  IInv' /\ Framing!Deliver
<1> DEFINE N == recv_msg_node.total_len
           cur == recv_msg_node.cur_len
           B == FrameStart + HeadTotalLen
<1>1. /\ Handling /\ b_head_parse /\ ~Below(bytes_transferred, RemainMsg)
      /\ recv_msg_node' = Fill(recv_msg_node, copy_len, RemainMsg)
      /\ posted' = Append(posted, MessageOf(recv_msg_node'))
      /\ b_head_parse' = FALSE
      /\ recv_head_node' = Clear(recv_head_node)
      /\ ContinueOrRearm(RemainMsg)
      /\ UNCHANGED <<stream, rcvd, socketClosed, cleared>>
  BY DEF PostBody
<1>0. ~Overrun
  <2> SUFFICES ASSUME Overrun PROVE FALSE
    OBVIOUS
  <2>1. N = -1 /\ cur \in Nat
    BY Facts DEF EmptyNode
  <2>2. RemainMsg < 0
    BY <2>1 DEF RemainMsg
  <2> QED BY <2>2, <1>1 DEF Below
<1>2. /\ recv_msg_node \in Node(N, cur)
      /\ N \in 0 .. MaxLength /\ cur \in 0 .. N
      /\ RemainMsg \in Nat /\ RemainMsg = N - cur
      /\ FrameStart = rcvd - bytes_transferred - HeadTotalLen - cur
      /\ FrameStart \in Nat
      /\ \A k \in 0 .. cur - 1 : recv_msg_node.data[k] = B + k
  BY <1>0, <1>1, CurrentNode
<1>3. /\ copy_len \in Nat /\ bytes_transferred \in Nat /\ rcvd \in Nat
      /\ HeadTotalLen \in Nat /\ MaxLength \in Nat
      /\ rcvd <= stream.size /\ stream.size \in Nat
  BY Facts
<1>4. /\ 0 + RemainMsg <= bytes_transferred /\ copy_len + 0 = copy_len
      /\ cur + RemainMsg <= N
      /\ RemainMsg \in 0 .. bytes_transferred
      /\ B \in Int /\ B = (rcvd - bytes_transferred) + 0 - cur
  <2>1. bytes_transferred >= RemainMsg
    BY <1>1, <1>2, <1>3 DEF Below
  <2> QED BY <2>1, <1>2, <1>3
<1>5. /\ recv_msg_node' \in Node(N, cur + RemainMsg)
      /\ recv_msg_node'.id = recv_msg_node.id
  <2> HIDE DEF N, cur, B
  <2>1. recv_msg_node' = Fill(recv_msg_node, copy_len + 0, RemainMsg)
    BY <1>1, <1>4
  <2>2. 0 \in Nat
    OBVIOUS
  <2>3. /\ recv_msg_node \in Node(N, cur)
        /\ N \in 0 .. MaxLength /\ cur \in 0 .. N /\ RemainMsg \in Nat
        /\ \A j \in 0 .. cur - 1 : recv_msg_node.data[j] = B + j
    BY <1>2
  <2>4. Handling
    BY <1>1
  <2> QED BY <2>1, <2>2, <2>3, <2>4, <1>4, BodyGrows
<1>6. ASSUME NEW k \in 0 .. cur + RemainMsg - 1
      PROVE  recv_msg_node'.data[k] = B + k
  <2> HIDE DEF N, cur, B
  <2>1. recv_msg_node' = Fill(recv_msg_node, copy_len + 0, RemainMsg)
    BY <1>1, <1>4
  <2>2. 0 \in Nat
    OBVIOUS
  <2>3. /\ recv_msg_node \in Node(N, cur)
        /\ N \in 0 .. MaxLength /\ cur \in 0 .. N /\ RemainMsg \in Nat
        /\ \A j \in 0 .. cur - 1 : recv_msg_node.data[j] = B + j
    BY <1>2
  <2>4. Handling
    BY <1>1
  <2> QED BY <2>1, <2>2, <2>3, <2>4, <1>4, BodyGrows
<1>7. /\ recv_msg_node' \in Node(N, N)
      /\ \A k \in 0 .. N - 1 : recv_msg_node'.data[k] = FrameStart + HeadTotalLen + k
  <2>1. cur + RemainMsg = N
    BY <1>2
  <2>2. recv_msg_node' \in Node(N, N)
    BY <2>1, <1>5
  <2>3. ASSUME NEW k \in 0 .. N - 1
        PROVE  recv_msg_node'.data[k] = FrameStart + HeadTotalLen + k
    <3>1. k \in 0 .. cur + RemainMsg - 1
      BY <2>1, <1>2
    <3> QED BY <3>1, <1>6 DEF B
  <2> QED BY <2>2, <2>3
<1>8. /\ FrameStart + HeadTotalLen <= stream.size
      /\ stream.id[FrameStart] <= MaxLength
      /\ recv_msg_node.id = stream.id[FrameStart]
      /\ N = stream.len[FrameStart]
  BY <1>1 DEF IInv, BodyOK
<1>9. recv_head_node'.cur_len = 0
  BY <1>1 DEF Clear
<1>10. /\ data' \in [0 .. MaxLength - 1 -> Int]
       /\ copy_len' \in Nat /\ bytes_transferred' \in Nat
       /\ copy_len' + bytes_transferred' <= MaxLength
       /\ bytes_transferred' <= rcvd'
       /\ reading' \in {"armed", "handling"}
       /\ ChunkOK'
       /\ FrameStart' = rcvd - bytes_transferred + RemainMsg
  <2>1. ContinueOrRearm(RemainMsg) /\ Handling /\ b_head_parse' = FALSE /\ rcvd' = rcvd
    BY <1>1
  <2> QED BY <2>1, <1>4, <1>9, AfterMessage
<1>11. /\ FrameStart' = FrameStart + HeadTotalLen + N
       /\ FrameStart' \in Nat
       /\ FrameStart + HeadTotalLen + N <= stream.size
  <2>1. FrameStart' = rcvd - bytes_transferred + RemainMsg
    BY <1>10
  <2> QED BY <2>1, <1>2, <1>3, <1>4
<1>111. ~Overrun'
  <2>1. recv_msg_node'.total_len = N
    BY <1>7, NodeFields
  <2> QED BY <2>1, <1>2 DEF Overrun
<1>12. /\ HeadOK' /\ BodyOK' /\ OverrunOK'
       /\ recv_head_node' \in [data : [0 .. HeadTotalLen - 1 -> Int],
                               cur_len : 0 .. HeadTotalLen]
  BY <1>1, <1>11, <1>111, NextFrame
<1>13. TypeOK'
  <2>1. WholeNode(recv_msg_node')
    <3>1. N \in 0 .. N
      BY <1>2
    <3> HIDE DEF N
    <3> QED BY <3>1, <1>2, <1>7, NodeTyped
  <2>2. /\ b_head_parse' \in BOOLEAN /\ socketClosed' \in BOOLEAN /\ cleared' \in BOOLEAN
        /\ reading' \in {"armed", "handling", "stopped", "dead"}
    BY <1>1, <1>10, TypeParts
  <2> QED BY <2>1, <2>2, <1>1, <1>10, <1>12, TypeAfter
<1>14. Framing!Deliver
  <2>1. MessageOf(recv_msg_node') = Framing!Message(FrameStart)
    <3>1. N \in Nat /\ recv_msg_node'.id = stream.id[FrameStart]
      BY <1>2, <1>3, <1>5, <1>8
    <3> HIDE DEF N
    <3> QED BY <3>1, <1>7, <1>8, MessageOfFrame
  <2>2. ~(reading = "stopped" \/ Overrun) /\ ~(reading = "stopped" \/ Overrun)'
    BY <1>0, <1>1, <1>10, <1>111 DEF Handling
  <2>3. stream.len[FrameStart] \in 0 .. MaxLength
    BY <1>2, <1>8
  <2>4. FrameStart + HeadTotalLen + stream.len[FrameStart] <= stream.size
    BY <1>8, <1>11
  <2>5. FrameStart' = FrameStart + HeadTotalLen + stream.len[FrameStart]
    BY <1>8, <1>11
  <2> QED BY <2>1, <2>2, <2>3, <2>4, <2>5, <1>1, <1>8
      DEF Framing!Deliver, Framing!Valid, Framing!Complete
<1> QED BY <1>10, <1>11, <1>12, <1>13, <1>14 DEF IInv

(* A read completes: the chunk is the next bytes of the stream.            *)
LEMMA ReadSomeInv ==
  ASSUME IInv, NEW n \in 1 .. MaxLength, ReadSome(n)
  PROVE  IInv' /\ FrameStart' = FrameStart
<1>1. /\ reading = "armed" /\ rcvd + n <= stream.size
      /\ data' = [k \in 0 .. MaxLength - 1 |-> IF k < n THEN rcvd + k ELSE data[k]]
      /\ rcvd' = rcvd + n /\ copy_len' = 0 /\ bytes_transferred' = n
      /\ reading' = "handling"
      /\ UNCHANGED <<stream, b_head_parse, recv_head_node, recv_msg_node, posted,
                     socketClosed, cleared>>
  BY DEF ReadSome
<1>2. MaxLength \in Nat /\ rcvd \in Nat /\ stream.size \in Nat
  BY Facts
<1>3. bytes_transferred = 0
  BY <1>1 DEF IInv, ChunkOK
<1>4. FrameStart' = FrameStart
  <2>1. rcvd' - bytes_transferred' = rcvd - bytes_transferred
    BY <1>1, <1>2, <1>3
  <2> QED BY <2>1, <1>1 DEF FrameStart
<1>5. data' \in [0 .. MaxLength - 1 -> Int]
  <2>1. data \in [0 .. MaxLength - 1 -> Int]
    BY TypeParts
  <2>2. \A k \in 0 .. MaxLength - 1 : rcvd + k \in Int
    BY <1>2
  <2> QED BY <2>1, <2>2, <1>1
<1>6. ASSUME NEW k \in copy_len' .. copy_len' + bytes_transferred' - 1
      PROVE  data'[k] = (rcvd' - bytes_transferred') + (k - copy_len')
  <2>1. /\ k \in 0 .. MaxLength - 1 /\ k < n /\ k \in Int
        /\ (rcvd' - bytes_transferred') + (k - copy_len') = rcvd + k
    BY <1>1, <1>2
  <2> QED BY <2>1, <1>1
<1>7. ChunkOK'
  BY <1>1, <1>6 DEF ChunkOK
<1>8. TypeOK'
  <2>1. /\ rcvd' \in 0 .. stream'.size /\ copy_len' \in Nat /\ bytes_transferred' \in Nat
        /\ copy_len' + bytes_transferred' <= MaxLength /\ bytes_transferred' <= rcvd'
    BY <1>1, <1>2
  <2>2. stream' \in Streams
    BY <1>1, Facts
  <2> QED BY <2>1, <2>2, <1>1, <1>5, TypeParts DEF TypeOK
<1> QED BY <1>1, <1>4, <1>7, <1>8, SameFrame DEF IInv

(* The steps that end the reading keep the frame under way as it is.       *)
LEMMA StopInv ==
  ASSUME IInv, ReadError \/ RejectHead \/ ThrowOnHead
  PROVE  IInv' /\ (Framing!End \/ UNCHANGED Framing!vars)
<1>1. /\ UNCHANGED <<stream, rcvd, data, copy_len, bytes_transferred, b_head_parse,
                     recv_msg_node, posted>>
      /\ reading # "stopped" /\ reading' = "stopped"
      /\ cleared' \in BOOLEAN /\ socketClosed' \in BOOLEAN
  BY TypeParts DEF ReadError, RejectHead, ThrowOnHead, Handling
<1>2. /\ recv_head_node' \in [data : [0 .. HeadTotalLen - 1 -> Int],
                              cur_len : 0 .. HeadTotalLen]
      /\ recv_head_node'.cur_len = recv_head_node.cur_len
      /\ b_head_parse \/ ReadError =>
           recv_head_node' = recv_head_node
      /\ ~b_head_parse /\ ~ReadError =>
           /\ Handling /\ HeadArrived
           /\ recv_head_node'.data = HeadBytes
  <2>1. CASE ReadError
    BY <2>1, TypeParts DEF ReadError
  <2>2. CASE RejectHead \/ ThrowOnHead
    <3>1. /\ Handling /\ HeadArrived /\ ~b_head_parse
          /\ recv_head_node' = [recv_head_node EXCEPT !.data = HeadBytes]
      BY <2>2 DEF RejectHead, ThrowOnHead
    <3>2. HeadBytes \in [0 .. HeadTotalLen - 1 -> Int]
      BY <3>1, HeadDecoded
    <3>3. recv_head_node \in [data : [0 .. HeadTotalLen - 1 -> Int],
                              cur_len : 0 .. HeadTotalLen]
      BY TypeParts
    <3>4. ~ReadError
      BY <3>1 DEF ReadError, Handling
    <3> QED BY <3>1, <3>2, <3>3, <3>4
  <2> QED BY <2>1, <2>2
<1>3. FrameStart' = FrameStart
  BY <1>1, <1>2 DEF FrameStart
<1>4. TypeOK'
  BY <1>1, <1>2 DEF IInv, TypeOK
<1>5. ChunkOK'
  BY <1>1 DEF ChunkOK
<1>6. BodyOK' /\ OverrunOK' /\ (Overrun' <=> Overrun)
  BY <1>1, <1>3 DEF IInv, BodyOK, OverrunOK, Overrun
<1>7. HeadOK'
  <2>1. CASE b_head_parse \/ ReadError
    BY <2>1, <1>1, <1>2, <1>3 DEF IInv, HeadOK
  <2>2. CASE ~b_head_parse /\ ~ReadError
    <3>1. \A k \in 0 .. HeadTotalLen - 1 : HeadBytes[k] = FrameStart + k
      BY <2>2, <1>2, HeadDecoded
    <3>2. recv_head_node.cur_len < HeadTotalLen
      BY <2>2 DEF IInv, HeadOK
    <3>3. /\ recv_head_node.cur_len \in 0 .. HeadTotalLen /\ HeadTotalLen \in Nat
      BY Facts
    <3>4. ASSUME NEW k \in 0 .. recv_head_node.cur_len - 1
          PROVE  recv_head_node'.data[k] = FrameStart' + k
      <4>1. k \in 0 .. HeadTotalLen - 1
        BY <3>2, <3>3
      <4> QED BY <4>1, <3>1, <2>2, <1>2, <1>3
    <3> QED BY <3>2, <3>4, <1>2 DEF HeadOK
  <2> QED BY <2>1, <2>2
<1>8. CASE ~Overrun
  <2>1. Framing!End
    BY <1>8, <1>1, <1>3, <1>6 DEF Framing!End
  <2> QED BY <2>1, <1>3, <1>4, <1>5, <1>6, <1>7 DEF IInv
<1>9. CASE Overrun
  <2>1. UNCHANGED Framing!vars
    BY <1>9, <1>1, <1>3, <1>6 DEF Framing!vars
  <2> QED BY <2>1, <1>3, <1>4, <1>5, <1>6, <1>7 DEF IInv
<1> QED BY <1>8, <1>9

(* The end of the process, which comes after the promise has ended.        *)
LEMMA DieInv ==
  ASSUME IInv, Die
  PROVE  IInv' /\ UNCHANGED Framing!vars
<1>1. /\ UNCHANGED <<stream, rcvd, data, copy_len, bytes_transferred, b_head_parse,
                     recv_head_node, recv_msg_node, posted, socketClosed, cleared>>
      /\ Overrun /\ reading' = "dead"
  BY DEF Die, local, node, fate
<1>2. FrameStart' = FrameStart /\ Overrun'
  BY <1>1 DEF FrameStart, Overrun
<1>3. TypeOK'
  BY <1>1 DEF IInv, TypeOK
<1>4. ChunkOK'
  BY <1>1 DEF ChunkOK
<1>5. FrameStart' \in Nat /\ HeadOK' /\ BodyOK' /\ OverrunOK'
  BY <1>1, <1>2, SameFrame
<1>6. UNCHANGED Framing!vars
  BY <1>1, <1>2 DEF Framing!vars
<1> QED BY <1>3, <1>4, <1>5, <1>6 DEF IInv

-----------------------------------------------------------------------------
(* Every step of the reader preserves the inductive invariant, and is a    *)
(* step of the framing promise or leaves what the promise sees unchanged.  *)
LEMMA StepInv ==
  ASSUME IInv, [Next]_vars
  PROVE  /\ IInv'
         /\ [Framing!Next]_(Framing!vars)
<1> DEFINE Seen == /\ UNCHANGED <<stream, posted>> /\ FrameStart' = FrameStart
                   /\ reading # "stopped" /\ reading' # "stopped"
                   /\ Overrun' <=> Overrun
<1>0. Seen => UNCHANGED Framing!vars
  BY DEF Framing!vars
<1>1. ASSUME NEW n \in 1 .. MaxLength, ReadSome(n)
      PROVE  IInv' /\ Seen
  BY <1>1, ReadSomeInv DEF ReadSome, Overrun
<1>2. ASSUME ReadError \/ RejectHead \/ ThrowOnHead
      PROVE  IInv' /\ (Framing!End \/ UNCHANGED Framing!vars)
  BY <1>2, StopInv
<1>3. ASSUME StoreHeadPart PROVE IInv' /\ Seen
  BY <1>3, StoreHeadPartInv DEF StoreHeadPart, Handling, Rearm, Overrun
<1>4. ASSUME ParseHeadStoreBodyPart PROVE IInv' /\ (Seen \/ Framing!End)
  <2>1. CASE msg_len = -1
    BY <1>4, <2>1, MinusOneInv
  <2>2. CASE msg_len # -1
    <3>1. ~Overrun
      BY <1>4 DEF ParseHeadStoreBodyPart, IInv, OverrunOK
    <3> QED BY <1>4, <2>2, <3>1, ParseHeadStoreBodyPartInv
               DEF ParseHeadStoreBodyPart, Handling, Rearm
  <2> QED BY <2>1, <2>2
<1>5. ASSUME ParseHeadPostBody PROVE IInv' /\ Framing!Deliver
  BY <1>5, ParseHeadPostBodyInv
<1>6. ASSUME StoreBodyPart PROVE IInv' /\ Seen
  <2>1. CASE Overrun
    BY <1>6, <2>1, SwallowInv DEF StoreBodyPart, Handling, Rearm
  <2>2. CASE ~Overrun
    BY <1>6, <2>2, StoreBodyPartInv DEF StoreBodyPart, Handling, Rearm
  <2> QED BY <2>1, <2>2
<1>7. ASSUME PostBody PROVE IInv' /\ Framing!Deliver
  BY <1>7, PostBodyInv
<1>71. ASSUME Die PROVE IInv' /\ UNCHANGED Framing!vars
  BY <1>71, DieInv
<1>8. CASE UNCHANGED vars
  <2>1. FrameStart' = FrameStart
    BY <1>8 DEF vars, FrameStart
  <2>2. TypeOK'
    BY <1>8 DEF vars, IInv, TypeOK
  <2>3. ChunkOK'
    BY <1>8 DEF vars, IInv, ChunkOK
  <2>4. HeadOK' /\ BodyOK' /\ OverrunOK' /\ FrameStart' \in Nat
    BY <1>8, <2>1, SameFrame DEF vars
  <2>5. Overrun' <=> Overrun
    BY <1>8 DEF vars, Overrun
  <2> QED BY <1>8, <2>1, <2>2, <2>3, <2>4, <2>5 DEF IInv, vars, Framing!vars
<1>9. QED
  <2> HIDE DEF Seen
  <2> QED BY <1>0, <1>1, <1>2, <1>3, <1>4, <1>5, <1>6, <1>7, <1>71, <1>8
             DEF Next, HandleRead, Framing!Next

(* The reader always has variables of the right type, whatever it is sent  *)
(* and however that is cut into chunks.                                    *)
THEOREM TypeCorrect == Spec => []TypeOK
<1>1. Init => IInv
  BY InitInv
<1>2. IInv /\ [Next]_vars => IInv'
  BY StepInv
<1>3. IInv => TypeOK
  BY DEF IInv
<1> QED BY <1>1, <1>2, <1>3, PTL DEF Spec

(* For every stream, every memcpy of HandleRead stays inside its buffers   *)
(* unless a header announced the length -1: no other length, valid or not, *)
(* and no way of cutting the stream makes a copy too long.                 *)
THEOREM CopiesStayInside == Spec => []CopiesFit
<1>1. Init => IInv
  BY InitInv
<1>2. IInv /\ [Next]_vars => IInv'
  BY StepInv
<1>3. IInv => CopiesFit
  <2> SUFFICES ASSUME IInv PROVE CopiesFit
    OBVIOUS
  <2>1. /\ copy_len + bytes_transferred <= MaxLength
        /\ recv_head_node.cur_len <= HeadTotalLen
    BY Facts
  <2>2. ASSUME recv_msg_node.cur_len > recv_msg_node.total_len
        PROVE  b_head_parse /\ FrameStart \in DOMAIN stream.len /\ stream.len[FrameStart] = -1
    <3>1. Overrun
      BY <2>2, Facts
    <3>2. b_head_parse /\ recv_msg_node.total_len = -1
      BY <3>1, Facts DEF IInv, OverrunOK, EmptyNode
    <3>3. /\ FrameStart + HeadTotalLen <= stream.size
          /\ recv_msg_node.total_len = stream.len[FrameStart]
      BY <3>2 DEF IInv, BodyOK
    <3>4. DOMAIN stream.len = 0 .. stream.size
      BY StreamsAssumption, Facts
    <3>5. FrameStart \in 0 .. stream.size
      BY <3>3, Facts
    <3> QED BY <3>2, <3>3, <3>4, <3>5
  <2> QED BY <2>1, <2>2 DEF CopiesFit
<1> QED BY <1>1, <1>2, <1>3, PTL DEF Spec

(* HandleRead implements the framing promise for every header size, every  *)
(* maximal length and every stream: the messages posted to the logic       *)
(* system are the frames of the stream, in order, each with its own bytes. *)
THEOREM Refines == Spec => Framed
<1>1. Init => IInv /\ Framing!Init
  <2>1. HeadTotalLen \in Nat /\ (Init => FrameStart = 0)
    BY StreamsAssumption DEF Init, FrameStart
  <2>2. Init => ~Overrun
    BY DEF Init, Overrun, NewRecvNode
  <2> QED BY <2>1, <2>2, InitInv DEF Init, Framing!Init
<1>2. IInv /\ [Next]_vars => IInv' /\ [Framing!Next]_(Framing!vars)
  BY StepInv
<1> QED BY <1>1, <1>2, PTL DEF Spec, Framed, Framing!Spec
=============================================================================
