----------------------------- MODULE EdgesProofs -----------------------------
(***************************************************************************)
(* For any number of requests and chats: the socket of the terminal client *)
(* outlives its reader, and what is shown of answers are those of the      *)
(* first operations chosen, in order (ClientIInv: the requests on their    *)
(* way, the worker's and the answers on their way are one sequence).  For  *)
(* any pages, messages and frames: what reaches the server of a page is    *)
(* what it sent, in order, from the first message on (RelayIInv), and what *)
(* a page is shown is the beginning of what its server wrote (ShownIInv).  *)
(* For any sessions and streams: what the peers of the server receive      *)
(* follows the order of what they asked (PeerIInv: the posts of a session  *)
(* are numbered, and everything sent belongs to a post that was taken).    *)
(***************************************************************************)
EXTENDS MCEdges, TLAPS

-----------------------------------------------------------------------------
(* The terminal client *)

\* read_thread uses the socket of main: of the steps of both threads only
\* Unwind leaves the block of main while the reader is not done, and it ends
\* the process.
THEOREM ReaderHasSocket == Spec => []SocketOutlivesReader
<1>1. Init => SocketOutlivesReader
  BY DEF Init, ClientInit, SocketOutlivesReader
<1>2. SocketOutlivesReader /\ [Next]_vars => SocketOutlivesReader'
  <2> SUFFICES ASSUME SocketOutlivesReader, [Next]_vars PROVE SocketOutlivesReader'
    OBVIOUS
  <2>1. CASE ClientNext
    <3> USE DEF SocketOutlivesReader, client
    <3>1. CASE Connect BY <3>1 DEF Connect
    <3>2. CASE \E op \in Operations : Choose(op) BY <3>2 DEF Choose
    <3>3. CASE \E parses \in BOOLEAN : Write(parses)
      BY <3>3 DEF Write, AfterWrite
    <3>4. CASE WriteFails BY <3>4 DEF WriteFails, Unwind
    <3>5. CASE Join BY <3>5 DEF Join, ReaderEnded
    <3>6. CASE ReadHead BY <3>6 DEF ReadHead
    <3>7. CASE ReadBody BY <3>7 DEF ReadBody, ReadOn
    <3>8. CASE ReadThrows BY <3>8 DEF ReadThrows
    <3>9. CASE Serve BY <3>9 DEF Serve
    <3>10. CASE Forward BY <3>10 DEF Forward
    <3>11. CASE ClientGone \/ ConnectionLost
      BY <3>11 DEF ClientGone, ConnectionLost
    <3> QED BY <2>1, <3>1, <3>2, <3>3, <3>4, <3>5, <3>6, <3>7, <3>8, <3>9,
               <3>10, <3>11 DEF ClientNext
  <2>2. CASE UNCHANGED clientVars
    BY <2>2 DEF clientVars, SocketOutlivesReader
  <2> QED BY <2>1, <2>2 DEF Next, vars
<1> QED BY <1>1, <1>2, PTL DEF Spec

-----------------------------------------------------------------------------
(* The answers on their way to the screen *)

\* The frames of the connection, those printed and those on their way.
Delivered == printed \o down

InOrder(s) ==
  \A i \in 1 .. Len(s) : s[i][1] # 0 =>
    /\ RightAnswer(s[i])
    /\ \A j \in 1 .. i - 1 : s[j][1] < s[i][1]
    /\ \A n \in 1 .. s[i][1] - 1 :
         Answers(asked[n]) => \E j \in 1 .. i - 1 : s[j][1] = n

\* No frame is ahead of the worker, and while the connection stands every
\* request the worker took, and is to answer, has its frame.
KeepsUp(s) ==
  /\ \A i \in 1 .. Len(s) : s[i][1] <= served
  /\ socket = "up" => \A n \in 1 .. served :
       Answers(asked[n]) => \E i \in 1 .. Len(s) : s[i][1] = n

\* The requests on their way continue those served, each with the id of its
\* operation, and while the connection stands only the one being written is
\* missing.
UpInv ==
  /\ \A k \in 1 .. Len(up) : /\ up[k].no = served + k
                             /\ up[k].id = MsgId[asked[served + k]]
  /\ served + Len(up) <= Len(asked)
  /\ socket = "up" => served + Len(up) = IF main = "write" THEN Len(asked) - 1
                                                           ELSE Len(asked)
  /\ main = "write" => asked # <<>>
  /\ main = "connect" => asked = <<>>

ClientIInv ==
  /\ ClientTypeOK /\ UpInv /\ InOrder(Delivered) /\ KeepsUp(Delivered)
  /\ reader = "body" => down # <<>>

LEMMA CallbackOfOperation ==
  \A op \in Operations : /\ MsgId[op] \in 1001 .. 1009
                         /\ Callback[MsgId[op]] = op
BY DEF Operations, MsgId, Callback

\* A frame that is printed moves from one part to the other.
LEMMA HeadMoves ==
  ASSUME NEW S, NEW s \in Seq(S), NEW t \in Seq(S), t # <<>>
  PROVE  Append(s, Head(t)) \o Tail(t) = s \o t
OBVIOUS

LEMMA AppendMoves ==
  ASSUME NEW S, NEW s \in Seq(S), NEW t \in Seq(S), NEW f \in S
  PROVE  s \o Append(t, f) = Append(s \o t, f)
OBVIOUS

LEMMA ClientInitial == ClientInit => ClientIInv
<1> SUFFICES ASSUME ClientInit PROVE ClientIInv
  OBVIOUS
<1> USE DEF ClientInit
<1>1. ClientTypeOK
  <2>1. /\ asked \in Seq(Operations) /\ Len(asked) = 0
        /\ up \in Seq([no : 1 .. MaxRequests, id : 1001 .. 1009, parses : BOOLEAN])
        /\ down \in Seq(Frames) /\ printed \in Seq(Frames)
    OBVIOUS
  <2>2. online \in BOOLEAN
    OBVIOUS
  <2>3. served \in 0 .. Len(asked) /\ chats \in 0 .. MaxChats /\ 0 <= MaxRequests
    BY <2>1, ClientAssumption
  <2>4. main \in MainPlaces /\ reader \in {"none", "head", "body", "done"}
        /\ socket \in {"none", "up", "closed"}
    BY DEF MainPlaces
  <2> QED BY <2>1, <2>2, <2>3, <2>4, Zenon DEF ClientTypeOK
<1>2. Delivered = <<>>
  BY DEF Delivered
<1>3. UpInv
  BY DEF UpInv
<1> QED BY <1>1, <1>2, <1>3 DEF ClientIInv, InOrder, KeepsUp

\* What neither chooses, serves nor delivers keeps what was delivered right.
LEMMA DeliveredKeeps ==
  ASSUME ClientIInv, Delivered' = Delivered, UNCHANGED served,
         socket' = "up" => socket = "up" \/ served = 0,
         \/ UNCHANGED asked
         \/ \E op \in Operations : asked' = Append(asked, op)
  PROVE  InOrder(Delivered)' /\ KeepsUp(Delivered)'
<1> DEFINE s == Delivered
<1>1. /\ asked \in Seq(Operations) /\ served \in 0 .. Len(asked)
      /\ printed \in Seq(Frames) /\ down \in Seq(Frames)
  BY DEF ClientIInv, ClientTypeOK
<1>2. s \in Seq(Frames)
  BY <1>1 DEF Delivered
<1>3. InOrder(s) /\ KeepsUp(s)
  BY DEF ClientIInv
<1>4. \A n \in 1 .. Len(asked) : asked'[n] = asked[n] /\ n \in 1 .. Len(asked')
  BY <1>1
<1>5. \A i \in 1 .. Len(s) : s[i][1] \in Nat /\ s[i][1] <= served
  BY <1>2, <1>3 DEF KeepsUp, Frames
<1> HIDE DEF s
<1>6. InOrder(s)'
  <2> SUFFICES ASSUME NEW i \in 1 .. Len(s), s[i][1] # 0
               PROVE  /\ RightAnswer(s[i])'
                      /\ \A j \in 1 .. i - 1 : s[j][1] < s[i][1]
                      /\ \A n \in 1 .. s[i][1] - 1 : Answers(asked[n])' =>
                           \E j \in 1 .. i - 1 : s[j][1] = n
    BY DEF InOrder, s
  <2>1. s[i][1] \in 1 .. Len(asked)
    BY <1>1, <1>5
  <2>2. RightAnswer(s[i])'
    BY <1>1, <1>3, <1>4, <2>1 DEF InOrder, RightAnswer, Answers, s
  <2>3. \A n \in 1 .. s[i][1] - 1 : n \in 1 .. Len(asked)
    BY <1>1, <2>1
  <2> QED BY <1>3, <1>4, <2>2, <2>3 DEF InOrder, Answers
<1>7. KeepsUp(s)'
  <2>1. CASE socket = "up" \/ socket' # "up"
    <3>1. s' = s /\ served' = served
      BY DEF s
    <3>2. ASSUME socket = "up", NEW n \in 1 .. served, Answers(asked'[n])
          PROVE  \E i \in 1 .. Len(s) : s[i][1] = n
      <4>1. n \in 1 .. Len(asked)
        BY <1>1
      <4>2. Answers(asked[n])
        BY <1>4, <3>2, <4>1
      <4> QED BY <1>3, <3>2, <4>2 DEF KeepsUp
    <3> QED BY <1>5, <2>1, <3>1, <3>2 DEF KeepsUp, Answers
  <2>2. CASE served = 0
    BY <1>3, <2>2 DEF KeepsUp, s
  <2> QED BY <2>1, <2>2
<1> QED BY <1>6, <1>7 DEF s

\* The answer to the request at the front, when the worker takes it.
LEMMA AnswerDelivered ==
  ASSUME ClientIInv, socket = "up", served + 1 \in 1 .. Len(asked),
         UNCHANGED asked, served' = served + 1,
         \/ Answers(asked[served']) /\ Delivered' = Append(Delivered, <<served', asked[served']>>)
         \/ Delivered' = Delivered /\ (socket' # "up" \/ ~Answers(asked[served']))
  PROVE  InOrder(Delivered)' /\ KeepsUp(Delivered)'
<1>0. PICK s, t, f : s = Delivered /\ t = Delivered' /\ f = <<served', asked[served']>>
  OBVIOUS
<1>1. /\ asked \in Seq(Operations) /\ served \in 0 .. Len(asked)
      /\ printed \in Seq(Frames) /\ down \in Seq(Frames)
  BY DEF ClientIInv, ClientTypeOK
<1>2. s \in Seq(Frames)
  BY <1>0, <1>1 DEF Delivered
<1>3. InOrder(s) /\ KeepsUp(s)
  BY <1>0 DEF ClientIInv
<1>4. \A i \in 1 .. Len(s) : s[i][1] \in Nat /\ s[i][1] <= served
  BY <1>2, <1>3 DEF KeepsUp, Frames
<1>5. CASE Answers(asked[served']) /\ t = Append(s, f)
  <2>1. /\ Len(t) = Len(s) + 1 /\ t[Len(s) + 1] = f
        /\ \A i \in 1 .. Len(s) : t[i] = s[i]
    BY <1>2, <1>5
  <2>2. f[1] = served + 1 /\ f[2] = asked[served + 1]
    BY <1>0
  <2>3. \A n \in 1 .. served : Answers(asked[n]) => \E i \in 1 .. Len(s) : s[i][1] = n
    BY <1>3 DEF KeepsUp
  <2>4. Len(s) \in Nat
    BY <1>2
  <2>5. \A i \in 1 .. Len(s) + 1 : t[i][1] # 0 =>
          /\ RightAnswer(t[i])'
          /\ \A j \in 1 .. i - 1 : t[j][1] < t[i][1]
          /\ \A n \in 1 .. t[i][1] - 1 :
               Answers(asked[n]) => \E j \in 1 .. i - 1 : t[j][1] = n
    <3> TAKE i \in 1 .. Len(s) + 1
    <3> HAVE t[i][1] # 0
    <3>1. CASE i \in 1 .. Len(s)
      <4>1. t[i] = s[i] /\ \A j \in 1 .. i - 1 : t[j] = s[j]
        BY <2>1, <2>4, <3>1
      <4> QED BY <1>3, <3>1, <4>1 DEF InOrder, RightAnswer, Answers
    <3>2. CASE i = Len(s) + 1
      <4>1. t[i] = f /\ \A j \in 1 .. i - 1 : t[j] = s[j]
        BY <2>1, <2>4, <3>2
      <4>2. RightAnswer(f)'
        BY <1>1, <1>5, <2>2 DEF RightAnswer
      <4>3. \A j \in 1 .. i - 1 : t[j][1] < t[i][1]
        <5>1. i - 1 = Len(s) /\ t[i][1] = served + 1 /\ served \in Nat
          BY <1>1, <2>2, <2>4, <3>2, <4>1
        <5>2. \A j \in 1 .. Len(s) : t[j][1] \in Nat /\ t[j][1] <= served
          BY <1>4, <2>1
        <5> QED BY <5>1, <5>2
      <4>4. \A n \in 1 .. t[i][1] - 1 :
              Answers(asked[n]) => \E j \in 1 .. i - 1 : t[j][1] = n
        <5>1. i - 1 = Len(s) /\ t[i][1] - 1 = served
          BY <1>1, <2>2, <2>4, <3>2, <4>1
        <5>2. \A j \in 1 .. Len(s) : t[j] = s[j]
          BY <2>1
        <5> QED BY <2>3, <5>1, <5>2
      <4> QED BY <4>1, <4>2, <4>3, <4>4
    <3> QED BY <2>4, <3>1, <3>2
  <2>6. InOrder(t)'
    <3>1. /\ \A i \in 1 .. Len(t) : t[i][1] # 0 =>
              /\ RightAnswer(t[i])'
              /\ \A j \in 1 .. i - 1 : t[j][1] < t[i][1]
              /\ \A n \in 1 .. t[i][1] - 1 :
                   Answers(asked[n])' => \E j \in 1 .. i - 1 : t[j][1] = n
      BY <2>1, <2>5 DEF Answers
    <3> QED BY <3>1 DEF InOrder
  <2>7. \A i \in 1 .. Len(t) : t[i][1] <= served'
    <3> TAKE i \in 1 .. Len(t)
    <3>1. CASE i \in 1 .. Len(s)
      <4>1. t[i] = s[i] /\ s[i][1] <= served /\ s[i][1] \in Nat
        BY <1>4, <2>1, <3>1
      <4> QED BY <1>1, <4>1
    <3>2. CASE i = Len(s) + 1
      <4>1. t[i][1] = served'
        BY <2>1, <2>2, <3>2
      <4> QED BY <1>1, <4>1
    <3> QED BY <2>1, <2>4, <3>1, <3>2
  <2>8. \A n \in 1 .. served' :
          Answers(asked[n]) => \E i \in 1 .. Len(t) : t[i][1] = n
    <3> TAKE n \in 1 .. served'
    <3> HAVE Answers(asked[n])
    <3>1. CASE n \in 1 .. served
      <4>1. PICK i \in 1 .. Len(s) : s[i][1] = n
        BY <2>3, <3>1
      <4>2. t[i] = s[i] /\ i \in 1 .. Len(t)
        BY <2>1, <2>4
      <4> QED BY <4>1, <4>2
    <3>2. CASE n = served'
      <4>1. Len(t) \in 1 .. Len(t) /\ t[Len(t)][1] = n
        BY <2>1, <2>2, <2>4, <3>2
      <4> QED BY <4>1
    <3> QED BY <1>1, <3>1, <3>2
  <2>9. KeepsUp(t)'
    BY <2>7, <2>8 DEF KeepsUp, Answers
  <2> QED BY <1>0, <2>6, <2>9 DEF InOrder, KeepsUp
<1>6. CASE t = s /\ (socket' # "up" \/ ~Answers(asked[served']))
  <2>1. InOrder(s)'
    BY <1>3, <1>6 DEF InOrder, RightAnswer, Answers
  <2>2. \A i \in 1 .. Len(s) : s[i][1] <= served'
    BY <1>1, <1>4
  <2>3. socket' = "up" => \A n \in 1 .. served' :
          Answers(asked[n]) => \E i \in 1 .. Len(s) : s[i][1] = n
    <3> SUFFICES ASSUME socket' = "up", NEW n \in 1 .. served', Answers(asked[n])
                 PROVE  \E i \in 1 .. Len(s) : s[i][1] = n
      OBVIOUS
    <3>1. n \in 1 .. served
      BY <1>1, <1>6
    <3> QED BY <1>3, <3>1 DEF KeepsUp
  <2>4. KeepsUp(s)'
    BY <2>2, <2>3 DEF KeepsUp, Answers
  <2> QED BY <1>0, <1>6, <2>1, <2>4 DEF InOrder, KeepsUp
<1> QED BY <1>0, <1>5, <1>6

\* What a request is on its way; the prover needs the name.
RequestOf(n, parses) ==
  [no |-> n, id |-> MsgId[asked[n]], parses |-> parses]

Requests == [no : 1 .. MaxRequests, id : 1001 .. 1009, parses : BOOLEAN]

\* The steps that leave the requests, the frames and the server alone.
LEMMA ClientQuiet ==
  ASSUME ClientIInv, UNCHANGED <<asked, up, down, server, printed>>,
         main' \in MainPlaces, reader' \in {"none", "head", "body", "done"},
         socket' \in {"none", "up", "closed"},
         reader' = "body" => down # <<>>,
         main = "write" <=> main' = "write",
         main' = "connect" => main = "connect",
         socket' = "up" => socket = "up" \/ main = "connect"
  PROVE  ClientIInv'
<1> USE DEF ClientIInv
<1>1. ClientTypeOK'
  BY ZenonT(40) DEF ClientTypeOK, server
<1>2. Delivered' = Delivered
  BY DEF Delivered
<1>3. UNCHANGED served
  BY DEF server
<1>4. up \in Seq(Requests) /\ asked \in Seq(Operations) /\ served \in 0 .. Len(asked)
  BY DEF ClientTypeOK, Requests
<1>5. main = "connect" => served = 0 /\ asked = <<>> /\ Len(up) = 0
  BY <1>4 DEF UpInv
<1>6. UpInv'
  BY <1>3, <1>4, <1>5 DEF UpInv
<1>7. InOrder(Delivered)' /\ KeepsUp(Delivered)'
  BY <1>2, <1>3, <1>5, DeliveredKeeps
<1> QED BY <1>1, <1>6, <1>7

LEMMA ChooseKeeps ==
  ASSUME ClientIInv, NEW op \in Operations, Choose(op)
  PROVE  ClientIInv'
<1> USE DEF ClientIInv
<1>0. up \in Seq(Requests) /\ asked \in Seq(Operations) /\ served \in 0 .. Len(asked)
  BY DEF ClientTypeOK, Requests
<1>1. /\ main = "prompt" /\ main' = "write" /\ asked' = Append(asked, op)
      /\ Len(asked) < MaxRequests
      /\ UNCHANGED <<reader, socket, up, down, served, online, chats, printed>>
  BY DEF Choose, server
<1>2. /\ asked' \in Seq(Operations) /\ Len(asked') = Len(asked) + 1
      /\ \A n \in 1 .. Len(asked) : asked'[n] = asked[n]
  BY <1>0, <1>1
<1>3. ClientTypeOK'
  <2>1. /\ asked' \in Seq(Operations) /\ Len(asked') <= MaxRequests
        /\ served' \in 0 .. Len(asked') /\ main' \in MainPlaces
    BY <1>0, <1>1, <1>2, ClientAssumption DEF MainPlaces
  <2> QED BY <1>1, <2>1, ZenonT(40) DEF ClientTypeOK
<1>4. UpInv'
  <2>1. \A k \in 1 .. Len(up) : served + k \in 1 .. Len(asked)
    BY <1>0 DEF UpInv
  <2> QED BY <1>0, <1>1, <1>2, <2>1 DEF UpInv
<1>5. Delivered' = Delivered
  BY <1>1 DEF Delivered
<1> QED BY <1>1, <1>3, <1>4, <1>5, DeliveredKeeps

LEMMA WriteKeeps ==
  ASSUME ClientIInv, NEW parses \in BOOLEAN, Write(parses)
  PROVE  ClientIInv'
<1> USE DEF ClientIInv
<1> DEFINE r == RequestOf(Len(asked), parses)
<1>0. /\ up \in Seq(Requests) /\ asked \in Seq(Operations)
      /\ served \in 0 .. Len(asked) /\ Len(asked) <= MaxRequests
  BY DEF ClientTypeOK, Requests
<1>1. /\ main = "write" /\ main' \in {"join", "prompt"}
      /\ up' = IF socket = "up" THEN Append(up, r) ELSE up
      /\ UNCHANGED <<reader, socket, asked, down, served, online, chats, printed>>
  BY DEF Write, AfterWrite, server, RequestOf, Last
<1>2. asked # <<>> /\ Len(asked) \in 1 .. MaxRequests /\ asked[Len(asked)] \in Operations
  BY <1>0, <1>1, ClientAssumption DEF UpInv
<1>3. r \in Requests /\ r.no = Len(asked) /\ r.id = MsgId[asked[Len(asked)]]
  BY <1>2, CallbackOfOperation DEF RequestOf, Requests
<1> HIDE DEF r
<1>4. up' \in Seq(Requests)
  BY <1>0, <1>1, <1>3
<1>5. ClientTypeOK'
  <2>1. main' \in MainPlaces
    BY <1>1 DEF MainPlaces
  <2> QED BY <1>1, <1>4, <2>1, ZenonT(40) DEF ClientTypeOK, Requests
<1>6. UpInv'
  <2>1. CASE socket = "up"
    <3>1. /\ served + Len(up) = Len(asked) - 1
          /\ \A k \in 1 .. Len(up) : /\ up[k].no = served + k
                                     /\ up[k].id = MsgId[asked[served + k]]
      BY <1>1, <2>1 DEF UpInv
    <3>2. /\ up' = Append(up, r) /\ Len(up') = Len(up) + 1
          /\ \A k \in 1 .. Len(up) : up'[k] = up[k]
          /\ up'[Len(up) + 1] = r
      BY <1>0, <1>1, <1>3, <2>1
    <3>3. served + (Len(up) + 1) = Len(asked) /\ Len(up) \in Nat
      BY <1>0, <3>1
    <3>4. \A k \in 1 .. Len(up') : /\ up'[k].no = served + k
                                   /\ up'[k].id = MsgId[asked[served + k]]
      <4> TAKE k \in 1 .. Len(up')
      <4>1. CASE k \in 1 .. Len(up)
        BY <3>1, <3>2, <4>1
      <4>2. CASE k = Len(up) + 1
        BY <1>3, <3>2, <3>3, <4>2
      <4> QED BY <3>2, <3>3, <4>1, <4>2
    <3> QED BY <1>1, <1>2, <3>2, <3>3, <3>4 DEF UpInv
  <2>2. CASE socket # "up"
    BY <1>1, <2>2 DEF UpInv
  <2> QED BY <2>1, <2>2
<1>7. Delivered' = Delivered
  BY <1>1 DEF Delivered
<1> QED BY <1>1, <1>5, <1>6, <1>7, DeliveredKeeps

LEMMA ReadBodyKeeps ==
  ASSUME ClientIInv, ReadBody
  PROVE  ClientIInv'
<1> USE DEF ClientIInv
<1>1. /\ reader' = "head" /\ down # <<>> /\ printed' = Append(printed, Head(down))
      /\ down' = Tail(down)
      /\ UNCHANGED <<main, socket, asked, up, served, online, chats>>
  BY DEF ReadBody, ReadOn, server
<1>2. printed \in Seq(Frames) /\ down \in Seq(Frames)
  BY DEF ClientTypeOK
<1>3. printed' \in Seq(Frames) /\ down' \in Seq(Frames)
  BY <1>1, <1>2
<1>4. ClientTypeOK'
  BY <1>1, <1>3, ZenonT(40) DEF ClientTypeOK
<1>5. Delivered' = Delivered
  BY <1>1, <1>2, HeadMoves DEF Delivered
<1>6. UpInv'
  BY <1>1 DEF UpInv
<1> QED BY <1>1, <1>4, <1>5, <1>6, DeliveredKeeps

LEMMA ForwardKeeps ==
  ASSUME ClientIInv, Forward
  PROVE  ClientIInv'
<1> USE DEF ClientIInv
<1>1. /\ chats < MaxChats /\ chats' = chats + 1
      /\ down' = Append(down, <<0, "onechat">>)
      /\ UNCHANGED <<main, reader, asked, printed, socket, up, served, online>>
  BY DEF Forward, Frame, client
<1>2. /\ printed \in Seq(Frames) /\ down \in Seq(Frames)
      /\ chats \in 0 .. MaxChats /\ served \in Nat
  BY DEF ClientTypeOK
<1>3. PICK f \in Frames : f = <<0, "onechat">> /\ f[1] = 0
  <2>1. <<0, "onechat">> \in Frames
    BY ClientAssumption DEF Frames, Operations
  <2> QED BY <2>1
<1>4. down' \in Seq(Frames) /\ down' # <<>> /\ chats' \in 0 .. MaxChats
  BY <1>1, <1>2, <1>3, ClientAssumption
<1>5. ClientTypeOK'
  BY <1>1, <1>4, ZenonT(40) DEF ClientTypeOK
<1>6. PICK s : s = Delivered
  OBVIOUS
<1>7. /\ s \in Seq(Frames) /\ Delivered' = Append(s, f)
      /\ InOrder(s) /\ KeepsUp(s)
  <2>1. printed \o Append(down, f) = Append(printed \o down, f)
    BY <1>2, AppendMoves
  <2>2. Delivered' = printed \o Append(down, f)
    BY <1>1, <1>3 DEF Delivered
  <2>3. s = printed \o down /\ printed \o down \in Seq(Frames)
    BY <1>2, <1>6 DEF Delivered
  <2> QED BY <1>6, <2>1, <2>2, <2>3
<1>8. PICK t : t = Append(s, f)
  OBVIOUS
<1>9. /\ Len(t) = Len(s) + 1 /\ t[Len(s) + 1] = f /\ Len(s) \in Nat
      /\ \A i \in 1 .. Len(s) : t[i] = s[i]
  BY <1>7, <1>8
<1>10. InOrder(t)'
  <2> SUFFICES ASSUME NEW i \in 1 .. Len(t), t[i][1] # 0
               PROVE  /\ RightAnswer(t[i])
                      /\ \A j \in 1 .. i - 1 : t[j][1] < t[i][1]
                      /\ \A n \in 1 .. t[i][1] - 1 :
                           Answers(asked[n]) => \E j \in 1 .. i - 1 : t[j][1] = n
    BY <1>1 DEF InOrder, RightAnswer, Answers
  <2>1. i \in 1 .. Len(s)
    BY <1>3, <1>9
  <2>2. t[i] = s[i] /\ \A j \in 1 .. i - 1 : t[j] = s[j]
    BY <1>9, <2>1
  <2>3. /\ RightAnswer(s[i])
        /\ \A j \in 1 .. i - 1 : s[j][1] < s[i][1]
        /\ \A n \in 1 .. s[i][1] - 1 :
             Answers(asked[n]) => \E j \in 1 .. i - 1 : s[j][1] = n
    BY <1>7, <2>1, <2>2 DEF InOrder
  <2> QED BY <2>2, <2>3
<1>11. KeepsUp(t)'
  <2>1. \A i \in 1 .. Len(t) : t[i][1] <= served
    <3> TAKE i \in 1 .. Len(t)
    <3>1. CASE i \in 1 .. Len(s)
      BY <1>7, <1>9, <3>1 DEF KeepsUp
    <3>2. CASE i = Len(s) + 1
      BY <1>2, <1>3, <1>9, <3>2
    <3> QED BY <1>9, <3>1, <3>2
  <2>2. ASSUME socket = "up", NEW n \in 1 .. served, Answers(asked[n])
        PROVE  \E i \in 1 .. Len(t) : t[i][1] = n
    <3>1. PICK i \in 1 .. Len(s) : s[i][1] = n
      BY <1>7, <2>2 DEF KeepsUp
    <3>2. t[i] = s[i] /\ i \in 1 .. Len(t)
      BY <1>9
    <3> QED BY <3>1, <3>2
  <2> QED BY <1>1, <2>1, <2>2 DEF KeepsUp, Answers
<1>12. UpInv'
  BY <1>1 DEF UpInv
<1>13. Delivered' = t
  BY <1>7, <1>8
<1>14. InOrder(Delivered)' /\ KeepsUp(Delivered)'
  BY <1>10, <1>11, <1>13 DEF InOrder, KeepsUp
<1>15. reader' = "body" => down' # <<>>
  BY <1>4
<1> QED BY <1>5, <1>12, <1>14, <1>15

LEMMA ServeKeeps ==
  ASSUME ClientIInv, Serve
  PROVE  ClientIInv'
<1> USE DEF ClientIInv
<1> DEFINE q == Head(up)
           op == asked[served + 1]
<1>0. /\ up \in Seq(Requests) /\ asked \in Seq(Operations)
      /\ served \in 0 .. Len(asked) /\ Len(asked) <= MaxRequests
      /\ printed \in Seq(Frames) /\ down \in Seq(Frames)
      /\ online \in BOOLEAN
  BY DEF ClientTypeOK, Requests
<1>1. /\ socket = "up" /\ up # <<>> /\ up' = Tail(up) /\ served' = served + 1
      /\ \/ socket' = "closed" /\ UNCHANGED <<down, online>>
         \/ /\ down' = IF Answers(Callback[q.id])
                       THEN Append(down, <<q.no, Callback[q.id]>>) ELSE down
            /\ online' \in {TRUE, FALSE, online}
            /\ UNCHANGED socket
      /\ UNCHANGED <<main, reader, asked, printed, chats>>
  BY DEF Serve, TakeFront, client, Frame
<1>2. /\ q.no = served + 1 /\ q.id = MsgId[op] /\ served + 1 \in 1 .. Len(asked)
      /\ op \in Operations
  <2>1. Len(up) >= 1 /\ q = up[1] /\ 1 \in 1 .. Len(up)
    BY <1>0, <1>1
  <2>2. q.no = served + 1 /\ q.id = MsgId[asked[served + 1]]
    BY <2>1 DEF UpInv
  <2>3. served + 1 \in 1 .. Len(asked)
    BY <1>0, <2>1 DEF UpInv
  <2> QED BY <1>0, <2>2, <2>3
<1>3. Callback[q.id] = op
  BY <1>2, CallbackOfOperation
<1>4. /\ \A k \in 1 .. Len(up) - 1 : up'[k] = up[k + 1]
      /\ up' \in Seq(Requests) /\ Len(up') = Len(up) - 1 /\ Len(up) \in Nat
  BY <1>0, <1>1
<1>5. PICK f \in Frames : f = <<served + 1, op>>
  <2>1. <<served + 1, op>> \in Frames
    BY <1>0, <1>2, ClientAssumption DEF Frames
  <2> QED BY <2>1
<1>6. \/ socket' = "closed" /\ UNCHANGED down
      \/ down' = (IF Answers(op) THEN Append(down, f) ELSE down) /\ UNCHANGED socket
  <2>1. <<q.no, Callback[q.id]>> = f
    BY <1>2, <1>3, <1>5
  <2> HIDE DEF q, op
  <2> QED BY <1>1, <1>3, <2>1
<1>7. ClientTypeOK'
  <2>1. down' \in Seq(Frames)
    <3>1. Append(down, f) \in Seq(Frames)
      BY <1>0
    <3> QED BY <1>0, <1>6, <3>1
  <2>2. served' \in 0 .. Len(asked) /\ socket' \in {"none", "up", "closed"}
    <3>1. socket = "up" /\ served' = served + 1
      BY <1>1, Zenon
    <3> HIDE DEF q, op
    <3> QED BY <1>0, <1>2, <1>6, <3>1
  <2>3. online' \in BOOLEAN
    BY <1>0, <1>1
  <2> QED BY <1>1, <1>4, <2>1, <2>2, <2>3, ZenonT(40) DEF ClientTypeOK, Requests
<1>8. UpInv'
  <2>1. \A k \in 1 .. Len(up') : /\ up'[k].no = served' + k
                                 /\ up'[k].id = MsgId[asked[served' + k]]
    <3> TAKE k \in 1 .. Len(up')
    <3>1. up'[k] = up[k + 1] /\ k + 1 \in 1 .. Len(up)
      BY <1>4
    <3>2. up[k + 1].no = served + (k + 1) /\ up[k + 1].id = MsgId[asked[served + (k + 1)]]
      BY <3>1 DEF UpInv
    <3>3. served + (k + 1) = served' + k
      BY <1>0, <1>1
    <3> QED BY <3>1, <3>2, <3>3
  <2>2. served' + Len(up') = served + Len(up)
    BY <1>0, <1>1, <1>4
  <2> QED BY <1>1, <1>6, <2>1, <2>2 DEF UpInv
<1>9. InOrder(Delivered)' /\ KeepsUp(Delivered)'
  <2>1. asked[served'] = op
    BY <1>1
  <2>2. \/ Answers(op) /\ Delivered' = Append(Delivered, f)
        \/ Delivered' = Delivered /\ (socket' # "up" \/ ~Answers(op))
    <3>1. CASE down' = down
      BY <1>1, <1>6, <1>0, <3>1 DEF Delivered
    <3>2. CASE Answers(op) /\ down' = Append(down, f)
      <4> HIDE DEF op
      <4>1. printed \o Append(down, f) = Append(printed \o down, f)
        BY <1>0, AppendMoves
      <4>2. printed' = printed
        BY <1>1
      <4> QED BY <3>2, <4>1, <4>2, Zenon DEF Delivered
    <3> QED BY <1>6, <3>1, <3>2
  <2> HIDE DEF op
  <2> QED BY <1>1, <1>2, <1>5, <2>1, <2>2, AnswerDelivered
<1>10. reader' = "body" => down' # <<>>
  BY <1>0, <1>1, <1>6
<1> QED BY <1>7, <1>8, <1>9, <1>10

LEMMA ClientSteps == ClientIInv /\ [ClientNext]_clientVars => ClientIInv'
<1> SUFFICES ASSUME ClientIInv, [ClientNext]_clientVars PROVE ClientIInv'
  OBVIOUS
<1> USE DEF ClientIInv
<1>0. /\ main \in MainPlaces /\ reader \in {"none", "head", "body", "done"}
      /\ socket \in {"none", "up", "closed"}
  BY DEF ClientTypeOK
<1>1. CASE Connect
  BY <1>0, <1>1, ClientQuiet DEF Connect, MainPlaces
<1>2. CASE WriteFails
  <2>1. main = "write" /\ main' = "aborted" /\ socket = "closed" /\ reader' = "done"
        /\ UNCHANGED <<socket, asked, up, down, served, online, chats, printed>>
    BY <1>2 DEF WriteFails, Unwind, server
  <2>2. ClientTypeOK'
    <3>1. main' \in MainPlaces /\ reader' \in {"none", "head", "body", "done"}
      BY <2>1 DEF MainPlaces
    <3> QED BY <2>1, <3>1, ZenonT(40) DEF ClientTypeOK
  <2>3. UpInv'
    BY <2>1 DEF UpInv
  <2>4. Delivered' = Delivered
    BY <2>1 DEF Delivered
  <2> QED BY <2>1, <2>2, <2>3, <2>4, DeliveredKeeps
<1>3. CASE Join
  BY <1>0, <1>3, ClientQuiet DEF Join, MainPlaces
<1>4. CASE ReadHead \/ ReadThrows
  BY <1>0, <1>4, ClientQuiet DEF ReadHead, ReadThrows
<1>5. CASE ClientGone \/ ConnectionLost
  BY <1>0, <1>5, ClientQuiet DEF ClientGone, ConnectionLost, client
<1>6. CASE UNCHANGED clientVars
  BY <1>0, <1>6, ClientQuiet DEF clientVars, server
<1> QED BY <1>1, <1>2, <1>3, <1>4, <1>5, <1>6, ChooseKeeps, WriteKeeps,
           ReadBodyKeeps, ServeKeeps, ForwardKeeps DEF ClientNext

\* What is printed is the front of what was delivered.
LEMMA PrintedInOrder == ClientIInv => ClientInOrder
<1> SUFFICES ASSUME ClientIInv PROVE ClientInOrder
  OBVIOUS
<1>1. /\ printed \in Seq(Frames) /\ down \in Seq(Frames) /\ InOrder(Delivered)
      /\ ClientTypeOK
  BY DEF ClientIInv, ClientTypeOK
<1>2. /\ Len(Delivered) >= Len(printed) /\ Len(Delivered) \in Nat
      /\ \A i \in 1 .. Len(printed) : Delivered[i] = printed[i]
  BY <1>1 DEF Delivered
<1>3. DOMAIN printed = 1 .. Len(printed)
  BY <1>1
<1>4. ASSUME NEW i \in 1 .. Len(printed), printed[i][1] # 0
      PROVE  /\ RightAnswer(printed[i])
             /\ \A j \in 1 .. i - 1 : printed[j][1] < printed[i][1]
             /\ \A n \in 1 .. printed[i][1] - 1 :
                  Answers(asked[n]) => \E j \in 1 .. i - 1 : printed[j][1] = n
  <2>1. i \in 1 .. Len(Delivered) /\ Delivered[i] = printed[i]
    BY <1>1, <1>2
  <2>2. \A j \in 1 .. i - 1 : Delivered[j] = printed[j]
    BY <1>1, <1>2
  <2> QED BY <1>1, <1>4, <2>1, <2>2 DEF InOrder
<1> QED BY <1>1, <1>3, <1>4 DEF ClientInOrder, AnswersInOrder

\* For any number of requests and chats, whichever thread, callback or
\* connection ends first: what the terminal shows of answers are those of the
\* first operations chosen, in their order and with none left out, each from
\* the callback that was meant.
THEOREM ClientSeesOrder == Spec => []ClientInOrder
<1>1. Init => ClientIInv
  BY ClientInitial DEF Init
<1>2. ClientIInv /\ [Next]_vars => ClientIInv'
  BY ClientSteps DEF Next, vars
<1> QED BY <1>1, <1>2, PrintedInOrder, PTL DEF Spec

-----------------------------------------------------------------------------
(* Sequences of consecutive numbers *)

\* The elements of s are k + 1, k + 2, ...
Numbered(s, k) == \A i \in 1 .. Len(s) : s[i] = k + i

LEMMA NumberedAppend ==
  ASSUME NEW s \in Seq(Nat), NEW k \in Nat, Numbered(s, k)
  PROVE  Numbered(Append(s, k + Len(s) + 1), k)
BY DEF Numbered

LEMMA NumberedTail ==
  ASSUME NEW s \in Seq(Nat), NEW k \in Nat, Numbered(s, k), s # <<>>
  PROVE  Head(s) = k + 1 /\ Numbered(Tail(s), k + 1) /\ Len(Tail(s)) = Len(s) - 1
BY DEF Numbered

LEMMA NumberedSubSeq ==
  ASSUME NEW s \in Seq(Nat), NEW k \in Nat, Numbered(s, k), NEW n \in 0 .. Len(s)
  PROVE  /\ SubSeq(s, 1, n) \in Seq(Nat) /\ Len(SubSeq(s, 1, n)) = n
         /\ Numbered(SubSeq(s, 1, n), k)
BY DEF Numbered

LEMMA NumberedConcat ==
  ASSUME NEW s \in Seq(Nat), NEW t \in Seq(Nat), NEW k \in Nat,
         Numbered(s, k), Numbered(t, k + Len(s))
  PROVE  Numbered(s \o t, k)
BY DEF Numbered

LEMMA NumberedIsPrefix ==
  ASSUME NEW s \in Seq(Nat), NEW m \in Nat, Numbered(s, 0), Len(s) <= m
  PROVE  IsPrefix(s, [i \in 1 .. m |-> i])
<1> DEFINE t == [i \in 1 .. m |-> i]
<1>1. t \in Seq(Nat) /\ Len(t) = m
  OBVIOUS
<1>2. SubSeq(s, 1, Len(s)) = SubSeq(t, 1, Len(s))
  BY <1>1 DEF Numbered
<1> QED BY <1>1, <1>2 DEF IsPrefix

-----------------------------------------------------------------------------
(* The relay *)

PageSideTypes ==
  /\ ws \in [Pages -> {"none", "open", "closed"}]
  /\ tcp \in [Pages -> {"none", "connecting", "open", "ended", "closed"}]
  /\ sent \in [Pages -> Nat]
  /\ arriving \in [Pages -> Seq(Nat)]
  /\ buffered \in [Pages -> Seq(Nat)]
  /\ upstream \in [Pages -> Seq(Nat)]

\* While the connection may still carry messages, what has arrived at the
\* server, what the socket keeps and what is on its way continue each other.
Consecutive(p) ==
  /\ Numbered(buffered[p], Len(upstream[p]))
  /\ Numbered(arriving[p], Len(upstream[p]) + Len(buffered[p]))
  /\ LET all == Len(upstream[p]) + Len(buffered[p]) + Len(arriving[p])
     IN all <= sent[p] /\ (ws[p] # "closed" => all = sent[p])

PageInv(p) ==
  /\ Numbered(upstream[p], 0)
  /\ Len(upstream[p]) <= sent[p]
  /\ tcp[p] \in {"none", "connecting", "open"} => Consecutive(p)
  /\ tcp[p] = "open" => buffered[p] = <<>>
  /\ ws[p] = "none" <=> tcp[p] = "none"

RelayIInv == PageSideTypes /\ \A p \in Pages : PageInv(p)

LEMMA RelayInitial == RelayInit => RelayIInv
BY DEF RelayInit, RelayIInv, PageSideTypes, PageInv, Consecutive, Numbered

\* What a step leaves alone of a page keeps its invariant.
LEMMA PageUntouched ==
  ASSUME NEW p \in Pages, PageInv(p),
         UNCHANGED <<ws[p], tcp[p], sent[p], arriving[p], buffered[p], upstream[p]>>
  PROVE  PageInv(p)'
BY DEF PageInv, Consecutive, Numbered

LEMMA PageSendsKeeps ==
  ASSUME RelayIInv, NEW p \in Pages, PageSends(p)
  PROVE  RelayIInv'
<1> USE DEF RelayIInv, PageSideTypes
<1>1. PageSideTypes'
  BY DEF PageSends
<1>2. PageInv(p)'
  <2>1. /\ upstream'[p] = upstream[p] /\ buffered'[p] = buffered[p]
        /\ ws'[p] = ws[p] /\ tcp'[p] = tcp[p]
        /\ arriving'[p] = Append(arriving[p], sent[p] + 1)
        /\ sent'[p] = sent[p] + 1 /\ ws[p] = "open"
    BY DEF PageSends
  <2>2. ASSUME Consecutive(p) PROVE Consecutive(p)'
    BY <2>1, <2>2, NumberedAppend DEF Consecutive
  <2> QED BY <2>1, <2>2 DEF PageInv
<1>3. ASSUME NEW q \in Pages, q # p PROVE PageInv(q)'
  <2>1. UNCHANGED <<ws[q], tcp[q], sent[q], arriving[q], buffered[q], upstream[q]>>
    BY <1>3 DEF PageSends
  <2> QED BY <2>1, PageUntouched
<1> QED BY <1>1, <1>2, <1>3

LEMMA PageLeavesKeeps ==
  ASSUME RelayIInv, NEW p \in Pages, PageLeaves(p)
  PROVE  RelayIInv'
<1> USE DEF RelayIInv, PageSideTypes
<1>1. PICK n \in 0 .. Len(arriving[p]) :
        arriving' = [arriving EXCEPT ![p] = SubSeq(@, 1, n)]
  BY DEF PageLeaves
<1>2. PageSideTypes'
  BY <1>1 DEF PageLeaves
<1>3. PageInv(p)'
  <2>1. /\ upstream'[p] = upstream[p] /\ buffered'[p] = buffered[p]
        /\ ws[p] = "open" /\ ws'[p] = "closed" /\ tcp'[p] = tcp[p]
        /\ sent'[p] = sent[p] /\ arriving'[p] = SubSeq(arriving[p], 1, n)
    BY <1>1 DEF PageLeaves
  <2>2. ASSUME Consecutive(p) PROVE Consecutive(p)'
    BY <2>1, <2>2, NumberedSubSeq DEF Consecutive
  <2> QED BY <2>1, <2>2 DEF PageInv
<1>4. ASSUME NEW q \in Pages, q # p PROVE PageInv(q)'
  <2>1. UNCHANGED <<ws[q], tcp[q], sent[q], arriving[q], buffered[q], upstream[q]>>
    BY <1>1, <1>4 DEF PageLeaves
  <2> QED BY <2>1, PageUntouched
<1> QED BY <1>2, <1>3, <1>4

LEMMA ConnectionKeeps ==
  ASSUME RelayIInv, NEW p \in Pages,
         Connection(p) \/ ServerCloses(p) \/ TcpClose(p) \/ TcpError(p)
  PROVE  RelayIInv'
<1> USE DEF RelayIInv, PageSideTypes
<1>1. PageSideTypes'
  BY DEF Connection, ServerCloses, TcpClose, WsClose, TcpError, pageSide
<1>2. ASSUME NEW q \in Pages PROVE PageInv(q)'
  <2>1. UNCHANGED <<sent[q], arriving[q], buffered[q], upstream[q]>>
    BY DEF Connection, ServerCloses, TcpClose, TcpError, pageSide
  <2>2. \/ UNCHANGED <<ws[q], tcp[q]>>
        \/ ws[q] = "none" /\ ws'[q] = "open" /\ tcp'[q] = "connecting"
        \/ tcp[q] # "none" /\ tcp'[q] \in {"ended", "closed"} /\ ws'[q] = ws[q]
        \/ tcp[q] # "none" /\ tcp'[q] = "closed" /\ ws'[q] = "closed"
    BY DEF Connection, ServerCloses, TcpClose, WsClose, TcpError, PageInv
  <2> QED BY <2>1, <2>2 DEF PageInv, Consecutive, Numbered
<1> QED BY <1>1, <1>2

LEMMA ConnectedKeeps ==
  ASSUME RelayIInv, NEW p \in Pages, Connected(p)
  PROVE  RelayIInv'
<1> USE DEF RelayIInv, PageSideTypes
<1>1. PageSideTypes'
  BY DEF Connected, FlushBuffered
<1>2. PageInv(p)'
  <2>1. /\ upstream'[p] = upstream[p] \o buffered[p] /\ buffered'[p] = <<>>
        /\ tcp[p] = "connecting" /\ tcp'[p] = "open" /\ ws'[p] = ws[p]
        /\ sent'[p] = sent[p] /\ arriving'[p] = arriving[p]
    BY DEF Connected, FlushBuffered
  <2>2. Consecutive(p)
    BY <2>1 DEF PageInv
  <2>3. Len(upstream'[p]) = Len(upstream[p]) + Len(buffered[p])
    BY <2>1
  <2>4. Numbered(upstream[p], 0) /\ Numbered(buffered[p], 0 + Len(upstream[p]))
    BY <2>2 DEF Consecutive, PageInv
  <2>5. Numbered(upstream'[p], 0)
    BY <2>1, <2>4, NumberedConcat
  <2>6. Numbered(buffered'[p], Len(upstream'[p]))
    BY <2>1 DEF Numbered
  <2>7. Consecutive(p)'
    BY <2>1, <2>2, <2>3, <2>6 DEF Consecutive
  <2>8. Len(upstream[p]) + Len(buffered[p]) <= sent[p]
    BY <2>2 DEF Consecutive
  <2> QED BY <2>1, <2>3, <2>5, <2>7, <2>8 DEF PageInv
<1>3. ASSUME NEW q \in Pages, q # p PROVE PageInv(q)'
  <2>1. UNCHANGED <<ws[q], tcp[q], sent[q], arriving[q], buffered[q], upstream[q]>>
    BY <1>3 DEF Connected, FlushBuffered
  <2> QED BY <2>1, PageUntouched
<1> QED BY <1>1, <1>2, <1>3

LEMMA IncomingKeeps ==
  ASSUME RelayIInv, NEW p \in Pages, Incoming(p)
  PROVE  RelayIInv'
<1> USE DEF RelayIInv, PageSideTypes
<1> DEFINE m == Head(arriving[p])
<1>1. /\ arriving[p] # <<>>
      /\ arriving' = [arriving EXCEPT ![p] = Tail(@)]
      /\ UNCHANGED <<ws, tcp, sent>>
      /\ \/ /\ tcp[p] = "connecting"
            /\ buffered' = [buffered EXCEPT ![p] = Append(@, m)]
            /\ UNCHANGED upstream
         \/ /\ tcp[p] = "open"
            /\ upstream' = [upstream EXCEPT ![p] = Append(@, m)]
            /\ UNCHANGED buffered
         \/ tcp[p] \in {"ended", "closed"} /\ UNCHANGED <<buffered, upstream>>
  BY DEF Incoming
<1>2. m \in Nat /\ Tail(arriving[p]) \in Seq(Nat)
  BY <1>1
<1>3. PageSideTypes'
  <2>1. arriving' \in [Pages -> Seq(Nat)]
    BY <1>1, <1>2
  <2>2. /\ Append(buffered[p], m) \in Seq(Nat)
        /\ Append(upstream[p], m) \in Seq(Nat)
    BY <1>2
  <2>3. buffered' \in [Pages -> Seq(Nat)] /\ upstream' \in [Pages -> Seq(Nat)]
    BY <1>1, <2>2
  <2> QED BY <1>1, <2>1, <2>3
<1>4. PageInv(p)'
  <2> DEFINE lu == Len(upstream[p])
             lb == Len(buffered[p])
             la == Len(arriving[p])
  <2>0. lu \in Nat /\ lb \in Nat /\ la \in Nat
    OBVIOUS
  <2>1. CASE tcp[p] = "connecting"
    <3>1. Consecutive(p)
      BY <2>1 DEF PageInv
    <3>2. /\ m = Len(upstream[p]) + Len(buffered[p]) + 1
          /\ Numbered(Tail(arriving[p]), Len(upstream[p]) + Len(buffered[p]) + 1)
          /\ Len(Tail(arriving[p])) = Len(arriving[p]) - 1
      BY <1>1, <3>1, NumberedTail DEF Consecutive
    <3>3. /\ buffered'[p] = Append(buffered[p], m) /\ upstream'[p] = upstream[p]
          /\ Len(buffered'[p]) = Len(buffered[p]) + 1
      BY <1>1, <1>2, <2>1
    <3>4. Numbered(buffered'[p], Len(upstream'[p]))
      BY <3>1, <3>2, <3>3, NumberedAppend DEF Consecutive
    <3>5. arriving'[p] = Tail(arriving[p]) /\ UNCHANGED <<ws[p], tcp[p], sent[p]>>
      BY <1>1
    <3>6. Consecutive(p)'
      <4>1. Numbered(arriving'[p], Len(upstream'[p]) + Len(buffered'[p]))
        BY <3>2, <3>3, <3>5
      <4>2. Len(upstream'[p]) + Len(buffered'[p]) + Len(arriving'[p])
              = Len(upstream[p]) + Len(buffered[p]) + Len(arriving[p])
        <5>1. /\ Len(upstream'[p]) = lu /\ Len(buffered'[p]) = lb + 1
              /\ Len(arriving'[p]) = la - 1
          BY <3>2, <3>3, <3>5
        <5> HIDE DEF lu, lb, la
        <5>2. lu + (lb + 1) + (la - 1) = lu + lb + la
          BY <2>0
        <5> QED BY <5>1, <5>2 DEF lu, lb, la
      <4> QED BY <3>1, <3>4, <3>5, <4>1, <4>2 DEF Consecutive
    <3> QED BY <2>1, <3>3, <3>5, <3>6 DEF PageInv
  <2>2. CASE tcp[p] = "open"
    <3>1. Consecutive(p) /\ buffered[p] = <<>> /\ Numbered(upstream[p], 0)
      BY <2>2 DEF PageInv
    <3>2. /\ m = Len(upstream[p]) + 1
          /\ Numbered(Tail(arriving[p]), Len(upstream[p]) + 1)
          /\ Len(Tail(arriving[p])) = Len(arriving[p]) - 1
      <4>1. Len(upstream[p]) + Len(buffered[p]) = Len(upstream[p])
        BY <3>1
      <4> QED BY <1>1, <3>1, <4>1, NumberedTail DEF Consecutive
    <3>3. /\ upstream'[p] = Append(upstream[p], m) /\ buffered'[p] = <<>>
          /\ Len(upstream'[p]) = Len(upstream[p]) + 1
      BY <1>1, <1>2, <2>2, <3>1
    <3>4. Numbered(upstream'[p], 0)
      <4>1. Numbered(Append(upstream[p], 0 + Len(upstream[p]) + 1), 0)
        BY <3>1, NumberedAppend
      <4>2. m = 0 + Len(upstream[p]) + 1
        BY <3>2, <2>0
      <4> QED BY <3>3, <4>1, <4>2
    <3>5. arriving'[p] = Tail(arriving[p]) /\ UNCHANGED <<ws[p], tcp[p], sent[p]>>
      BY <1>1
    <3>6. Numbered(buffered'[p], Len(upstream'[p]))
      BY <3>3 DEF Numbered
    <3>7. Consecutive(p)' /\ Len(upstream'[p]) <= sent'[p]
      <4>1. Len(buffered[p]) = 0 /\ Len(buffered'[p]) = 0
        BY <3>1, <3>3
      <4>2. Numbered(arriving'[p], Len(upstream'[p]) + Len(buffered'[p]))
        BY <3>2, <3>3, <3>5, <4>1
      <4>3. Len(upstream'[p]) + Len(buffered'[p]) + Len(arriving'[p])
              = Len(upstream[p]) + Len(buffered[p]) + Len(arriving[p])
        <5>1. /\ Len(upstream'[p]) = lu + 1 /\ Len(buffered'[p]) = 0 /\ lb = 0
              /\ Len(arriving'[p]) = la - 1
          BY <3>2, <3>3, <3>5, <4>1
        <5> HIDE DEF lu, lb, la
        <5>2. (lu + 1) + 0 + (la - 1) = lu + 0 + la
          BY <2>0
        <5> QED BY <5>1, <5>2 DEF lu, lb, la
      <4>4. Consecutive(p)'
        BY <3>1, <3>5, <3>6, <4>2, <4>3 DEF Consecutive
      <4>5. Len(arriving'[p]) >= 0 /\ Len(upstream'[p]) >= 0
        BY <1>2, <1>3
      <4> QED BY <4>1, <4>4, <4>5, <1>3 DEF Consecutive
    <3> QED BY <3>3, <3>4, <3>5, <3>7, <2>2 DEF PageInv
  <2>3. CASE tcp[p] \in {"ended", "closed"}
    BY <1>1, <2>3 DEF PageInv, Numbered
  <2> QED BY <1>1, <2>1, <2>2, <2>3
<1>5. ASSUME NEW q \in Pages, q # p PROVE PageInv(q)'
  <2>1. UNCHANGED <<ws[q], tcp[q], sent[q], arriving[q], buffered[q], upstream[q]>>
    BY <1>1, <1>5
  <2> QED BY <2>1, PageUntouched
<1> QED BY <1>3, <1>4, <1>5

LEMMA RelaySteps == RelayIInv /\ [RelayNext]_relayVars => RelayIInv'
<1> SUFFICES ASSUME RelayIInv, [RelayNext]_relayVars PROVE RelayIInv'
  OBVIOUS
<1>1. ASSUME UNCHANGED <<ws, tcp, pageSide>> PROVE RelayIInv'
  BY <1>1 DEF RelayIInv, PageSideTypes, PageInv, Consecutive, Numbered, pageSide
<1>2. ASSUME NEW p \in Pages, ServerSends(p) \/ Data(p) PROVE RelayIInv'
  BY <1>1, <1>2 DEF ServerSends, Data
<1>3. CASE UNCHANGED relayVars
  BY <1>1, <1>3 DEF relayVars, pageSide
<1>4. CASE RelayNext
  BY <1>2, <1>4, PageSendsKeeps, PageLeavesKeeps, ConnectionKeeps, ConnectedKeeps,
     IncomingKeeps DEF RelayNext
<1> QED BY <1>3, <1>4

\* Each part of what the page sent begins where the one before it ends, so
\* the three together are 1, 2, ... up to sent.
LEMMA UpstreamFollows == RelayIInv => UpstreamInOrder
<1> SUFFICES ASSUME RelayIInv, NEW p \in Pages
             PROVE  /\ IsPrefix(upstream[p], [i \in 1 .. sent[p] |-> i])
                    /\ ws[p] = "open" /\ tcp[p] \in {"connecting", "open"} =>
                         upstream[p] \o buffered[p] \o arriving[p]
                           = [i \in 1 .. sent[p] |-> i]
  BY DEF UpstreamInOrder
<1> USE DEF RelayIInv, PageSideTypes
<1>1. IsPrefix(upstream[p], [i \in 1 .. sent[p] |-> i])
  BY NumberedIsPrefix DEF PageInv
<1>2. ASSUME ws[p] = "open", tcp[p] \in {"connecting", "open"}
      PROVE  upstream[p] \o buffered[p] \o arriving[p] = [i \in 1 .. sent[p] |-> i]
  <2>1. Consecutive(p) /\ Numbered(upstream[p], 0)
    BY <1>2 DEF PageInv
  <2> DEFINE kept == upstream[p] \o buffered[p]
             all  == kept \o arriving[p]
  <2>2. kept \in Seq(Nat) /\ Len(kept) = Len(upstream[p]) + Len(buffered[p])
    OBVIOUS
  <2>3. Numbered(buffered[p], 0 + Len(upstream[p]))
    BY <2>1 DEF Consecutive
  <2>4. Numbered(kept, 0)
    BY <2>1, <2>3, NumberedConcat
  <2>5. Numbered(arriving[p], 0 + Len(kept))
    BY <2>1, <2>2 DEF Consecutive
  <2>6. Numbered(all, 0)
    BY <2>2, <2>4, <2>5, NumberedConcat
  <2>7. all \in Seq(Nat) /\ Len(all) = sent[p]
    BY <1>2, <2>1, <2>2 DEF Consecutive
  <2>8. \A i \in 1 .. sent[p] : all[i] = i
    BY <2>6, <2>7 DEF Numbered
  <2>9. all = [i \in 1 .. sent[p] |-> i]
    <3> HIDE DEF all
    <3> QED BY <2>7, <2>8
  <2> QED BY <2>9
<1> QED BY <1>1, <1>2

\* A page's messages reach the server in order and from the first on, for
\* any pages, any number of messages, and whichever of the three leaves
\* when; while nothing has been closed, none is missing.
THEOREM RelayKeepsOrder == Spec => []UpstreamInOrder
<1>1. Init => RelayIInv
  BY RelayInitial DEF Init
<1>2. RelayIInv /\ [Next]_vars => RelayIInv'
  BY RelaySteps DEF Next, vars
<1> QED BY <1>1, <1>2, UpstreamFollows, PTL DEF Spec
-----------------------------------------------------------------------------
(* What a page is shown *)

\* The elements of s are the pieces that follow the first k of the stream.
Halves(s, k) == \A i \in 1 .. Len(s) : s[i] = (k + i + 1) \div 2

Within(s, n) == \A i \in 1 .. Len(s) : s[i] \in 1 .. n

ServerSideTypes ==
  /\ relay \in {"up", "down"}
  /\ frames \in [Pages -> Nat]
  /\ stream \in [Pages -> Seq(Nat)]
  /\ shown \in [Pages -> Seq(Nat)]

\* While the page stays, what it was shown and what is on its way are all
\* that the server has sent.
ServerInv(p) ==
  /\ frames[p] <= MaxFrames[p]
  /\ Within(stream[p], frames[p])
  /\ Halves(shown[p], 0)
  /\ Len(shown[p]) <= 2 * frames[p]
  /\ ws[p] # "closed" => /\ Halves(stream[p], Len(shown[p]))
                         /\ Len(shown[p]) + Len(stream[p]) = 2 * frames[p]

MessageBounds(p) ==
  /\ sent[p] <= MaxMessages[p]
  /\ Within(arriving[p], sent[p])
  /\ Within(buffered[p], sent[p])

ShownIInv ==
  ServerSideTypes /\ \A p \in Pages : ServerInv(p) /\ MessageBounds(p)

LEMMA WithinType ==
  ASSUME NEW s \in Seq(Nat), NEW n \in Nat, Within(s, n)
  PROVE  s \in Seq(1 .. n)
BY DEF Within

LEMMA ConcatParts ==
  ASSUME NEW s \in Seq(Nat), NEW t \in Seq(Nat)
  PROVE  /\ s \o t \in Seq(Nat) /\ Len(s \o t) = Len(s) + Len(t)
         /\ \A i \in 1 .. Len(s) : (s \o t)[i] = s[i]
         /\ \A i \in 1 .. Len(t) : (s \o t)[Len(s) + i] = t[i]
OBVIOUS

LEMMA WithinAppend ==
  ASSUME NEW s \in Seq(Nat), NEW n \in Nat, Within(s, n), NEW m \in 1 .. n
  PROVE  Within(Append(s, m), n)
BY DEF Within

LEMMA HalvesConcat ==
  ASSUME NEW s \in Seq(Nat), NEW t \in Seq(Nat), NEW k \in Nat,
         Halves(s, k), Halves(t, k + Len(s))
  PROVE  Halves(s \o t, k) /\ Len(s \o t) = Len(s) + Len(t)
<1> DEFINE u == s \o t
<1>1. /\ u \in Seq(Nat) /\ Len(u) = Len(s) + Len(t) /\ Len(s) \in Nat /\ Len(t) \in Nat
      /\ \A i \in 1 .. Len(s) : u[i] = s[i]
      /\ \A i \in 1 .. Len(t) : u[Len(s) + i] = t[i]
  OBVIOUS
<1> HIDE DEF u
<1>2. \A i \in 1 .. Len(u) : u[i] = (k + i + 1) \div 2
  <2> TAKE i \in 1 .. Len(u)
  <2>1. CASE i <= Len(s)
    BY <1>1, <2>1 DEF Halves
  <2>2. CASE i > Len(s)
    <3>1. PICK j \in 1 .. Len(t) : i = Len(s) + j
      <4>1. i - Len(s) \in 1 .. Len(t) /\ i = Len(s) + (i - Len(s))
        BY <1>1, <2>2
      <4> QED BY <4>1
    <3>2. u[i] = t[j] /\ t[j] = (k + Len(s) + j + 1) \div 2
      BY <1>1, <3>1 DEF Halves
    <3>3. k + Len(s) + j + 1 = k + i + 1
      BY <1>1, <3>1
    <3> QED BY <3>2, <3>3
  <2> QED BY <1>1, <2>1, <2>2
<1> QED BY <1>1, <1>2 DEF Halves, u

\* A chunk is the first n pieces of those on their way.
LEMMA HalvesCut ==
  ASSUME NEW s \in Seq(Nat), NEW k \in Nat, NEW n \in 1 .. Len(s)
  PROVE  /\ SubSeq(s, 1, n) \in Seq(Nat) /\ Len(SubSeq(s, 1, n)) = n
         /\ SubSeq(s, n + 1, Len(s)) \in Seq(Nat)
         /\ Len(SubSeq(s, n + 1, Len(s))) = Len(s) - n
         /\ Halves(s, k) => /\ Halves(SubSeq(s, 1, n), k)
                            /\ Halves(SubSeq(s, n + 1, Len(s)), k + n)
         /\ \A m \in Nat : Within(s, m) => Within(SubSeq(s, n + 1, Len(s)), m)
<1> DEFINE f == SubSeq(s, 1, n)
           r == SubSeq(s, n + 1, Len(s))
<1>1. /\ f \in Seq(Nat) /\ Len(f) = n /\ \A i \in 1 .. n : f[i] = s[i]
      /\ r \in Seq(Nat) /\ Len(r) = Len(s) - n
      /\ \A i \in 1 .. Len(s) - n : r[i] = s[n + i]
      /\ Len(s) \in Nat
  OBVIOUS
<1> HIDE DEF f, r
<1>2. Halves(s, k) => Halves(f, k)
  BY <1>1 DEF Halves
<1> DEFINE rest == Len(s) - n
<1>a. rest \in Nat /\ n + rest = Len(s) /\ n \in Nat
  BY <1>1
<1> HIDE DEF rest
<1>b. \A i \in 1 .. rest : n + i \in 1 .. n + rest
  BY <1>a
<1>c. \A i \in 1 .. Len(r) : n + i \in 1 .. Len(s) /\ r[i] = s[n + i]
  <2>1. Len(r) = rest /\ \A i \in 1 .. rest : r[i] = s[n + i]
    BY <1>1 DEF rest
  <2> QED BY <1>a, <1>b, <2>1
<1>3. ASSUME Halves(s, k) PROVE Halves(r, k + n)
  <2>1. ASSUME NEW i \in 1 .. Len(r) PROVE r[i] = (k + n + i + 1) \div 2
    <3>1. n + i \in 1 .. Len(s) /\ r[i] = s[n + i]
      BY <1>c
    <3>2. s[n + i] = (k + (n + i) + 1) \div 2
      BY <1>3, <3>1 DEF Halves
    <3>3. k + (n + i) + 1 = k + n + i + 1
      BY <1>1
    <3> QED BY <3>1, <3>2, <3>3
  <2> QED BY <2>1 DEF Halves
<1>4. \A m \in Nat : Within(s, m) => Within(r, m)
  <2> SUFFICES ASSUME NEW m \in Nat, Within(s, m), NEW i \in 1 .. Len(r)
               PROVE  r[i] \in 1 .. m
    BY DEF Within
  <2>1. n + i \in 1 .. Len(s) /\ r[i] = s[n + i]
    BY <1>c
  <2> QED BY <2>1 DEF Within
<1> QED BY <1>1, <1>2, <1>3, <1>4 DEF f, r

\* One more frame is the two pieces that come next.
LEMMA FrameFollows ==
  ASSUME NEW s \in Seq(Nat), NEW n \in Nat
  PROVE  /\ Within(s, n) => Within(s \o <<n + 1, n + 1>>, n + 1)
         /\ \A k \in Nat : Halves(s, k) /\ k + Len(s) = 2 * n
                             => Halves(s \o <<n + 1, n + 1>>, k)
<1> DEFINE u == <<n + 1, n + 1>>
<1>1. /\ u \in Seq(Nat) /\ Len(u) = 2 /\ u[1] = n + 1 /\ u[2] = n + 1
      /\ Len(s) \in Nat
  OBVIOUS
<1> HIDE DEF u
<1>2. /\ Len(s \o u) = Len(s) + 2
      /\ \A i \in 1 .. Len(s) : (s \o u)[i] = s[i]
      /\ (s \o u)[Len(s) + 1] = n + 1 /\ (s \o u)[Len(s) + 2] = n + 1
  <2>1. /\ Len(s \o u) = Len(s) + Len(u) /\ \A i \in 1 .. Len(s) : (s \o u)[i] = s[i]
        /\ \A i \in 1 .. Len(u) : (s \o u)[Len(s) + i] = u[i]
    BY <1>1, ConcatParts
  <2> QED BY <1>1, <2>1
<1>3. \A i \in 1 .. Len(s) + 2 : i \in 1 .. Len(s) \/ i = Len(s) + 1 \/ i = Len(s) + 2
  BY <1>1
<1>4. ASSUME Within(s, n) PROVE Within(s \o u, n + 1)
  <2> SUFFICES ASSUME NEW i \in 1 .. Len(s) + 2 PROVE (s \o u)[i] \in 1 .. n + 1
    BY <1>2 DEF Within
  <2>1. CASE i \in 1 .. Len(s)
    <3>1. s[i] \in 1 .. n
      BY <1>4, <2>1 DEF Within
    <3> QED BY <1>2, <2>1, <3>1
  <2> QED BY <1>2, <1>3, <2>1
<1>5. ASSUME NEW k \in Nat, Halves(s, k), k + Len(s) = 2 * n
      PROVE  Halves(s \o u, k)
  <2>1. \A i \in 1 .. 2 : u[i] = (2 * n + i + 1) \div 2
    BY <1>1
  <2>2. Halves(u, k + Len(s))
    BY <1>1, <1>5, <2>1 DEF Halves
  <2> QED BY <1>1, <1>5, <2>2, HalvesConcat
<1> QED BY <1>4, <1>5 DEF u

LEMMA ShownInitial == RelayInit => ShownIInv
<1> SUFFICES ASSUME RelayInit PROVE ShownIInv
  OBVIOUS
<1>1. ServerSideTypes
  BY DEF RelayInit, ServerSideTypes
<1>2. ASSUME NEW p \in Pages PROVE ServerInv(p) /\ MessageBounds(p)
  BY RelayAssumption DEF RelayInit, ServerInv, MessageBounds, Within, Halves
<1> QED BY <1>1, <1>2 DEF ShownIInv

LEMMA ServerSendsShown ==
  ASSUME RelayIInv, ShownIInv, NEW p \in Pages, ServerSends(p)
  PROVE  ShownIInv'
<1> USE DEF ShownIInv, ServerSideTypes
<1> DEFINE f == frames[p] + 1
           s == stream[p]
           t == s \o <<f, f>>
<1>1. /\ frames[p] < MaxFrames[p] /\ frames' = [frames EXCEPT ![p] = @ + 1]
      /\ stream' = [stream EXCEPT ![p] = t]
      /\ UNCHANGED <<relay, ws, tcp, sent, arriving, buffered, upstream, shown>>
  BY DEF ServerSends, pageSide
<1>2. /\ t \in Seq(Nat) /\ Len(t) = Len(s) + 2 /\ Len(s) \in Nat /\ f \in Nat
      /\ \A i \in 1 .. Len(s) : t[i] = s[i]
      /\ t[Len(s) + 1] = f /\ t[Len(s) + 2] = f
  OBVIOUS
<1>3. frames'[p] = f /\ stream'[p] = t
  BY <1>1
<1>4. ServerSideTypes'
  BY <1>1, <1>2
<1>5. ServerInv(p)'
  <2> HIDE DEF t, s
  <2>0. PICK n, k, l \in Nat : n = frames[p] /\ k = Len(shown[p]) /\ l = Len(s)
    BY <1>2
  <2>1. Within(t, f)
    <3>1. frames[p] \in Nat /\ stream[p] \in Seq(Nat) /\ Within(stream[p], frames[p])
      BY DEF ServerInv
    <3>2. Within(stream[p] \o <<frames[p] + 1, frames[p] + 1>>, frames[p] + 1)
      BY <3>1, FrameFollows
    <3> QED BY <3>2 DEF t, s
  <2>2. Halves(shown[p], 0) /\ k <= 2 * n /\ n + 1 <= MaxFrames[p]
    <3>1. MaxFrames[p] \in Nat /\ frames[p] \in Nat
      BY RelayAssumption
    <3>2. Halves(shown[p], 0) /\ k <= 2 * n
      BY <2>0 DEF ServerInv
    <3> QED BY <1>1, <2>0, <3>1, <3>2
  <2>3. ASSUME ws[p] # "closed"
        PROVE  Halves(t, k) /\ k + (l + 2) = 2 * (n + 1)
    <3>1. Halves(s, k) /\ k + l = 2 * n
      BY <2>0, <2>3 DEF ServerInv, s
    <3>2. Halves(t, k)
      <4>1. frames[p] \in Nat /\ stream[p] \in Seq(Nat) /\ k + Len(stream[p]) = 2 * frames[p]
        BY <2>0, <3>1 DEF s
      <4>2. Halves(stream[p], k)
        BY <3>1 DEF s
      <4>3. Halves(stream[p] \o <<frames[p] + 1, frames[p] + 1>>, k)
        BY <2>0, <4>1, <4>2, FrameFollows
      <4> QED BY <4>3 DEF t, s
    <3>3. k + (l + 2) = 2 * (n + 1)
      BY <3>1
    <3> QED BY <3>2, <3>3
  <2>4. f = n + 1 /\ Len(t) = l + 2 /\ Len(shown'[p]) = k /\ frames'[p] = n + 1
    BY <1>1, <1>2, <1>3, <2>0
  <2>5. k <= 2 * (n + 1)
    BY <2>0, <2>2
  <2> HIDE DEF f
  <2> QED BY <1>1, <1>3, <2>1, <2>2, <2>3, <2>4, <2>5 DEF ServerInv
<1>6. ASSUME NEW q \in Pages PROVE (q # p => ServerInv(q)') /\ MessageBounds(q)'
  BY <1>1 DEF ServerInv, MessageBounds
<1> QED BY <1>4, <1>5, <1>6

LEMMA DataShown ==
  ASSUME RelayIInv, ShownIInv, NEW p \in Pages, Data(p)
  PROVE  ShownIInv'
<1> USE DEF ShownIInv, ServerSideTypes
<1>1. PICK n \in 1 .. Len(stream[p]) :
        /\ WsSend(p, SubSeq(stream[p], 1, n))
        /\ stream' = [stream EXCEPT ![p] = SubSeq(@, n + 1, Len(@))]
  BY DEF Data
<1> DEFINE s == stream[p]
           c == SubSeq(s, 1, n)
           r == SubSeq(s, n + 1, Len(s))
<1>2. /\ shown' = IF ws[p] = "open" THEN [shown EXCEPT ![p] = @ \o c] ELSE shown
      /\ stream' = [stream EXCEPT ![p] = r]
      /\ UNCHANGED <<relay, ws, tcp, sent, arriving, buffered, upstream, frames>>
      /\ tcp[p] # "none"
  BY <1>1 DEF Data, WsSend, pageSide
<1>3. /\ c \in Seq(Nat) /\ Len(c) = n /\ r \in Seq(Nat) /\ Len(r) = Len(s) - n
      /\ \A k \in Nat : Halves(s, k) => Halves(c, k) /\ Halves(r, k + n)
      /\ Within(s, frames[p]) => Within(r, frames[p])
  BY HalvesCut
<1> HIDE DEF c, r
<1>4. ServerSideTypes'
  <2>1. shown[p] \o c \in Seq(Nat)
    BY <1>3
  <2> QED BY <1>2, <1>3, <2>1
<1>5. ws[p] # "none"
  BY <1>2 DEF RelayIInv, PageInv
<1>6. ServerInv(p)'
  <2>1. stream'[p] = r /\ Within(r, frames[p])
    BY <1>2, <1>3 DEF ServerInv
  <2>2. CASE ws[p] = "open"
    <3>1. shown'[p] = shown[p] \o c
      BY <1>2, <2>2
    <3>2. /\ Halves(shown[p], 0) /\ Halves(s, Len(shown[p]))
          /\ Len(shown[p]) + Len(s) = 2 * frames[p]
      BY <2>2 DEF ServerInv
    <3>3. Len(shown[p]) \in Nat /\ Len(shown[p]) = 0 + Len(shown[p]) /\ Len(s) \in Nat
      OBVIOUS
    <3>4. Halves(c, 0 + Len(shown[p])) /\ Halves(r, Len(shown[p]) + n)
      BY <1>3, <3>2, <3>3
    <3>5. Halves(shown'[p], 0) /\ Len(shown'[p]) = Len(shown[p]) + n
      BY <1>3, <3>1, <3>2, <3>4, HalvesConcat
    <3>6. Halves(r, Len(shown'[p]))
      BY <3>4, <3>5
    <3>7. Len(shown'[p]) + Len(r) = 2 * frames[p] /\ Len(shown'[p]) <= 2 * frames[p]
      BY <1>3, <3>2, <3>3, <3>5
    <3> QED BY <1>2, <2>1, <3>5, <3>6, <3>7 DEF ServerInv
  <2>3. CASE ws[p] = "closed"
    BY <1>2, <2>1, <2>3 DEF ServerInv
  <2> QED BY <1>5, <2>2, <2>3 DEF RelayIInv, PageSideTypes
<1>7. ASSUME NEW q \in Pages PROVE (q # p => ServerInv(q)') /\ MessageBounds(q)'
  BY <1>2 DEF ServerInv, MessageBounds
<1> QED BY <1>4, <1>6, <1>7

\* The steps of the page's side show nothing; what they leave open was open.
LEMMA OthersShown ==
  ASSUME ShownIInv, UNCHANGED serverSide, relay' \in {"up", "down"},
         \A p \in Pages : ws'[p] # "closed" => ws[p] # "closed",
         \A p \in Pages : MessageBounds(p)'
  PROVE  ShownIInv'
BY DEF ShownIInv, ServerSideTypes, ServerInv, serverSide

LEMMA BoundsKept ==
  ASSUME RelayIInv, ShownIInv, NEW p \in Pages,
         PageSends(p) \/ PageLeaves(p) \/ Incoming(p) \/ Connected(p)
  PROVE  \A q \in Pages : MessageBounds(q)'
<1> USE DEF RelayIInv, PageSideTypes, ShownIInv
<1> SUFFICES ASSUME NEW q \in Pages PROVE MessageBounds(q)'
  OBVIOUS
<1>1. CASE PageSends(p)
  <2>1. /\ sent[p] < MaxMessages[p] /\ sent' = [sent EXCEPT ![p] = @ + 1]
        /\ arriving' = [arriving EXCEPT ![p] = Append(@, sent[p] + 1)]
        /\ UNCHANGED buffered
    BY <1>1 DEF PageSends
  <2>2. CASE q = p
    <3>1. /\ sent'[p] = sent[p] + 1 /\ sent'[p] <= MaxMessages[p] /\ sent[p] \in Nat
          /\ arriving'[p] = Append(arriving[p], sent[p] + 1)
      <4>1. sent'[p] = sent[p] + 1 /\ arriving'[p] = Append(arriving[p], sent[p] + 1)
        BY <2>1
      <4>2. sent[p] \in Nat /\ MaxMessages[p] \in Nat
        BY RelayAssumption
      <4> QED BY <2>1, <4>1, <4>2
    <3>2. Within(arriving'[p], sent'[p])
      BY <3>1 DEF MessageBounds, Within
    <3>3. Within(buffered[p], sent'[p])
      BY <3>1 DEF MessageBounds, Within
    <3> QED BY <2>1, <2>2, <3>1, <3>2, <3>3 DEF MessageBounds
  <2>3. CASE q # p
    BY <2>1, <2>3 DEF MessageBounds
  <2> QED BY <2>2, <2>3
<1>2. CASE PageLeaves(p)
  <2>1. PICK n \in 0 .. Len(arriving[p]) :
          arriving' = [arriving EXCEPT ![p] = SubSeq(@, 1, n)]
    BY <1>2 DEF PageLeaves
  <2>2. UNCHANGED <<sent, buffered>>
    BY <1>2 DEF PageLeaves
  <2>3. Within(SubSeq(arriving[p], 1, n), sent[p])
    BY DEF MessageBounds, Within
  <2> QED BY <2>1, <2>2, <2>3 DEF MessageBounds
<1>3. CASE Incoming(p)
  <2> DEFINE m == Head(arriving[p])
  <2>1. /\ arriving[p] # <<>> /\ UNCHANGED sent
        /\ arriving' = [arriving EXCEPT ![p] = Tail(@)]
        /\ \/ UNCHANGED buffered
           \/ buffered' = [buffered EXCEPT ![p] = Append(@, m)]
    BY <1>3 DEF Incoming
  <2>2. /\ m \in 1 .. sent[p] /\ Within(Tail(arriving[p]), sent[p])
    BY <2>1 DEF MessageBounds, Within
  <2>3. Within(Append(buffered[p], m), sent[p])
    BY <2>2, WithinAppend DEF MessageBounds
  <2> HIDE DEF m
  <2> QED BY <2>1, <2>2, <2>3 DEF MessageBounds
<1>4. CASE Connected(p)
  <2>1. buffered' = [buffered EXCEPT ![p] = <<>>] /\ UNCHANGED <<sent, arriving>>
    BY <1>4 DEF Connected
  <2> QED BY <2>1 DEF MessageBounds, Within
<1> QED BY <1>1, <1>2, <1>3, <1>4

LEMMA ShownSteps == RelayIInv /\ ShownIInv /\ [RelayNext]_relayVars => ShownIInv'
<1> SUFFICES ASSUME RelayIInv, ShownIInv, [RelayNext]_relayVars PROVE ShownIInv'
  OBVIOUS
<1>0. relay \in {"up", "down"} /\ \A p \in Pages : MessageBounds(p)
  BY DEF ShownIInv, ServerSideTypes
<1>1. CASE UNCHANGED relayVars
  BY <1>0, <1>1, OthersShown DEF relayVars, serverSide, MessageBounds
<1>2. ASSUME NEW p \in Pages,
             PageSends(p) \/ PageLeaves(p) \/ Incoming(p) \/ Connected(p)
      PROVE  ShownIInv'
  <2>1. UNCHANGED <<relay, serverSide>>
    BY <1>2 DEF PageSends, PageLeaves, Incoming, Connected
  <2>2. \A q \in Pages : ws'[q] # "closed" => ws[q] # "closed"
    BY <1>2 DEF PageSends, PageLeaves, Incoming, Connected, RelayIInv, PageSideTypes
  <2> QED BY <1>0, <1>2, <2>1, <2>2, BoundsKept, OthersShown
<1>3. ASSUME NEW p \in Pages,
             Connection(p) \/ ServerCloses(p) \/ TcpClose(p) \/ TcpError(p)
      PROVE  ShownIInv'
  <2>1. /\ UNCHANGED serverSide /\ relay' \in {"up", "down"}
        /\ \A q \in Pages : MessageBounds(q)'
    BY <1>0, <1>3 DEF Connection, ServerCloses, TcpClose, TcpError, pageSide, MessageBounds
  <2>2. \A q \in Pages : ws'[q] # "closed" => ws[q] # "closed"
    BY <1>3 DEF Connection, ServerCloses, TcpClose, WsClose, TcpError, RelayIInv,
                PageSideTypes
  <2> QED BY <2>1, <2>2, OthersShown
<1> QED BY <1>1, <1>2, <1>3, ServerSendsShown, DataShown DEF RelayNext

LEMMA RelayInOrder == RelayIInv /\ ShownIInv => RelayedInOrder
<1> SUFFICES ASSUME RelayIInv, ShownIInv PROVE RelayedInOrder
  OBVIOUS
<1> USE DEF RelayIInv, PageSideTypes, ShownIInv, ServerSideTypes
<1>1. ASSUME NEW p \in Pages
      PROVE  /\ shown[p] \in Seq(1 .. frames[p])
             /\ IsPrefix(shown[p], Pieces(frames[p]))
  <2> DEFINE t == Pieces(frames[p])
             n == Len(shown[p])
  <2>1. Halves(shown[p], 0) /\ n <= 2 * frames[p] /\ n \in Nat /\ frames[p] \in Nat
    BY DEF ServerInv
  <2>2. \A i \in 1 .. n : shown[p][i] = (i + 1) \div 2
    <3> TAKE i \in 1 .. n
    <3>1. shown[p][i] = (0 + i + 1) \div 2
      BY <2>1 DEF Halves
    <3> QED BY <3>1
  <2>3. t \in Seq(Nat) /\ Len(t) = 2 * frames[p]
        /\ \A i \in 1 .. 2 * frames[p] : t[i] = (i + 1) \div 2
    <3> DEFINE m == frames[p]
    <3>1. t = [i \in 1 .. 2 * m |-> (i + 1) \div 2] /\ m \in Nat /\ 2 * m \in Nat
      BY <2>1 DEF Pieces
    <3> HIDE DEF t, m
    <3>2. \A i \in 1 .. 2 * m : (i + 1) \div 2 \in Nat
      BY <3>1
    <3>3. t \in Seq(Nat) /\ Len(t) = 2 * m /\ \A i \in 1 .. 2 * m : t[i] = (i + 1) \div 2
      <4>1. t \in [1 .. 2 * m -> Nat] /\ \A i \in 1 .. 2 * m : t[i] = (i + 1) \div 2
        BY <3>1, <3>2
      <4> QED BY <3>1, <4>1
    <3> QED BY <3>3 DEF m
  <2>4. Within(shown[p], frames[p])
    <3> SUFFICES ASSUME NEW i \in 1 .. n PROVE shown[p][i] \in 1 .. frames[p]
      BY DEF Within
    <3> DEFINE m == frames[p]
    <3>1. i \in Nat /\ 1 <= i /\ i <= 2 * m /\ m \in Nat
      BY <2>1
    <3> HIDE DEF m
    <3>2. (i + 1) \div 2 \in 1 .. m
      BY <3>1
    <3> QED BY <2>2, <3>2 DEF m
  <2>5. SubSeq(shown[p], 1, n) = SubSeq(t, 1, n)
    <3>1. \A i \in 1 .. n : shown[p][i] = t[i]
      BY <2>1, <2>2, <2>3
    <3> HIDE DEF t
    <3> QED BY <2>1, <2>3, <3>1
  <2> HIDE DEF t
  <2> QED BY <2>1, <2>3, <2>4, <2>5, WithinType DEF IsPrefix, t
<1>2. ASSUME NEW p \in Pages
      PROVE  /\ sent[p] \in 0 .. MaxMessages[p] /\ frames[p] \in 0 .. MaxFrames[p]
             /\ arriving[p] \in Seq(1 .. sent[p]) /\ buffered[p] \in Seq(1 .. sent[p])
             /\ stream[p] \in Seq(1 .. frames[p])
  BY RelayAssumption, WithinType DEF MessageBounds, ServerInv
<1>3. ASSUME NEW p \in Pages
      PROVE  upstream[p] \in Seq(1 .. sent[p]) /\ (ws[p] = "none" <=> tcp[p] = "none")
  <2>1. Within(upstream[p], sent[p])
    BY DEF PageInv, Numbered, Within
  <2> QED BY <2>1, WithinType DEF PageInv
<1>4. RelayTypeOK
  BY <1>1, <1>2, <1>3 DEF RelayTypeOK
<1>5. ShownInOrder
  BY <1>1 DEF ShownInOrder
<1> QED BY <1>4, <1>5, UpstreamFollows DEF RelayedInOrder

\* For any pages, any number of messages and of frames: what the relay passes
\* on, either way, is the beginning of what was sent, piece by piece, however
\* the chunks are cut and whichever of page, server and relay ends first.
THEOREM RelayIsTransparent == Spec => []RelayedInOrder
<1>1. Init => RelayIInv /\ ShownIInv
  BY RelayInitial, ShownInitial DEF Init
<1>2. RelayIInv /\ ShownIInv /\ [Next]_vars => RelayIInv' /\ ShownIInv'
  <2> SUFFICES ASSUME RelayIInv, ShownIInv, [Next]_vars PROVE RelayIInv' /\ ShownIInv'
    OBVIOUS
  <2>1. [RelayNext]_relayVars
    BY DEF Next, vars
  <2> QED BY <2>1, RelaySteps, ShownSteps
<1> QED BY <1>1, <1>2, RelayInOrder, PTL DEF Spec

-----------------------------------------------------------------------------
(* The server between its peers *)

Bodies   == UNION {[0 .. n -> Int] : n \in Int}
Messages == [id : Int, body : Bodies]
Posts    == [from : Sessions, kind : RequestKinds]
Sent     == [from : Sessions, id : Int, no : Nat, what : {"reply", "chat"}]

PeerTypes ==
  /\ coming \in [Sessions -> Streams]
  /\ pos \in [Sessions -> Nat]
  /\ handed \in [Sessions -> Seq(Messages)]
  /\ ended \in [Sessions -> BOOLEAN]
  /\ posted \in Seq(Posts)
  /\ passed \in 0 .. Len(posted)
  /\ called \in Seq(Posts)
  /\ calling \in BOOLEAN
  /\ accepted \in [Sessions -> Seq(Sent)]
  /\ wire \in [Sessions -> Seq(Nat \X (1 .. Parts))]
  /\ broken \in [Sessions -> BOOLEAN]
  /\ dead \in BOOLEAN
  /\ \A s \in Sessions : pos[s] <= coming[s].size

\* A post is a message handed over, and those of a session are in its order.
HandedOver(m) ==
  /\ m.kind.no \in 1 .. Len(handed[m.from])
  /\ handed[m.from][m.kind.no].id = m.kind.id

PostedInv ==
  \A i \in 1 .. Len(posted) :
    /\ HandedOver(posted[i])
    /\ \A j \in 1 .. i - 1 : posted[j].from = posted[i].from
                              => posted[j].kind.no < posted[i].kind.no

\* x was sent by the callback for the post m.
SentFor(x, m) == x.from = m.from /\ x.no = m.kind.no /\ x.id = m.kind.id

\* The posts whose callbacks have begun.
Begun == IF calling THEN passed + 1 ELSE passed

SentInv ==
  \A s \in Sessions : \A n \in 1 .. Len(accepted[s]) :
    /\ accepted[s][n].what = "reply" => accepted[s][n].from = s
    /\ \E i \in 1 .. Begun : SentFor(accepted[s][n], posted[i])
    /\ \A k \in 1 .. n - 1 : Before(accepted[s][k], accepted[s][n])

\* What a callback under way has still to send: nothing, the reply, or the
\* chat and the reply; when it has sent something that was the chat.
Reply(m) == [to |-> m.from, what |-> "reply"]
Chat(s)  == [to |-> s, what |-> "chat"]
ToSend(m) == {<<>>, <<Reply(m)>>} \cup {<<Chat(s), Reply(m)>> : s \in Sessions}

CallingInv ==
  calling =>
    /\ passed < Len(posted)
    /\ Foremost.kind.id \in Registered
    /\ sends \in ToSend(Foremost)
    /\ sends # <<>> =>
         \A s \in Sessions : \A n \in 1 .. Len(accepted[s]) :
           SentFor(accepted[s][n], Foremost) =>
             Len(sends) = 1 /\ accepted[s][n].what = "chat"

WireInv ==
  \A s \in Sessions : \A i \in 1 .. Len(wire[s]) :
    /\ wire[s][i][1] \in 1 .. Len(accepted[s])
    /\ \A j \in 1 .. i - 1 : wire[s][j][1] <= wire[s][i][1]

PeerIInv == PeerTypes /\ PostedInv /\ SentInv /\ CallingInv /\ WireInv

LEMMA PeerInitial == PeerInit => PeerIInv
<1> SUFFICES ASSUME PeerInit PROVE PeerIInv
  OBVIOUS
<1> USE DEF PeerInit
<1>1. PeerTypes
  <2>1. \A s \in Sessions : pos[s] <= coming[s].size
    <3> SUFFICES ASSUME NEW s \in Sessions PROVE pos[s] <= coming[s].size
      OBVIOUS
    <3>1. coming[s] \in Streams /\ pos[s] = 0
      OBVIOUS
    <3>2. coming[s].size \in Nat
      BY <3>1, ConversationAssumption
    <3>3. \A n \in Nat : 0 <= n
      OBVIOUS
    <3> HIDE DEF PeerInit
    <3> QED BY <3>1, <3>2, <3>3
  <2>2. <<>> \in Seq(Messages) /\ <<>> \in Seq(Sent) /\ <<>> \in Seq(Nat \X (1 .. Parts))
    OBVIOUS
  <2>3. /\ handed \in [Sessions -> Seq(Messages)]
        /\ accepted \in [Sessions -> Seq(Sent)]
        /\ wire \in [Sessions -> Seq(Nat \X (1 .. Parts))]
    BY <2>2
  <2>4. posted \in Seq(Posts) /\ called \in Seq(Posts) /\ passed \in 0 .. Len(posted)
    OBVIOUS
  <2> QED BY <2>1, <2>3, <2>4 DEF PeerTypes
<1> QED
  BY <1>1 DEF PeerIInv, PostedInv, SentInv, CallingInv, WireInv

LEMMA MessageIsMessage ==
  ASSUME PeerTypes, NEW s \in Sessions,
         Reader(s)!Complete(pos[s]), Reader(s)!Valid(pos[s])
  PROVE  /\ Reader(s)!Message(pos[s]) \in Messages
         /\ Reader(s)!Message(pos[s]).id \in Int
         /\ pos[s] + HeadTotalLen + coming[s].len[pos[s]] \in 0 .. coming[s].size
<1> DEFINE st == coming[s]
<1>1. st \in Streams /\ pos[s] \in 0 .. st.size
  BY ConversationAssumption DEF PeerTypes
<1>2. st.id[pos[s]] \in Int /\ st.len[pos[s]] \in Int /\ HeadTotalLen \in Nat
  BY <1>1, ConversationAssumption
<1>3. [k \in 0 .. st.len[pos[s]] - 1 |-> pos[s] + HeadTotalLen + k] \in Bodies
  <2>1. /\ [k \in 0 .. st.len[pos[s]] - 1 |-> pos[s] + HeadTotalLen + k]
              \in [0 .. st.len[pos[s]] - 1 -> Int]
        /\ st.len[pos[s]] - 1 \in Int
    BY <1>1, <1>2
  <2> QED BY <2>1 DEF Bodies
<1>4. pos[s] + HeadTotalLen + st.len[pos[s]] <= st.size /\ st.len[pos[s]] >= 0
  BY <1>2 DEF Reader!Complete, Reader!Valid
<1>5. Reader(s)!Message(pos[s]) =
        [id   |-> st.id[pos[s]],
         body |-> [k \in 0 .. st.len[pos[s]] - 1 |-> pos[s] + HeadTotalLen + k]]
  BY DEF Reader!Message
<1>6. pos[s] + HeadTotalLen + st.len[pos[s]] \in 0 .. st.size
  BY <1>1, <1>2, <1>4, ConversationAssumption
<1> DEFINE body == [k \in 0 .. st.len[pos[s]] - 1 |-> pos[s] + HeadTotalLen + k]
<1> HIDE DEF body
<1> QED
  BY <1>2, <1>3, <1>5, <1>6 DEF Messages, body


\* A post that is appended, with the message handed over, leaves the rest as
\* it was.
LEMMA HandReadTypes ==
  ASSUME PeerIInv, NEW s \in Sessions, HandleRead(s)
  PROVE  /\ PeerTypes'
         /\ Len(posted') = Len(posted) + 1
         /\ \A i \in 1 .. Len(posted) : posted'[i] = posted[i]
         /\ \A r \in Sessions : \A n \in 1 .. Len(handed[r]) :
              n \in 1 .. Len(handed'[r]) /\ handed'[r][n] = handed[r][n]
         /\ LET m == posted'[Len(posted) + 1]
            IN /\ m.from = s /\ m.kind.no = Len(handed[s]) + 1
               /\ m.kind.no \in 1 .. Len(handed'[s])
               /\ handed'[s][m.kind.no].id = m.kind.id
<1> DEFINE message == Reader(s)!Message(pos[s])
           m == [from |-> s, kind |-> [id |-> message.id, no |-> Len(handed[s]) + 1]]
<1>1. /\ message \in Messages
      /\ message.id \in Int
      /\ pos[s] + HeadTotalLen + coming[s].len[pos[s]] \in 0 .. coming[s].size
  BY MessageIsMessage DEF HandleRead, PeerIInv
<1>2. /\ handed \in [Sessions -> Seq(Messages)] /\ posted \in Seq(Posts)
      /\ \A r \in Sessions : Len(handed[r]) \in Nat
  BY DEF PeerIInv, PeerTypes
<1>3. m \in Posts
  BY <1>1, <1>2 DEF Posts, RequestKinds
<1>4. /\ handed' = [handed EXCEPT ![s] = Append(@, message)]
      /\ posted' = Append(posted, m)
  BY DEF HandleRead, Pushed
<1> HIDE DEF message
<1>5. handed' \in [Sessions -> Seq(Messages)] /\ posted' \in Seq(Posts)
  BY <1>1, <1>2, <1>3, <1>4
<1>6. /\ pos' \in [Sessions -> Nat]
      /\ \A r \in Sessions : pos'[r] <= coming'[r].size
  <2>1. /\ pos' = [pos EXCEPT ![s] = pos[s] + HeadTotalLen + coming[s].len[pos[s]]]
        /\ coming' = coming
    BY DEF HandleRead
  <2>2. /\ pos[s] + HeadTotalLen + coming[s].len[pos[s]] \in Nat
        /\ pos[s] + HeadTotalLen + coming[s].len[pos[s]] <= coming[s].size
    <3>1. coming[s].size \in Nat
      BY ConversationAssumption DEF PeerIInv, PeerTypes
    <3> QED BY <1>1, <3>1
  <2>3. pos \in [Sessions -> Nat] /\ \A r \in Sessions : pos[r] <= coming[r].size
    BY DEF PeerIInv, PeerTypes
  <2> DEFINE next == pos[s] + HeadTotalLen + coming[s].len[pos[s]]
  <2> HIDE DEF next
  <2> QED BY <2>1, <2>2, <2>3 DEF next
<1>7. Len(posted') = Len(posted) + 1 /\ \A i \in 1 .. Len(posted) : posted'[i] = posted[i]
  BY <1>2, <1>4
<1>8. PeerTypes'
  <2>1. /\ coming' \in [Sessions -> Streams] /\ ended' \in [Sessions -> BOOLEAN]
        /\ called' \in Seq(Posts) /\ calling' \in BOOLEAN
        /\ accepted' \in [Sessions -> Seq(Sent)]
        /\ wire' \in [Sessions -> Seq(Nat \X (1 .. Parts))]
        /\ broken' \in [Sessions -> BOOLEAN] /\ dead' \in BOOLEAN
    BY DEF HandleRead, PeerIInv, PeerTypes, channelVars
  <2>2. passed' \in 0 .. Len(posted')
    <3>1. passed \in 0 .. Len(posted) /\ passed' = passed /\ Len(posted) \in Nat
      BY <1>2 DEF HandleRead, PeerIInv, PeerTypes
    <3> QED BY <1>7, <3>1
  <2> QED BY <1>5, <1>6, <2>1, <2>2, Zenon DEF PeerTypes
<1>9. \A r \in Sessions : \A n \in 1 .. Len(handed[r]) :
        n \in 1 .. Len(handed'[r]) /\ handed'[r][n] = handed[r][n]
  BY <1>2, <1>4
<1>10. posted'[Len(posted) + 1] = m /\ handed'[s][Len(handed[s]) + 1] = message
       /\ Len(handed'[s]) = Len(handed[s]) + 1
  BY <1>2, <1>4
<1> QED
  BY <1>2, <1>7, <1>8, <1>9, <1>10

LEMMA HandleReadKeeps ==
  ASSUME PeerIInv, NEW s \in Sessions, HandleRead(s)
  PROVE  PeerIInv'
<1> DEFINE m == posted'[Len(posted) + 1]
<1>1. /\ PeerTypes'
      /\ Len(posted') = Len(posted) + 1
      /\ \A i \in 1 .. Len(posted) : posted'[i] = posted[i]
      /\ \A r \in Sessions : \A n \in 1 .. Len(handed[r]) :
           n \in 1 .. Len(handed'[r]) /\ handed'[r][n] = handed[r][n]
      /\ m.from = s /\ m.kind.no = Len(handed[s]) + 1
      /\ m.kind.no \in 1 .. Len(handed'[s])
      /\ handed'[s][m.kind.no].id = m.kind.id
  BY HandReadTypes
<1>2. /\ posted \in Seq(Posts) /\ passed \in 0 .. Len(posted)
      /\ handed \in [Sessions -> Seq(Messages)]
      /\ UNCHANGED <<passed, called, calling, sends, accepted, wire>>
  BY DEF PeerIInv, PeerTypes, HandleRead, channelVars
<1> HIDE DEF m
<1>3. PostedInv'
  <2>1. \A j \in 1 .. Len(posted) : posted[j].from \in Sessions
    <3>1. \A j \in 1 .. Len(posted) : posted[j] \in Posts
      BY <1>2
    <3> QED BY <3>1 DEF Posts
  <2>2. \A j \in 1 .. Len(posted) :
          HandedOver(posted[j]) /\ HandedOver(posted[j])'
    <3> SUFFICES ASSUME NEW j \in 1 .. Len(posted)
                 PROVE  HandedOver(posted[j]) /\ HandedOver(posted[j])'
      BY Zenon
    <3>1. HandedOver(posted[j])
      BY DEF PeerIInv, PostedInv
    <3>2. posted'[j] = posted[j]
      BY <1>1
    <3> QED BY <1>1, <2>1, <3>1, <3>2 DEF HandedOver
  <2> SUFFICES ASSUME NEW i \in 1 .. Len(posted')
               PROVE  /\ HandedOver(posted[i])'
                      /\ \A j \in 1 .. i - 1 : posted'[j].from = posted'[i].from
                           => posted'[j].kind.no < posted'[i].kind.no
    BY DEF PostedInv
  <2>4. CASE i <= Len(posted)
    <3>1. i \in 1 .. Len(posted) /\ posted'[i] = posted[i]
          /\ \A j \in 1 .. i - 1 : j \in 1 .. Len(posted) /\ posted'[j] = posted[j]
      BY <1>1, <1>2, <2>4
    <3>2. \A j \in 1 .. i - 1 : posted[j].from = posted[i].from
            => posted[j].kind.no < posted[i].kind.no
      BY <3>1 DEF PeerIInv, PostedInv
    <3> QED BY <2>2, <3>1, <3>2
  <2>5. CASE i = Len(posted) + 1
    <3>1. \A j \in 1 .. i - 1 : j \in 1 .. Len(posted) /\ posted'[j] = posted[j]
      BY <1>1, <1>2, <2>5
    <3>2. posted'[i] = m
      BY <2>5 DEF m
    <3>3. \A j \in 1 .. Len(posted) : posted[j].from = s
            => posted[j].kind.no <= Len(handed[s]) /\ posted[j].kind.no \in Int
      BY <2>2 DEF HandedOver
    <3>4. Len(handed[s]) \in Nat
      BY <1>2
    <3>5. \A j \in 1 .. i - 1 : posted'[j].from = posted'[i].from
            => posted'[j].kind.no < posted'[i].kind.no
      <4> SUFFICES ASSUME NEW j \in 1 .. i - 1, posted'[j].from = posted'[i].from
                   PROVE  posted'[j].kind.no < posted'[i].kind.no
        OBVIOUS
      <4>1. j \in 1 .. Len(posted) /\ posted'[j] = posted[j] /\ posted[j].from = s
        BY <1>1, <3>1, <3>2
      <4>2. posted[j].kind.no <= Len(handed[s]) /\ posted[j].kind.no \in Int
        BY <3>3, <4>1
      <4>3. posted'[i].kind.no = Len(handed[s]) + 1
        BY <1>1, <3>2
      <4>4. posted[j].kind.no < posted'[i].kind.no
        BY <3>4, <4>2, <4>3
      <4> QED BY <4>1, <4>4
    <3>6. HandedOver(posted[i])'
      BY <1>1, <3>2 DEF HandedOver
    <3> QED BY <3>5, <3>6
  <2>6. i <= Len(posted) \/ i = Len(posted) + 1
    <3>1. Len(posted) \in Nat
      BY <1>2
    <3>2. i \in 1 .. Len(posted) + 1
      BY <1>1
    <3> QED BY <3>1, <3>2
  <2> QED BY <2>4, <2>5, <2>6
<1>4. Begun' = Begun /\ Begun \in 0 .. Len(posted)
  BY <1>2 DEF Begun, PeerIInv, PeerTypes, CallingInv
<1>5. SentInv'
  <2>1. \A i \in 1 .. Begun : posted'[i] = posted[i]
    BY <1>1, <1>2, <1>4
  <2> SUFFICES ASSUME NEW r \in Sessions, NEW n \in 1 .. Len(accepted[r])
               PROVE  \E i \in 1 .. Begun : SentFor(accepted[r][n], posted'[i])
    <3>1. \A r \in Sessions : \A n \in 1 .. Len(accepted[r]) :
            /\ accepted[r][n].what = "reply" => accepted[r][n].from = r
            /\ \A k \in 1 .. n - 1 : Before(accepted[r][k], accepted[r][n])
      BY DEF PeerIInv, SentInv
    <3>2. accepted' = accepted /\ Begun' = Begun
      BY <1>2, <1>4
    <3> QED BY <3>1, <3>2 DEF SentInv, SentFor, Before
  <2> QED BY <2>1 DEF PeerIInv, SentInv, SentFor
<1>6. CallingInv'
  <2>1. calling => passed < Len(posted) /\ Foremost' = Foremost
    BY <1>1, <1>2 DEF Foremost, PeerIInv, CallingInv
  <2> QED BY <1>1, <1>2, <2>1 DEF PeerIInv, CallingInv, SentFor, ToSend, Reply
<1>7. WireInv'
  BY <1>2 DEF PeerIInv, WireInv
<1> QED BY <1>1, <1>3, <1>5, <1>6, <1>7 DEF PeerIInv

LEMMA ReaderStopsKeeps ==
  ASSUME PeerIInv, NEW s \in Sessions, StopsReading(s) \/ Breaks(s)
  PROVE  PeerIInv'
<1>1. UNCHANGED <<coming, pos, handed, logicVars, accepted, wire, dead>>
  BY DEF StopsReading, Breaks, readerVars, channelVars
<1>2. PeerTypes'
  BY <1>1 DEF StopsReading, Breaks, PeerIInv, PeerTypes, logicVars, channelVars, readerVars
<1>3. UNCHANGED <<handed, posted, passed, calling, sends, accepted, wire>>
  BY <1>1 DEF logicVars
<1>4. PostedInv' /\ WireInv'
  BY <1>3 DEF PeerIInv, PostedInv, HandedOver, WireInv
<1>5. SentInv'
  BY <1>3 DEF PeerIInv, SentInv, SentFor, Before, Begun
<1>6. CallingInv'
  BY <1>3 DEF PeerIInv, CallingInv, SentFor, Foremost, ToSend, Reply
<1> QED BY <1>2, <1>4, <1>5, <1>6 DEF PeerIInv

LEMMA WriteSomeKeeps ==
  ASSUME PeerIInv, NEW s \in Sessions, WriteSome(s)
  PROVE  PeerIInv'
<1> DEFINE piece == Channel(s)!NextPiece
           w == wire[s]
<1>1. /\ wire \in [Sessions -> Seq(Nat \X (1 .. Parts))]
      /\ w \in Seq(Nat \X (1 .. Parts)) /\ Parts \in Nat \ {0}
      /\ wire' = [wire EXCEPT ![s] = Append(@, piece)]
      /\ UNCHANGED <<readerVars, logicVars, accepted, broken, dead>>
      /\ piece[1] <= Len(accepted[s])
      /\ Len(accepted[s]) \in Nat
  BY ConversationAssumption DEF PeerIInv, PeerTypes, WriteSome
<1>2. /\ piece \in (Nat \ {0}) \X (1 .. Parts)
      /\ \A i \in 1 .. Len(w) : w[i][1] <= piece[1]
  <2>1. CASE w = <<>>
    BY <1>1, <2>1 DEF Channel!NextPiece
  <2>2. CASE w # <<>>
    <3> DEFINE last == w[Len(w)]
    <3>1. Len(w) \in 1 .. Len(w) /\ last \in Nat \X (1 .. Parts)
      BY <1>1, <2>2
    <3>2. last[1] \in 1 .. Len(accepted[s]) /\ \A i \in 1 .. Len(w) : w[i][1] <= last[1]
      BY <1>1, <3>1 DEF PeerIInv, WireInv
    <3>3. piece = Channel(s)!Succ(last)
      BY <2>2 DEF Channel!NextPiece
    <3>4. piece \in (Nat \ {0}) \X (1 .. Parts) /\ last[1] <= piece[1]
      <4>1. last[1] \in Nat \ {0} /\ last[2] \in 1 .. Parts /\ Parts \in Nat \ {0}
        BY <1>1, <3>1, <3>2
      <4>2. \/ piece = <<last[1], last[2] + 1>> /\ last[2] < Parts
            \/ piece = <<last[1] + 1, 1>>
        BY <3>3, <4>1 DEF Channel!Succ
      <4> HIDE DEF piece, last
      <4> QED BY <4>1, <4>2
    <3>5. \A i \in 1 .. Len(w) : w[i][1] \in Nat
      BY <1>1
    <3> QED BY <1>1, <3>2, <3>1, <3>4, <3>5
  <2> QED BY <2>1, <2>2
<1> HIDE DEF piece
<1>3. wire' \in [Sessions -> Seq(Nat \X (1 .. Parts))]
  BY <1>1, <1>2
<1>4. PeerTypes'
  BY <1>1, <1>3 DEF PeerIInv, PeerTypes, readerVars, logicVars
<1>5. WireInv'
  <2> SUFFICES ASSUME NEW r \in Sessions, NEW i \in 1 .. Len(wire'[r])
               PROVE  /\ wire'[r][i][1] \in 1 .. Len(accepted[r])
                      /\ \A j \in 1 .. i - 1 : wire'[r][j][1] <= wire'[r][i][1]
    BY <1>1 DEF WireInv
  <2>1. CASE r # s
    BY <1>1, <2>1 DEF PeerIInv, WireInv
  <2>2. CASE r = s
    <3>1. Len(wire'[s]) = Len(w) + 1 /\ wire'[s][Len(w) + 1] = piece
          /\ \A j \in 1 .. Len(w) : wire'[s][j] = w[j]
      BY <1>1, <1>2
    <3>2. CASE i = Len(w) + 1
      <4>1. piece[1] \in Nat \ {0} /\ piece[1] <= Len(accepted[s])
        BY <1>1, <1>2
      <4>2. \A j \in 1 .. i - 1 : j \in 1 .. Len(w)
        BY <3>2, <1>1
      <4>3. wire'[r][i] = piece
            /\ \A j \in 1 .. i - 1 : wire'[r][j] = w[j] /\ w[j][1] <= piece[1]
        BY <1>2, <2>2, <3>1, <3>2, <4>2
      <4>4. piece[1] \in 1 .. Len(accepted[r])
        BY <1>1, <2>2, <4>1
      <4> HIDE DEF w
      <4> QED BY <4>3, <4>4, Zenon
    <3>3. CASE i \in 1 .. Len(w)
      <4>1. /\ w[i][1] \in 1 .. Len(accepted[s])
            /\ \A j \in 1 .. i - 1 : w[j][1] <= w[i][1]
        BY <3>3 DEF PeerIInv, WireInv
      <4>2. Len(w) \in Nat
        BY <1>1
      <4>3. \A j \in 1 .. i - 1 : j \in 1 .. Len(w)
        BY <3>3, <4>2
      <4>4. wire'[s][i] = w[i] /\ \A j \in 1 .. i - 1 : wire'[s][j] = w[j]
        BY <3>1, <3>3, <4>3
      <4> HIDE DEF w
      <4> QED BY <2>2, <4>1, <4>4
    <3> QED BY <1>1, <2>2, <3>1, <3>2, <3>3
  <2> QED BY <2>1, <2>2
<1>6. UNCHANGED <<handed, posted, passed, calling, sends, accepted>>
  BY <1>1 DEF logicVars, readerVars
<1>7. PostedInv' /\ SentInv'
  BY <1>6 DEF PeerIInv, PostedInv, HandedOver, SentInv, SentFor, Before, Begun
<1>8. CallingInv'
  BY <1>6 DEF PeerIInv, CallingInv, SentFor, Foremost, ToSend, Reply
<1> QED BY <1>4, <1>5, <1>7, <1>8 DEF PeerIInv

\* Nothing that is sent for a post whose callback has not begun.
LEMMA NotBegun ==
  ASSUME PeerIInv, ~calling, passed < Len(posted),
         NEW s \in Sessions, NEW n \in 1 .. Len(accepted[s])
  PROVE  ~ SentFor(accepted[s][n], Foremost)
<1>1. PICK i \in 1 .. passed : SentFor(accepted[s][n], posted[i])
  BY DEF PeerIInv, SentInv, Begun
<1>2. passed + 1 \in 1 .. Len(posted) /\ i \in 1 .. (passed + 1) - 1 /\ i \in 1 .. Len(posted)
  BY DEF PeerIInv, PeerTypes
<1>3. /\ posted[i].from = Foremost.from => posted[i].kind.no < Foremost.kind.no
      /\ posted[i].kind.no \in Int
  BY <1>2 DEF PeerIInv, PostedInv, HandedOver, Foremost
<1> QED BY <1>1, <1>3 DEF SentFor

LEMMA BeginKeeps ==
  ASSUME PeerIInv, Begin
  PROVE  PeerIInv'
<1>1. /\ ~calling /\ calling' = TRUE /\ passed < Len(posted)
      /\ UNCHANGED <<readerVars, posted, passed, called, channelVars, dead>>
      /\ UNCHANGED <<handed, accepted, wire>>
  BY DEF Begin, readerVars, channelVars
<1>2. PeerTypes'
  BY <1>1 DEF PeerIInv, PeerTypes, readerVars, channelVars
<1>3. PostedInv' /\ WireInv'
  BY <1>1 DEF PeerIInv, PostedInv, HandedOver, WireInv
<1>4. SentInv'
  <2>1. passed \in Nat /\ Begun = passed /\ Begun' = passed + 1
    BY <1>1 DEF Begun, PeerIInv, PeerTypes
  <2>2. 1 .. Begun \subseteq 1 .. Begun'
    BY <2>1
  <2> QED BY <1>1, <2>2 DEF PeerIInv, SentInv, SentFor, Before
<1>5. CallingInv'
  <2>1. Foremost' = Foremost
    BY <1>1 DEF Foremost
  <2>2. sends' \in ToSend(Foremost)
    BY DEF Begin, Sends, ToSend, Reply, Chat
  <2>3. ToSend(Foremost') = ToSend(Foremost)
    BY <2>1
  <2>4. \A s \in Sessions : \A n \in 1 .. Len(accepted[s]) :
          ~ SentFor(accepted[s][n], Foremost)
    BY <1>1, NotBegun
  <2>5. Foremost.kind.id \in Registered
    BY DEF Begin
  <2> QED BY <1>1, <2>1, <2>2, <2>3, <2>4, <2>5 DEF CallingInv
<1> QED BY <1>2, <1>3, <1>4, <1>5 DEF PeerIInv

LEMMA FinishKeeps ==
  ASSUME PeerIInv, Finish \/ SkipForemost
  PROVE  PeerIInv'
<1>1. /\ passed' = passed + 1 /\ passed < Len(posted) /\ calling' = FALSE
      /\ UNCHANGED <<readerVars, posted, channelVars, dead>>
      /\ UNCHANGED <<handed, posted, accepted, wire>>
  BY DEF PeerIInv, PeerTypes, CallingInv, Finish, SkipForemost, readerVars, channelVars
<1>2. passed \in 0 .. Len(posted) /\ posted \in Seq(Posts)
  BY DEF PeerIInv, PeerTypes
<1>3. Foremost \in Posts
  BY <1>1, <1>2 DEF Foremost
<1>4. called' \in Seq(Posts)
  <2>1. called \in Seq(Posts) /\ (called' = Append(called, Foremost) \/ called' = called)
    BY DEF Finish, SkipForemost, PeerIInv, PeerTypes
  <2> QED BY <1>3, <2>1
<1>5. PeerTypes'
  <2>1. passed' \in 0 .. Len(posted') /\ posted' \in Seq(Posts) /\ calling' \in BOOLEAN
    <3>1. posted' = posted /\ calling' = FALSE
      BY <1>1
    <3>2. Len(posted) \in Nat
      BY <1>2
    <3>3. passed' \in 0 .. Len(posted)
      BY <1>1, <1>2, <3>2
    <3> QED BY <1>2, <3>1, <3>3
  <2>2. UNCHANGED <<coming, pos, handed, ended, accepted, wire, broken, dead>>
    BY <1>1 DEF readerVars, channelVars
  <2> QED BY <1>4, <2>1, <2>2 DEF PeerIInv, PeerTypes
<1>6. PostedInv' /\ WireInv'
  BY <1>1 DEF PeerIInv, PostedInv, HandedOver, WireInv
<1>7. SentInv'
  <2>1. 1 .. Begun \subseteq 1 .. Begun'
    BY <1>1, <1>2 DEF Begun
  <2> QED BY <1>1, <2>1 DEF PeerIInv, SentInv, SentFor, Before
<1> QED BY <1>1, <1>5, <1>6, <1>7 DEF PeerIInv, CallingInv

\* What Send adds comes after all that was sent for the same peer.
LEMMA SendNextKeeps ==
  ASSUME PeerIInv, SendNext
  PROVE  PeerIInv'
<1> DEFINE x == Head(sends)
           f == Foremost
           y == [from |-> f.from, id |-> f.kind.id, no |-> f.kind.no, what |-> x.what]
<1>1. /\ calling /\ sends # <<>> /\ passed < Len(posted)
      /\ sends \in ToSend(f) /\ f.kind.id \in Registered
      /\ \A s \in Sessions : \A n \in 1 .. Len(accepted[s]) :
           SentFor(accepted[s][n], f) => Len(sends) = 1 /\ accepted[s][n].what = "chat"
  BY DEF SendNext, PeerIInv, CallingInv
<1>2. /\ sends' = Tail(sends)
      /\ UNCHANGED <<handed, posted, passed, calling, wire>>
      /\ UNCHANGED <<readerVars, posted, passed, called, calling, wire, broken, dead>>
  BY DEF SendNext, readerVars
<1>3. posted \in Seq(Posts) /\ passed \in 0 .. Len(posted)
      /\ accepted \in [Sessions -> Seq(Sent)]
  BY DEF PeerIInv, PeerTypes
<1>4. passed + 1 \in 1 .. Len(posted) /\ f = posted[passed + 1] /\ f \in Posts
  BY <1>1, <1>3 DEF Foremost
<1>5. f.from \in Sessions /\ f.kind.id \in Int /\ f.kind.no \in Nat
  BY <1>4 DEF Posts, RequestKinds
<1>6. /\ x.to \in Sessions /\ x.what \in {"reply", "chat"}
      /\ x.what = "reply" => x.to = f.from /\ Len(sends) = 1 /\ Tail(sends) = <<>>
      /\ x.what = "chat" => Len(sends) = 2 /\ Tail(sends) = <<Reply(f)>>
      /\ Len(sends) = 1 => x.what = "reply"
  <2> HIDE DEF f
  <2>1. CASE sends = <<Reply(f)>>
    BY <1>5, <2>1 DEF Reply
  <2>2. CASE \E s \in Sessions : sends = <<Chat(s), Reply(f)>>
    BY <1>5, <2>2 DEF Reply, Chat
  <2> QED BY <1>1, <2>1, <2>2 DEF ToSend
<1>7. y \in Sent
  BY <1>5, <1>6 DEF Sent
<1>8. Foremost' = f
  BY <1>2 DEF Foremost
<1>9. \/ UNCHANGED accepted
      \/ accepted' = [accepted EXCEPT ![x.to] = Append(@, y)]
  BY DEF SendNext
<1> HIDE DEF x, y, f
<1> DEFINE old(s) == 1 .. Len(accepted[s])
<1>10. /\ accepted' \in [Sessions -> Seq(Sent)]
       /\ \A s \in Sessions :
            /\ Len(accepted[s]) \in Nat
            /\ \A n \in old(s) : n \in 1 .. Len(accepted'[s]) /\ accepted'[s][n] = accepted[s][n]
            /\ \A n \in 1 .. Len(accepted'[s]) : n \notin old(s) =>
                 s = x.to /\ n = Len(accepted[s]) + 1 /\ accepted'[s][n] = y
  <2>1. \A s \in Sessions : accepted[s] \in Seq(Sent) /\ Len(accepted[s]) \in Nat
    BY <1>3
  <2>2. CASE UNCHANGED accepted
    BY <1>3, <2>1, <2>2
  <2>3. CASE accepted' = [accepted EXCEPT ![x.to] = Append(@, y)]
    <3>1. Append(accepted[x.to], y) \in Seq(Sent)
      BY <1>6, <1>7, <2>1
    <3>2. accepted' \in [Sessions -> Seq(Sent)]
      BY <1>3, <2>3, <3>1
    <3>3. \A s \in Sessions : s # x.to => accepted'[s] = accepted[s]
      BY <1>3, <2>3
    <3>4. /\ accepted'[x.to] = Append(accepted[x.to], y)
          /\ Len(accepted'[x.to]) = Len(accepted[x.to]) + 1
          /\ accepted'[x.to][Len(accepted[x.to]) + 1] = y
          /\ \A n \in 1 .. Len(accepted[x.to]) : accepted'[x.to][n] = accepted[x.to][n]
      BY <1>3, <1>6, <1>7, <2>1, <2>3
    <3> SUFFICES ASSUME NEW s \in Sessions
                 PROVE  /\ \A n \in old(s) : n \in 1 .. Len(accepted'[s]) /\ accepted'[s][n] = accepted[s][n]
                        /\ \A n \in 1 .. Len(accepted'[s]) : n \notin old(s) =>
                             s = x.to /\ n = Len(accepted[s]) + 1 /\ accepted'[s][n] = y
      BY <2>1, <3>2
    <3>5. CASE s = x.to
      BY <2>1, <3>4, <3>5
    <3>6. CASE s # x.to
      BY <2>1, <3>3, <3>6
    <3> QED BY <3>5, <3>6
  <2> QED BY <1>9, <2>2, <2>3
<1>11. PeerTypes'
  BY <1>2, <1>10 DEF PeerIInv, PeerTypes, readerVars
<1>12. PostedInv'
  BY <1>2 DEF PeerIInv, PostedInv, HandedOver
<1>13. WireInv'
  BY <1>2, <1>10 DEF PeerIInv, WireInv
<1>14. Begun = passed + 1 /\ Begun' = Begun
  BY <1>1, <1>2 DEF Begun
<1>15. SentFor(y, f) /\ y.what = x.what /\ y.from = f.from /\ y.no = f.kind.no
  BY DEF SentFor, y
<1>16. \A s \in Sessions : \A n \in old(s) : Before(accepted[s][n], y)
  <2> SUFFICES ASSUME NEW s \in Sessions, NEW n \in old(s)
               PROVE  Before(accepted[s][n], y)
    OBVIOUS
  <2>1. PICK i \in 1 .. passed + 1 : SentFor(accepted[s][n], posted[i])
    BY <1>14 DEF PeerIInv, SentInv
  <2>2. CASE i = passed + 1
    <3>1. SentFor(accepted[s][n], f)
      BY <1>4, <2>1, <2>2
    <3>2. accepted[s][n].what = "chat" /\ y.what = "reply"
      BY <1>1, <1>6, <1>15, <3>1
    <3> QED BY <1>15, <3>1, <3>2 DEF SentFor, Before
  <2>3. CASE i # passed + 1
    <3>1. i \in 1 .. (passed + 1) - 1
      BY <1>3, <2>3
    <3>2. posted[i].from = f.from => posted[i].kind.no < f.kind.no
      BY <1>4, <3>1 DEF PeerIInv, PostedInv
    <3> QED BY <1>15, <2>1, <3>2 DEF SentFor, Before
  <2> QED BY <2>2, <2>3
<1>17. SentInv'
  <2> SUFFICES ASSUME NEW s \in Sessions, NEW n \in 1 .. Len(accepted'[s])
               PROVE  /\ accepted'[s][n].what = "reply" => accepted'[s][n].from = s
                      /\ \E i \in 1 .. Begun : SentFor(accepted'[s][n], posted[i])
                      /\ \A k \in 1 .. n - 1 : Before(accepted'[s][k], accepted'[s][n])
    BY <1>2, <1>14 DEF SentInv, SentFor, Before
  <2>1. CASE n \in old(s)
    <3>1. \A k \in 1 .. n - 1 : k \in old(s)
      BY <1>10, <2>1
    <3>2. /\ accepted'[s][n] = accepted[s][n]
          /\ \A k \in 1 .. n - 1 : accepted'[s][k] = accepted[s][k]
      BY <1>10, <2>1, <3>1
    <3>3. /\ accepted[s][n].what = "reply" => accepted[s][n].from = s
          /\ \E i \in 1 .. Begun : SentFor(accepted[s][n], posted[i])
          /\ \A k \in 1 .. n - 1 : Before(accepted[s][k], accepted[s][n])
      BY <2>1 DEF PeerIInv, SentInv
    <3> QED BY <3>2, <3>3
  <2>2. CASE n \notin old(s)
    <3>1. s = x.to /\ n = Len(accepted[s]) + 1 /\ accepted'[s][n] = y
      BY <1>10, <2>2
    <3>2. \A k \in 1 .. n - 1 : k \in old(s)
      BY <1>10, <3>1
    <3>3. \A k \in 1 .. n - 1 : Before(accepted'[s][k], accepted'[s][n])
      BY <1>10, <1>16, <3>1, <3>2
    <3>4. Begun \in 1 .. Begun /\ SentFor(y, posted[Begun])
      BY <1>3, <1>4, <1>14, <1>15
    <3> QED BY <1>6, <1>15, <3>1, <3>3, <3>4
  <2> QED BY <2>1, <2>2
<1>18. CallingInv'
  <2>1. sends' \in ToSend(f)
    BY <1>2, <1>6 DEF ToSend
  <2>2. ToSend(f)' = ToSend(f')
    BY DEF ToSend, Reply
  <2> SUFFICES ASSUME sends' # <<>>, NEW s \in Sessions, NEW n \in 1 .. Len(accepted'[s]),
                      SentFor(accepted'[s][n], f)
               PROVE  Len(sends') = 1 /\ accepted'[s][n].what = "chat"
    BY <1>1, <1>2, <1>8, <2>1 DEF CallingInv, SentFor, f
  <2>3. x.what = "chat" /\ Len(sends) = 2 /\ Len(sends') = 1
    BY <1>2, <1>6
  <2>4. ASSUME n \in old(s) PROVE FALSE
    <3>1. SentFor(accepted[s][n], f)
      BY <1>10, <2>4
    <3> QED BY <1>1, <2>3, <2>4, <3>1
  <2> QED BY <1>10, <1>15, <2>3, <2>4
<1> QED BY <1>11, <1>12, <1>13, <1>17, <1>18 DEF PeerIInv

LEMMA PeerSteps == PeerIInv /\ [PeerNext]_peerVars => PeerIInv'
<1> SUFFICES ASSUME PeerIInv, [PeerNext]_peerVars PROVE PeerIInv'
  OBVIOUS
<1>1. CASE Dies \/ UNCHANGED peerVars
  <2>1. UNCHANGED <<readerVars, logicVars, channelVars>> /\ (dead \in BOOLEAN => dead' \in BOOLEAN)
    BY <1>1 DEF Dies, peerVars
  <2>2. PeerTypes'
    BY <2>1 DEF PeerIInv, PeerTypes, readerVars, logicVars, channelVars
  <2>3. UNCHANGED <<handed, posted, passed, calling, sends, accepted, wire>>
    BY <2>1 DEF readerVars, logicVars, channelVars
  <2>4. PostedInv' /\ WireInv'
    BY <2>3 DEF PeerIInv, PostedInv, HandedOver, WireInv
  <2>5. SentInv'
    BY <2>3 DEF PeerIInv, SentInv, SentFor, Before, Begun
  <2>6. CallingInv'
    BY <2>3 DEF PeerIInv, CallingInv, SentFor, Foremost, ToSend, Reply
  <2> QED BY <2>2, <2>4, <2>5, <2>6 DEF PeerIInv
<1>2. CASE \E s \in Sessions : HandleRead(s) \/ StopsReading(s) \/ WriteSome(s) \/ Breaks(s)
  BY <1>2, HandleReadKeeps, ReaderStopsKeeps, WriteSomeKeeps
<1> QED
  BY <1>1, <1>2, BeginKeeps, SendNextKeeps, FinishKeeps DEF PeerNext

LEMMA PeersOrdered == PeerIInv => ExchangeInOrder
<1> SUFFICES ASSUME PeerIInv PROVE ExchangeInOrder
  OBVIOUS
<1>1. PeerTypeOK
  <2>1. \A s \in Sessions : \A i \in 1 .. Len(wire[s]) :
          wire[s][i] \in (1 .. Len(accepted[s])) \X (1 .. Parts)
    <3> SUFFICES ASSUME NEW s \in Sessions, NEW i \in 1 .. Len(wire[s])
                 PROVE  wire[s][i] \in (1 .. Len(accepted[s])) \X (1 .. Parts)
      OBVIOUS
    <3>1. wire[s][i] \in Nat \X (1 .. Parts)
      BY DEF PeerIInv, PeerTypes
    <3>2. wire[s][i][1] \in 1 .. Len(accepted[s])
      BY DEF PeerIInv, WireInv
    <3> QED BY <3>1, <3>2
  <2>2. \A s \in Sessions : pos[s] \in 0 .. coming[s].size
    <3> SUFFICES ASSUME NEW s \in Sessions PROVE pos[s] \in 0 .. coming[s].size
      OBVIOUS
    <3>1. coming[s].size \in Nat
      BY ConversationAssumption DEF PeerIInv, PeerTypes
    <3> QED BY <3>1 DEF PeerIInv, PeerTypes
  <2> QED BY <2>1, <2>2 DEF PeerTypeOK, PeerIInv, PeerTypes, CallingInv
<1> SUFFICES ASSUME NEW s \in Sessions, NEW i \in 1 .. Len(wire[s])
             PROVE  LET x == OnWire(s, i)
                    IN /\ x.no \in 1 .. Len(handed[x.from]) /\ handed[x.from][x.no].id = x.id
                       /\ x.what = "reply" => x.from = s
                       /\ \A k \in 1 .. Len(posted) :
                            posted[k].from = x.from /\ posted[k].kind.no < x.no => k <= passed
                       /\ \A j \in 1 .. i - 1 :
                            wire[s][j][1] # wire[s][i][1] => Before(OnWire(s, j), x)
  BY <1>1 DEF ExchangeInOrder
<1> DEFINE n == wire[s][i][1]
           x == accepted[s][n]
<1>2. n \in 1 .. Len(accepted[s]) /\ x = OnWire(s, i) /\ Len(accepted[s]) \in Nat
  BY DEF PeerIInv, PeerTypes, WireInv, OnWire
<1>3. /\ x.what = "reply" => x.from = s
      /\ \A k \in 1 .. n - 1 : Before(accepted[s][k], x)
  BY <1>2 DEF PeerIInv, SentInv
<1>4. PICK p \in 1 .. Begun : SentFor(x, posted[p])
  BY <1>2 DEF PeerIInv, SentInv
<1>5. p \in 1 .. Len(posted) /\ p <= passed + 1 /\ passed \in 0 .. Len(posted)
      /\ Len(posted) \in Nat
  BY DEF PeerIInv, PeerTypes, CallingInv, Begun
<1>6. x.no \in 1 .. Len(handed[x.from]) /\ handed[x.from][x.no].id = x.id
  BY <1>4, <1>5 DEF PeerIInv, PostedInv, HandedOver, SentFor
<1>7. \A k \in 1 .. Len(posted) :
        posted[k].from = x.from /\ posted[k].kind.no < x.no => k <= passed
  <2> SUFFICES ASSUME NEW k \in 1 .. Len(posted), posted[k].from = x.from,
                      posted[k].kind.no < x.no, k > passed
               PROVE  FALSE
    BY <1>5
  <2>1. posted[k].from = posted[p].from /\ posted[k].kind.no < posted[p].kind.no
    BY <1>4 DEF SentFor
  <2>2. posted[k].kind.no \in Int /\ posted[p].kind.no \in Int
    BY <1>5 DEF PeerIInv, PostedInv, HandedOver
  <2>3. k = p \/ p \in 1 .. k - 1
    BY <1>5
  <2>4. k # p
    BY <2>1, <2>2
  <2>5. p \in 1 .. k - 1 => posted[p].kind.no < posted[k].kind.no
    BY <2>1 DEF PeerIInv, PostedInv
  <2> HIDE DEF x
  <2>6. ~(posted[k].kind.no < posted[p].kind.no /\ posted[p].kind.no < posted[k].kind.no)
    BY <2>2
  <2> QED BY <2>1, <2>3, <2>4, <2>5, <2>6, Zenon
<1>8. \A j \in 1 .. i - 1 : wire[s][j][1] # n => Before(OnWire(s, j), x)
  <2> SUFFICES ASSUME NEW j \in 1 .. i - 1, wire[s][j][1] # n
               PROVE  Before(OnWire(s, j), x)
    OBVIOUS
  <2>1. j \in 1 .. Len(wire[s]) /\ wire[s][j][1] <= n
    <3>1. Len(wire[s]) \in Nat
      BY DEF PeerIInv, PeerTypes
    <3>2. j \in 1 .. Len(wire[s])
      BY <3>1
    <3> QED BY <3>2 DEF PeerIInv, WireInv
  <2>2. wire[s][j][1] \in 1 .. Len(accepted[s])
    BY <2>1 DEF PeerIInv, WireInv
  <2>3. wire[s][j][1] \in 1 .. n - 1
    <3>1. n \in Int /\ wire[s][j][1] \in Int /\ wire[s][j][1] >= 1
      BY <1>2, <2>2
    <3> QED BY <2>1, <3>1
  <2> QED BY <1>3, <2>3 DEF OnWire
<1> QED BY <1>2, <1>3, <1>6, <1>7, <1>8

\* In any server, with any streams, what a peer receives are at most the
\* answers to its requests and the chats of the others, each with the id of
\* its request, for each sender in the order of the requests: posting, the
\* worker and the queues of the sessions between them lose no order.
THEOREM ExchangeKeepsOrder == Spec => []ExchangeInOrder
<1>1. Init => PeerIInv
  BY PeerInitial DEF Init
<1>2. PeerIInv /\ [Next]_vars => PeerIInv'
  BY PeerSteps DEF Next, vars
<1> QED BY <1>1, <1>2, PeersOrdered, PTL DEF Spec

LEMMA ReaderKept ==
  ASSUME NEW s \in Sessions, PeerIInv, [PeerNext]_peerVars
  PROVE  [Reader(s)!Next]_(Reader(s)!vars)
<1> USE DEF Reader!vars
<1>1. CASE HandleRead(s)
  <2>1. Reader(s)!Deliver
    BY <1>1, ConversationAssumption
    DEF HandleRead, PeerIInv, PeerTypes, Reader!Deliver, Reader!Complete
  <2> QED BY <2>1 DEF Reader!Next
<1>2. CASE StopsReading(s)
  BY <1>2 DEF StopsReading, PeerIInv, PeerTypes, Reader!Next, Reader!End
<1>3. CASE \E r \in Sessions \ {s} : HandleRead(r) \/ StopsReading(r)
  BY <1>3 DEF HandleRead, StopsReading, PeerIInv, PeerTypes
<1>4. CASE UNCHANGED readerVars
  BY <1>4 DEF readerVars
<1> QED
  BY <1>1, <1>2, <1>3, <1>4
  DEF PeerNext, peerVars, WriteSome, Breaks, Begin, SendNext, Finish, SkipForemost, Dies

LEMMA ServiceKept ==
  ASSUME PeerIInv, [PeerNext]_peerVars
  PROVE  [Service!Next]_(Service!vars)
<1> USE DEF Service!vars
<1>1. CASE ~dead /\ \E s \in Sessions : HandleRead(s)
  <2>1. PICK s \in Sessions : HandleRead(s)
    BY <1>1
  <2> DEFINE k == [id |-> Reader(s)!Message(pos[s]).id, no |-> Len(handed[s]) + 1]
  <2>2. k \in RequestKinds
    <3>1. Reader(s)!Message(pos[s]).id \in Int
      BY <2>1, MessageIsMessage DEF HandleRead, PeerIInv
    <3>2. Len(handed[s]) + 1 \in Nat
      BY DEF PeerIInv, PeerTypes
    <3> QED BY <3>1, <3>2 DEF RequestKinds
  <2>3. posted' = Append(posted, [from |-> s, kind |-> k])
    BY <2>1 DEF HandleRead, Pushed
  <2>4. UNCHANGED <<passed, called, dead>>
    BY <2>1 DEF HandleRead
  <2> HIDE DEF k
  <2> QED BY <1>1, <2>2, <2>3, <2>4 DEF Service!Next, Service!Post
<1>2. posted \in Seq(Posts) /\ passed \in 0 .. Len(posted)
  BY DEF PeerIInv, PeerTypes
<1>3. passed < Len(posted) => Foremost.kind \in RequestKinds
  <2>1. passed < Len(posted) => Foremost \in Posts
    BY <1>2 DEF Foremost
  <2> QED BY <2>1 DEF Posts
<1>4. CASE ~dead /\ Finish
  <2>1. Service!Call
    BY <1>3, <1>4 DEF Finish, Service!Call, PeerIInv, CallingInv, Foremost
  <2> QED BY <2>1 DEF Service!Next
<1>5. CASE ~dead /\ SkipForemost
  <2>1. Service!Skip
    BY <1>5 DEF SkipForemost, Service!Skip, Foremost
  <2> QED BY <2>1 DEF Service!Next
<1>6. CASE ~dead /\ Dies
  BY <1>6 DEF Dies, logicVars, Service!Next, Service!Die
<1>7. CASE UNCHANGED <<posted, passed, called, dead>>
  BY <1>7
<1> QED
  BY <1>1, <1>4, <1>5, <1>6, <1>7
  DEF PeerNext, peerVars, logicVars, StopsReading, WriteSome, Breaks, Begin, SendNext

LEMMA ChannelKept ==
  ASSUME NEW s \in Sessions, PeerIInv, [PeerNext]_peerVars
  PROVE  [Channel(s)!Next]_(Channel(s)!vars)
<1> USE DEF Channel!vars
<1>1. CASE WriteSome(s)
  BY <1>1 DEF WriteSome, PeerIInv, PeerTypes, Channel!Next, Channel!Transfer
<1>2. CASE Breaks(s)
  BY <1>2 DEF Breaks, PeerIInv, PeerTypes, Channel!Next, Channel!Break
<1>3. CASE SendNext
  <2>1. UNCHANGED <<wire, broken>> /\ accepted \in [Sessions -> Seq(Sent)]
    BY <1>3 DEF SendNext, PeerIInv, PeerTypes
  <2>2. \/ accepted'[s] = accepted[s]
        \/ \E y : accepted'[s] = Append(accepted[s], y)
    BY <1>3, <2>1 DEF SendNext
  <2>3. \/ Len(accepted'[s]) = Len(accepted[s])
        \/ Len(accepted'[s]) = Len(accepted[s]) + 1
    BY <2>1, <2>2
  <2> QED BY <2>1, <2>3 DEF Channel!Next, Channel!Accept
<1>4. CASE \E r \in Sessions \ {s} : WriteSome(r) \/ Breaks(r)
  BY <1>4 DEF WriteSome, Breaks, PeerIInv, PeerTypes
<1>5. CASE UNCHANGED channelVars
  BY <1>5 DEF channelVars
<1> QED
  BY <1>1, <1>2, <1>3, <1>4, <1>5
  DEF PeerNext, peerVars, HandleRead, StopsReading, Begin, Finish, SkipForemost, Dies

\* The sessions and the logic system, wired as LogicSystem and CSession wire
\* them, are each what the module that stands for it promises: the reader of
\* every session hands over the frames of its stream, the logic system takes
\* what is posted one by one, and what a session accepts leaves it in order.
THEOREM PromisesAreKept ==
  PeerSpec => /\ \A s \in Sessions : Reader(s)!Spec /\ Channel(s)!Spec
              /\ Service!Spec
<1>1. ASSUME NEW s \in Sessions PROVE PeerInit => Reader(s)!Init /\ Channel(s)!Init
  BY DEF PeerInit, Reader!Init, Channel!Init
<1>2. PeerInit => Service!Init
  BY DEF PeerInit, Service!Init
<1>3. ASSUME NEW s \in Sessions PROVE PeerSpec => Reader(s)!Spec
  <2>1. PeerInit => Reader(s)!Init
    BY <1>1
  <2>2. PeerIInv /\ [PeerNext]_peerVars => [Reader(s)!Next]_(Reader(s)!vars)
    BY ReaderKept
  <2> QED BY <2>1, <2>2, PeerInitial, PeerSteps, PTL DEF PeerSpec, Reader!Spec
<1>4. ASSUME NEW s \in Sessions PROVE PeerSpec => Channel(s)!Spec
  <2>1. PeerInit => Channel(s)!Init
    BY <1>1
  <2>2. PeerIInv /\ [PeerNext]_peerVars => [Channel(s)!Next]_(Channel(s)!vars)
    BY ChannelKept
  <2> QED BY <2>1, <2>2, PeerInitial, PeerSteps, PTL DEF PeerSpec, Channel!Spec
<1>5. PeerSpec => Service!Spec
  <2>1. PeerIInv /\ [PeerNext]_peerVars => [Service!Next]_(Service!vars)
    BY ServiceKept
  <2> QED BY <1>2, <2>1, PeerInitial, PeerSteps, PTL DEF PeerSpec, Service!Spec
<1> QED BY <1>3, <1>4, <1>5
==============================================================================
