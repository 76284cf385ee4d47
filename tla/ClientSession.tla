---------------------------- MODULE ClientSession ----------------------------
(***************************************************************************)
(* The terminal client (client.cpp) and the session the server keeps for   *)
(* it.                                                                     *)
(*                                                                         *)
(* The client has two threads on one socket: main prompts, writes one      *)
(* request per operation and, after a logout, joins the reader; the reader *)
(* prints every frame that arrives until its read throws.  The server runs *)
(* the callback of each request in turn (LogicSystem.cpp) and answers,     *)
(* except a logout, which it neither answers nor ends: it counts on the    *)
(* client to close.                                                        *)
(*                                                                         *)
(* A request is its number, the operation and whether the fields typed in  *)
(* parse (stoi of an id throws in the worker otherwise, which nothing      *)
(* catches, so the server ends).  The reader takes the head of a frame and *)
(* its body in two steps, since the connection may end between them.       *)
(***************************************************************************)
EXTENDS Integers, Sequences, SequencesExt

CONSTANTS MaxRequests, (* bound: operations the user chooses               *)
          MaxChats     (* bound: chats other users send to this one        *)

ASSUME ClientAssumption == MaxRequests \in Nat /\ MaxChats \in Nat

Operations == {"register", "login", "logout", "addfriend", "onechat"}

VARIABLES
  main,     (* where main is                                               *)
  reader,   (* where read_thread is                                        *)
  socket,   (* the connection: "none", "up" or "closed"                    *)
  asked,    (* the operations chosen so far                                *)
  up,       (* requests on their way to the server                         *)
  down,     (* frames on their way to the client                           *)
  served,   (* how many requests the server has taken                      *)
  online,   (* the row of this user says online                            *)
  chats,    (* chats forwarded so far                                      *)
  printed   (* the frames the reader has printed                           *)

client == <<main, reader, asked, printed>>
server == <<served, online, chats>>
clientVars == <<main, reader, socket, asked, up, down, served, online, chats,
                printed>>

ClientInit ==
  /\ main = "connect"
  /\ reader = "none"
  /\ socket = "none"
  /\ asked = <<>>
  /\ up = <<>>
  /\ down = <<>>
  /\ served = 0
  /\ online = FALSE
  /\ chats = 0
  /\ printed = <<>>

-----------------------------------------------------------------------------
(* main.                                                                   *)

(* A refused connection makes main return 0; a thread that cannot start    *)
(* makes it leave by the catch, with no reader to care about.              *)
Connect ==
  /\ main = "connect"
  /\ \/ main' = "returned" /\ UNCHANGED <<reader, socket>>
     \/ main' = "caught" /\ socket' = "closed" /\ UNCHANGED reader
     \/ main' = "prompt" /\ socket' = "up" /\ reader' = "head"
  /\ UNCHANGED <<asked, up, down, server, printed>>

(* The switch: an operation that is none of the five prompts again.        *)
Choose(op) ==
  /\ main = "prompt"
  /\ Len(asked) < MaxRequests
  /\ asked' = Append(asked, op)
  /\ main' = "write"
  /\ UNCHANGED <<reader, socket, up, down, server, printed>>

ShiftedMsgId == [register |-> 1001, login |-> 1002, logout |-> 1003,
                 addfriend |-> 1004, onechat |-> 1008]

MsgId == [register |-> 1002, login |-> 1003, logout |-> 1004,
          addfriend |-> 1005, onechat |-> 1008]

AfterWrite(op) == IF op = "logout" THEN "join" ELSE "prompt"

(* The kernel takes a write on a connection the other side has closed too, *)
(* and the bytes are lost.                                                 *)
Write(fieldsParse) ==
  /\ main = "write"
  /\ LET op == Last(asked)
     IN /\ up' = IF socket = "up"
                 THEN Append(up, [no |-> Len(asked), id |-> MsgId[op],
                                  parses |-> fieldsParse])
                 ELSE up
        /\ main' = AfterWrite(op)
  /\ UNCHANGED <<reader, socket, asked, down, server, printed>>

CaughtWithReader == main' = "caught" /\ UNCHANGED reader

(* The exception of a failed write unwinds main's try block.  It destroys  *)
(* the thread object first, which is joinable: std::terminate.             *)
Unwind == main' = "aborted" /\ reader' = "done"

WriteFails ==
  /\ main = "write"
  /\ socket = "closed"
  /\ Unwind
  /\ UNCHANGED <<socket, asked, up, down, server, printed>>

ReaderEnded == reader = "done"

Join ==
  /\ main = "join"
  /\ ReaderEnded
  /\ main' = "returned"
  /\ UNCHANGED <<reader, socket, asked, up, down, server, printed>>

-----------------------------------------------------------------------------
(* read_thread: read blocks until the head, then the body, has arrived.    *)

ReadHead ==
  /\ reader = "head"
  /\ down # <<>>
  /\ reader' = "body"
  /\ UNCHANGED <<main, socket, asked, up, down, server, printed>>

StopAfterFrame == "done"

ReadOn == "head"

ReadBody ==
  /\ reader = "body"
  /\ printed' = Append(printed, Head(down))
  /\ down' = Tail(down)
  /\ reader' = ReadOn
  /\ UNCHANGED <<main, socket, asked, up, server>>

(* read throws when the connection has ended; what had arrived may be lost *)
(* with a reset.  read_thread catches it and ends.                         *)
ReadThrows ==
  /\ reader \in {"head", "body"}
  /\ socket = "closed"
  /\ reader' = "done"
  /\ UNCHANGED <<main, socket, asked, up, down, server, printed>>

-----------------------------------------------------------------------------
(* The server.                                                             *)

(* _fun_callbacks of the ids of const.h that the client uses.              *)
Callback == [id \in {1001, 1002, 1003, 1004, 1005, 1008} |->
               CASE id = 1001 -> "hello"
                 [] id = 1002 -> "register"
                 [] id = 1003 -> "login"
                 [] id = 1004 -> "logout"
                 [] id = 1005 -> "addfriend"
                 [] id = 1008 -> "onechat"]

Frame(no, callback) == <<no, callback>>

Answers(callback) == callback # "logout"

KeepFront == up

TakeFront == Tail(up)

(* One request: its callback runs to the end, or throws out of the worker  *)
(* and ends the process.  A login may be refused; the logout may name      *)
(* another user.                                                           *)
Serve ==
  /\ socket = "up"
  /\ up # <<>>
  /\ LET r == Head(up)
         callback == Callback[r.id]
     IN /\ up' = TakeFront
        /\ served' = served + 1
        /\ IF ~r.parses /\ callback # "register"
           THEN socket' = "closed" /\ UNCHANGED <<down, online>>
           ELSE /\ down' = IF Answers(callback)
                           THEN Append(down, Frame(r.no, callback)) ELSE down
                /\ online' \in CASE callback = "login"  -> {TRUE, online}
                                 [] callback = "logout" -> {FALSE, online}
                                 [] OTHER               -> {online}
                /\ UNCHANGED socket
  /\ UNCHANGED <<client, chats>>

(* oneChatCallBack of somebody else forwards the chat as it came.          *)
Forward ==
  /\ socket = "up"
  /\ online
  /\ chats < MaxChats
  /\ chats' = chats + 1
  /\ down' = Append(down, Frame(0, "onechat"))
  /\ UNCHANGED <<client, socket, up, served, online>>

(* HandleRead fails on the server, which drops the session: the client is  *)
(* gone, or the network is.                                                *)
ClientGone ==
  /\ socket = "up"
  /\ main \in {"returned", "caught", "aborted"}
  /\ socket' = "closed"
  /\ UNCHANGED <<client, up, down, server>>

ConnectionLost ==
  /\ socket = "up"
  /\ socket' = "closed"
  /\ UNCHANGED <<client, up, down, server>>

ClientNext ==
  \/ Connect
  \/ \E op \in Operations : Choose(op)
  \/ \E parses \in BOOLEAN : Write(parses)
  \/ WriteFails
  \/ Join
  \/ ReadHead
  \/ ReadBody
  \/ ReadThrows
  \/ Serve
  \/ Forward
  \/ ClientGone
  \/ ConnectionLost

(* Both threads of the client and the worker of the server keep running.   *)
(* What the user types, other users' chats and the network are not fair.   *)
ClientMain   == WriteFails \/ Join \/ \E parses \in BOOLEAN : Write(parses)
ClientReader == ReadHead \/ ReadBody \/ ReadThrows
ClientServer == Serve \/ ClientGone

ClientFairness ==
  /\ WF_clientVars(ClientMain)
  /\ WF_clientVars(ClientReader)
  /\ WF_clientVars(ClientServer)

ClientSpec == ClientInit /\ [][ClientNext]_clientVars /\ ClientFairness

-----------------------------------------------------------------------------
MainPlaces == {"connect", "prompt", "write", "join", "returned", "caught",
               "aborted"}

Frames == (0 .. MaxRequests) \X (Operations \cup {"hello"})

(* Every variable keeps to its range, and no more is served than was asked.*)
ClientTypeOK ==
  /\ main \in MainPlaces
  /\ reader \in {"none", "head", "body", "done"}
  /\ socket \in {"none", "up", "closed"}
  /\ asked \in Seq(Operations) /\ Len(asked) <= MaxRequests
  /\ up \in Seq([no : 1 .. MaxRequests, id : 1001 .. 1009, parses : BOOLEAN])
  /\ down \in Seq(Frames)
  /\ served \in 0 .. Len(asked)
  /\ online \in BOOLEAN
  /\ chats \in 0 .. MaxChats
  /\ printed \in Seq(Frames)

(* The socket is a local of main's try block and the reader holds a        *)
(* reference to it: while read_thread runs (client.cpp:18), main is inside *)
(* that block, whichever of a logout, a failed write or a crash of the     *)
(* server comes first.                                                     *)
SocketOutlivesReader ==
  reader \in {"head", "body"} => main \in {"prompt", "write", "join"}

(* f is the answer to a request, not the chat of another user, and comes   *)
(* from the callback that the operation means.                             *)
RightAnswer(f) ==
  /\ f[1] \in DOMAIN asked
  /\ Answers(asked[f[1]])
  /\ f[2] = asked[f[1]]

(* What the reader prints, other users' chats aside, are the answers to    *)
(* the operations chosen, in the order they were chosen, none left out,    *)
(* each from the callback the user meant (client.cpp:76,                   *)
(* LogicSystem::RegisterCallBacks): an answer carries nothing else to tell *)
(* its request by.                                                         *)
AnswersInOrder ==
  \A i \in DOMAIN printed : printed[i][1] # 0 =>
    /\ RightAnswer(printed[i])
    /\ \A j \in 1 .. i - 1 : printed[j][1] < printed[i][1]
    /\ \A n \in 1 .. printed[i][1] - 1 :
         Answers(asked[n]) => \E j \in 1 .. i - 1 : printed[j][1] = n

(* A request that was written is answered on the screen, unless the        *)
(* connection ends.                                                        *)
AnswersPrinted ==
  \A n \in 1 .. MaxRequests :
    (Len(asked) >= n /\ Answers(asked[n]))
      ~> (socket = "closed" \/ \E i \in DOMAIN printed : printed[i][1] = n)

(* LogicSystem.cpp:244: after a logout the peer surely closes the          *)
(* connection, the server has nothing to do.                               *)
LogoutClosesConnection ==
  (main = "join" /\ up = <<>>) ~> socket = "closed"
=============================================================================
