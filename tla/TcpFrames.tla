------------------------------ MODULE TcpFrames ------------------------------
(***************************************************************************)
(* The socket classes of src/public/_public.cpp: CTcpClient, CTcpServer    *)
(* and the framing of TcpRead, TcpWrite, Readn and Writen.                 *)
(*                                                                         *)
(* A frame is two pieces for the four bytes of the length and one piece    *)
(* for each unit of the body; a piece is <<message, index>>.  send() and   *)
(* recv() may take any part of what they are given or asked for.  The      *)
(* kernel (the wire, the accept queue, a reset, a signal) is external.     *)
(*                                                                         *)
(* The program around the classes does what _public.h:566-590 tells it:    *)
(* after a false that was no timeout the connection is of no use, and it   *)
(* waits in the same way in all its Reads.  (m_btimeout is set anew only   *)
(* when itimeout > 0: a program that mixes both kinds may take a lost      *)
(* connection for a timeout.)                                              *)
(***************************************************************************)
EXTENDS Integers, Sequences, SequencesExt

CONSTANTS Lengths,       \* the length of the body of each message
          MaxConns,      \* bound: connections
          Waits,         \* the ends whose Reads have an itimeout > 0
          Signalled      \* the ends whose poll(), send() and recv() signals interrupt

Ends == {"client", "server"}

ASSUME SocketsAssumption ==
  /\ Lengths \in Seq(Nat) /\ MaxConns \in Nat
  /\ Waits \subseteq Ends /\ Signalled \subseteq Ends

Peer(e) == CHOOSE x \in Ends : x # e
Conns == 1 .. MaxConns
Frame(m) == [i \in 1 .. Lengths[m] + 2 |-> <<m, i>>]
HeaderPieces == 2

VARIABLES
  listening,  \* m_listenfd # -1
  pending,    \* connections that wait to be accepted
  made,       \* connections made so far
  connfd,     \* m_connfd of each end, 0 for -1
  open,       \* the ends of connections whose descriptor is open
  reset,      \* connections that broke
  wire,       \* [connection, end]: the pieces on their way to that end
  op,         \* what each end is executing
  btimeout,   \* m_btimeout
  spent,      \* the ends whose last call failed and was no timeout
  told,       \* messages that a Write was called for
  written,    \* [connection, end]: messages of the Writes by that end
  taken       \* [connection, end]: what the Reads of that end returned

svars == <<listening, pending, made, connfd, open, reset, wire, op, btimeout,
           spent, told, written, taken>>

Idle == [kind |-> "idle", left |-> 0, got |-> <<>>, rest |-> <<>>]

SocketsInit ==
  /\ listening = FALSE /\ pending = <<>> /\ made = 0 /\ told = 0
  /\ connfd = [e \in Ends |-> 0]
  /\ open = {} /\ reset = {} /\ spent = {}
  /\ wire = [x \in Conns \X Ends |-> <<>>]
  /\ op = [e \in Ends |-> Idle]
  /\ btimeout = [e \in Ends |-> FALSE]
  /\ written = [x \in Conns \X Ends |-> <<>>]
  /\ taken = [x \in Conns \X Ends |-> <<>>]

Now(e) == <<connfd[e], e>>
Ready(e) == op[e] = Idle /\ connfd[e] # 0 /\ e \notin spent
Free(e) == op[e] = Idle
PeerClosed(e) == <<connfd[e], Peer(e)>> \notin open /\ connfd[e] \notin Range(pending)

-----------------------------------------------------------------------------
(* Connecting and closing *)

\* InitServer: an earlier listening socket is closed first, and with it the
\* connections nobody accepted; then bind and listen succeed or fail.
InitServer(ok) ==
  /\ Free("server")
  /\ listening' = ok
  /\ reset' = reset \cup Range(pending)
  /\ pending' = <<>>
  /\ UNCHANGED <<made, connfd, open, wire, op, btimeout, spent, told, written, taken>>

CloseListen ==
  /\ listening
  /\ InitServer(FALSE)

\* A mutated form: the connection there was is not closed.
ConnectOver(c) == open' = open \cup {<<c, "client">>}

\* ConnectToServer closes the connection there was, then makes a new one.
Connect(c) == open' = (open \ {Now("client")}) \cup {<<c, "client">>}

ConnectToServer ==
  /\ Free("client") /\ made < MaxConns
  /\ listening
  /\ made' = made + 1
  /\ Connect(made + 1)
  /\ connfd' = [connfd EXCEPT !["client"] = made + 1]
  /\ pending' = Append(pending, made + 1)
  /\ spent' = spent \ {"client"}
  /\ UNCHANGED <<listening, reset, wire, op, btimeout, told, written, taken>>

\* socket(), gethostbyname() or connect() fails: the old one is closed anyway.
ConnectFails ==
  /\ Free("client") /\ connfd["client"] # 0
  /\ open' = open \ {Now("client")}
  /\ connfd' = [connfd EXCEPT !["client"] = 0]
  /\ spent' = spent \ {"client"}
  /\ UNCHANGED <<listening, pending, made, reset, wire, op, btimeout, told, written, taken>>

\* Accept writes m_connfd over: a client that was not closed keeps its
\* descriptor, which nobody knows any more.
Accept ==
  /\ Free("server") /\ listening /\ pending # <<>>
  /\ connfd' = [connfd EXCEPT !["server"] = Head(pending)]
  /\ open' = open \cup {<<Head(pending), "server">>}
  /\ pending' = Tail(pending)
  /\ spent' = spent \ {"server"}
  /\ UNCHANGED <<listening, made, reset, wire, op, btimeout, told, written, taken>>

\* accept() fails: its -1 is written over the descriptor all the same.
AcceptFails ==
  /\ Free("server") /\ listening
  /\ connfd' = [connfd EXCEPT !["server"] = 0]
  /\ spent' = spent \ {"server"}
  /\ UNCHANGED <<listening, pending, made, open, reset, wire, op, btimeout, told, written, taken>>

\* Close, CloseClient and the destructors.
Close(e) ==
  /\ Free(e) /\ connfd[e] # 0
  /\ open' = open \ {Now(e)}
  /\ connfd' = [connfd EXCEPT ![e] = 0]
  /\ btimeout' = [btimeout EXCEPT ![e] = e = "server" /\ @]
  /\ spent' = spent \ {e}
  /\ UNCHANGED <<listening, pending, made, reset, wire, op, told, written, taken>>

-----------------------------------------------------------------------------
(* Write, TcpWrite, Writen *)

Returns(e, ok) ==
  /\ op' = [op EXCEPT ![e] = Idle]
  /\ spent' = IF ok THEN spent ELSE spent \cup {e}

Outgoing(e, m) == [Idle EXCEPT !.kind = "write", !.rest = Frame(m)]

Write(e) ==
  /\ Ready(e) /\ told < Len(Lengths)
  /\ told' = told + 1
  /\ op' = [op EXCEPT ![e] = Outgoing(e, told + 1)]
  /\ written' = [written EXCEPT ![Now(e)] = Append(@, told + 1)]
  /\ UNCHANGED <<listening, pending, made, connfd, open, reset, wire, btimeout, spent, taken>>

\* send() takes k of the pieces that are left; what is sent to an end that
\* closed vanishes.
Writen(e, k) ==
  /\ op[e].kind = "write" /\ connfd[e] \notin reset
  /\ k \in 1 .. Len(op[e].rest)
  /\ wire' = IF PeerClosed(e) THEN wire
             ELSE [wire EXCEPT ![<<connfd[e], Peer(e)>>] = @ \o SubSeq(op[e].rest, 1, k)]
  /\ IF k = Len(op[e].rest)
     THEN Returns(e, TRUE)
     ELSE /\ op' = [op EXCEPT ![e].rest = SubSeq(@, k + 1, Len(@))]
          /\ spent' = spent
  /\ UNCHANGED <<listening, pending, made, connfd, open, reset, btimeout, told, written, taken>>

WritenFails(e) ==
  /\ op[e].kind = "write" /\ connfd[e] \in reset
  /\ Returns(e, FALSE)
  /\ UNCHANGED <<listening, pending, made, connfd, open, reset, wire, btimeout,
                 told, written, taken>>

-----------------------------------------------------------------------------
(* Read, TcpRead, Readn *)

Read(e) ==
  /\ Ready(e)
  /\ op' = [op EXCEPT ![e] = [Idle EXCEPT !.kind = IF e \in Waits THEN "poll" ELSE "head",
                                          !.left = HeaderPieces]]
  /\ btimeout' = [btimeout EXCEPT ![e] = e \notin Waits /\ @]
  /\ UNCHANGED <<listening, pending, made, connfd, open, reset, wire, spent, told, written, taken>>

Arrived(e) == wire[Now(e)]
Readable(e) == Arrived(e) # <<>> \/ PeerClosed(e) \/ connfd[e] \in reset

\* poll() says that there is something to be had.
Poll(e) ==
  /\ op[e].kind = "poll" /\ Readable(e)
  /\ op' = [op EXCEPT ![e].kind = "head"]
  /\ UNCHANGED <<listening, pending, made, connfd, open, reset, wire, btimeout,
                 spent, told, written, taken>>

\* A mutated form: poll() is called again when it times out.
PollAgain(e) ==
  /\ op[e].kind = "poll" /\ ~Readable(e)
  /\ UNCHANGED <<op, spent>>
  /\ btimeout' = [btimeout EXCEPT ![e] = TRUE]
  /\ UNCHANGED <<listening, pending, made, connfd, open, reset, wire, told, written, taken>>

\* poll() returns 0: nothing was read, and the connection may be used further.
TimesOut(e) ==
  /\ op[e].kind = "poll" /\ ~Readable(e)
  /\ Returns(e, TRUE)
  /\ btimeout' = [btimeout EXCEPT ![e] = TRUE]
  /\ UNCHANGED <<listening, pending, made, connfd, open, reset, wire, told, written, taken>>

\* The length that four bytes stand for: any, when they are no header.
LengthsOf(pieces) ==
  LET m == pieces[1][1] IN
  IF pieces = SubSeq(Frame(m), 1, HeaderPieces) THEN {Lengths[m]} ELSE Range(Lengths)

\* Readn has all it was asked for: the header is followed by the body, the
\* body ends the Read.
ReadnDone(e, got, n) ==
  IF op[e].kind = "head" /\ n > 0
  THEN /\ op' = [op EXCEPT ![e] = [@ EXCEPT !.kind = "body", !.left = n, !.got = got]]
       /\ UNCHANGED <<spent, taken>>
  ELSE /\ Returns(e, TRUE)
       /\ taken' = [taken EXCEPT ![Now(e)] = Append(@, got)]

\* A mutated form: one recv() is taken for the whole.
ReadnOnce(e, k) ==
  /\ op[e].kind \in {"head", "body"} /\ connfd[e] \notin reset
  /\ k \in 1 .. op[e].left /\ k <= Len(Arrived(e))
  /\ LET got == op[e].got \o SubSeq(Arrived(e), 1, k) IN
       IF TRUE
       THEN \E n \in IF op[e].kind = "head" THEN LengthsOf(got) ELSE {0} : ReadnDone(e, got, n)
       ELSE /\ op' = [op EXCEPT ![e].left = @ - k, ![e].got = got]
            /\ UNCHANGED <<spent, taken>>
  /\ wire' = [wire EXCEPT ![Now(e)] = SubSeq(@, k + 1, Len(@))]
  /\ UNCHANGED <<listening, pending, made, connfd, open, reset, btimeout, told, written>>

\* recv() returns k of the pieces that have arrived.
Readn(e, k) ==
  /\ op[e].kind \in {"head", "body"} /\ connfd[e] \notin reset
  /\ k \in 1 .. op[e].left /\ k <= Len(Arrived(e))
  /\ LET got == op[e].got \o SubSeq(Arrived(e), 1, k) IN
       IF k = op[e].left
       THEN \E n \in IF op[e].kind = "head" THEN LengthsOf(got) ELSE {0} : ReadnDone(e, got, n)
       ELSE /\ op' = [op EXCEPT ![e].left = @ - k, ![e].got = got]
            /\ UNCHANGED <<spent, taken>>
  /\ wire' = [wire EXCEPT ![Now(e)] = SubSeq(@, k + 1, Len(@))]
  /\ UNCHANGED <<listening, pending, made, connfd, open, reset, btimeout, told, written>>

\* recv() returns 0 or -1, in the middle of a frame or before it.
ReadnFails(e) ==
  /\ op[e].kind \in {"head", "body"}
  /\ connfd[e] \in reset \/ (PeerClosed(e) /\ Arrived(e) = <<>>)
  /\ Returns(e, FALSE)
  /\ UNCHANGED <<listening, pending, made, connfd, open, reset, wire, btimeout,
                 told, written, taken>>

\* A mutated form: what a call failed with is not looked at.
InterruptIsTimeout(e) ==
  /\ op[e].kind \in {"poll", "head", "body", "write"} /\ e \in Signalled
  /\ Returns(e, TRUE)
  /\ UNCHANGED <<listening, pending, made, connfd, open, reset, wire, btimeout,
                 told, written, taken>>

\* A signal interrupts poll(), send() or recv(): false as well, and no timeout.
Interrupt(e) ==
  /\ op[e].kind \in {"poll", "head", "body", "write"} /\ e \in Signalled
  /\ Returns(e, FALSE)
  /\ UNCHANGED <<listening, pending, made, connfd, open, reset, wire, btimeout,
                 told, written, taken>>

\* The network or a closed peer breaks a connection: what was on its way is lost.
Reset(c) ==
  /\ c <= made /\ c \notin reset
  /\ reset' = reset \cup {c}
  /\ wire' = [x \in Conns \X Ends |-> IF x[1] = c THEN <<>> ELSE wire[x]]
  /\ UNCHANGED <<listening, pending, made, connfd, open, op, btimeout, spent,
                 told, written, taken>>

Proceed(e) ==
  \/ \E k \in 1 .. 4 : Writen(e, k) \/ Readn(e, k)
  \/ WritenFails(e) \/ Poll(e) \/ TimesOut(e) \/ ReadnFails(e)

SocketsNext ==
  \/ InitServer(TRUE) \/ InitServer(FALSE) \/ CloseListen
  \/ ConnectToServer \/ ConnectFails \/ Accept \/ AcceptFails
  \/ \E e \in Ends : Proceed(e) \/ Close(e) \/ Write(e) \/ Read(e) \/ Interrupt(e)
  \/ \E c \in Conns : Reset(c)

SocketsSpec == SocketsInit /\ [][SocketsNext]_svars

-----------------------------------------------------------------------------
(* Properties *)

SocketsTypeOK ==
  /\ listening \in BOOLEAN
  /\ Range(pending) \subseteq 1 .. made /\ made <= MaxConns
  /\ connfd \in [Ends -> 0 .. made]
  /\ open \subseteq Conns \X Ends /\ reset \subseteq 1 .. made
  /\ \A e \in Ends : op[e].kind # "idle" => Now(e) \in open
  /\ btimeout \in [Ends -> BOOLEAN] /\ spent \subseteq Ends

\* What the Reads of an end return are the messages that its peer wrote on this
\* connection, from the first one on, each of them whole and none twice, in
\* whatever pieces send() and recv() moved them and however many Reads timed
\* out in between.
ReadsAreTheWrites ==
  \A c \in Conns, e \in Ends :
    /\ Len(taken[<<c, e>>]) <= Len(written[<<c, Peer(e)>>])
    /\ \A i \in 1 .. Len(taken[<<c, e>>]) :
         taken[<<c, e>>][i] = Frame(written[<<c, Peer(e)>>][i])

\* A client never holds a descriptor but that of its current connection, in
\* whatever order it connects, fails to connect, reads, writes and closes.
ClientHoldsOneDescriptor ==
  \A c \in Conns : <<c, "client">> \in open => connfd["client"] = c

\* Between two calls that an end may go on after, a timeout among them, its
\* stream stands at the start of a frame: no call has left a part behind.
AtFrameStart ==
  \A e \in Ends : Ready(e) /\ wire[Now(e)] # <<>> => wire[Now(e)][1][2] = 1

\* Reads return the messages of the peer's Writes, whole and from the first;
\* between two calls the stream stands at the start of a frame; a client holds
\* no descriptor but that of its connection.
StreamsStayFramed ==
  SocketsTypeOK /\ ReadsAreTheWrites /\ AtFrameStart /\ ClientHoldsOneDescriptor

\* A Read with a timeout returns, although only the first byte is waited for
\* with poll(): a frame that has begun to arrive arrives as a whole or breaks,
\* unless its Write gave up half-way and the peer keeps the connection.
GaveUp(e) == Peer(e) \in spent /\ connfd[Peer(e)] = connfd[e]
TimedReadReturns == \A e \in Waits : op[e].kind = "poll" ~> op[e] = Idle \/ GaveUp(e)
=============================================================================
