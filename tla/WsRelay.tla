------------------------------- MODULE WsRelay -------------------------------
(***************************************************************************)
(* The relay between web pages and the server (front/websocket-server.js). *)
(*                                                                         *)
(* For each page that connects, the relay opens a TCP connection to the    *)
(* server, writes every message of the page to it, and sends every chunk   *)
(* the server's stream arrives in to the page.  It runs in one process, on *)
(* one event loop: each event is one action.  It handles the events        *)
(* 'connection' and 'message' of the WebSocket and 'data' and 'close' of   *)
(* the socket; 'close' of the WebSocket and 'error' of either have no      *)
(* handler, and an 'error' without one ends the process.                   *)
(*                                                                         *)
(* The messages of a page are numbered.  A frame of the server is its      *)
(* number, twice: the stream may be cut inside it.  Of the chunks a page   *)
(* receives their pieces are kept, not where each began and ended.         *)
(***************************************************************************)
EXTENDS Integers, Sequences, SequencesExt

CONSTANTS Pages,
          MaxMessages, (* bound: messages each page sends                  *)
          MaxFrames    (* bound: frames the server sends to each page      *)

ASSUME RelayAssumption ==
  MaxMessages \in [Pages -> Nat] /\ MaxFrames \in [Pages -> Nat]

VARIABLES
  relay,    (* the process: "up" or "down"                                 *)
  ws,       (* WebSocket of the page: "none", "open" or "closed"           *)
  tcp,      (* tcpClient: "none", "connecting", "open", "ended" (by the    *)
            (* server, not yet noticed) or "closed"                        *)
  sent,     (* messages the page has sent                                  *)
  arriving, (* messages on their way from the page                         *)
  buffered, (* messages tcpClient keeps until it is connected              *)
  upstream, (* messages the server's side of the connection has            *)
  frames,   (* frames the server has sent                                  *)
  stream,   (* pieces of frames the relay has not read                     *)
  shown     (* pieces of frames the page has received                      *)

relayVars == <<relay, ws, tcp, sent, arriving, buffered, upstream, frames,
               stream, shown>>

pageSide   == <<sent, arriving, buffered, upstream>>
serverSide == <<frames, stream, shown>>

RelayInit ==
  /\ relay = "up"
  /\ ws = [p \in Pages |-> "none"]
  /\ tcp = [p \in Pages |-> "none"]
  /\ sent = [p \in Pages |-> 0]
  /\ arriving = [p \in Pages |-> <<>>]
  /\ buffered = [p \in Pages |-> <<>>]
  /\ upstream = [p \in Pages |-> <<>>]
  /\ frames = [p \in Pages |-> 0]
  /\ stream = [p \in Pages |-> <<>>]
  /\ shown = [p \in Pages |-> <<>>]

-----------------------------------------------------------------------------
(* The page and the server.                                                *)

PageSends(p) ==
  /\ ws[p] = "open"
  /\ sent[p] < MaxMessages[p]
  /\ sent' = [sent EXCEPT ![p] = @ + 1]
  /\ arriving' = [arriving EXCEPT ![p] = Append(@, sent[p] + 1)]
  /\ UNCHANGED <<relay, ws, tcp, buffered, upstream, serverSide>>

(* With the page, the last of its messages may be lost.  No handler of the *)
(* relay runs: tcpClient stays as it is.                                   *)
PageLeaves(p) ==
  /\ ws[p] = "open"
  /\ ws' = [ws EXCEPT ![p] = "closed"]
  /\ \E n \in 0 .. Len(arriving[p]) :
       arriving' = [arriving EXCEPT ![p] = SubSeq(@, 1, n)]
  /\ UNCHANGED <<relay, tcp, sent, buffered, upstream, serverSide>>

ServerSends(p) ==
  /\ tcp[p] = "open"
  /\ frames[p] < MaxFrames[p]
  /\ frames' = [frames EXCEPT ![p] = @ + 1]
  /\ stream' = [stream EXCEPT ![p] = @ \o <<frames[p] + 1, frames[p] + 1>>]
  /\ UNCHANGED <<relay, ws, tcp, pageSide, shown>>

ServerCloses(p) ==
  /\ tcp[p] = "open"
  /\ tcp' = [tcp EXCEPT ![p] = "ended"]
  /\ UNCHANGED <<relay, ws, pageSide, serverSide>>

-----------------------------------------------------------------------------
(* The handlers of the relay.                                              *)

Connection(p) ==
  /\ relay = "up"
  /\ ws[p] = "none"
  /\ ws' = [ws EXCEPT ![p] = "open"]
  /\ tcp' = [tcp EXCEPT ![p] = "connecting"]
  /\ UNCHANGED <<relay, pageSide, serverSide>>

ForgetBuffered(p) == UNCHANGED upstream

(* What was written before is sent first.                                  *)
FlushBuffered(p) ==
  upstream' = [upstream EXCEPT ![p] = @ \o buffered[p]]

Connected(p) ==
  /\ relay = "up"
  /\ tcp[p] = "connecting"
  /\ tcp' = [tcp EXCEPT ![p] = "open"]
  /\ FlushBuffered(p)
  /\ buffered' = [buffered EXCEPT ![p] = <<>>]
  /\ UNCHANGED <<relay, ws, sent, arriving, serverSide>>

(* tcpClient.write of one message: kept while connecting, lost when closed.*)
Incoming(p) ==
  /\ relay = "up"
  /\ arriving[p] # <<>>
  /\ LET m == Head(arriving[p])
     IN \/ /\ tcp[p] = "connecting"
           /\ buffered' = [buffered EXCEPT ![p] = Append(@, m)]
           /\ UNCHANGED upstream
        \/ /\ tcp[p] = "open"
           /\ upstream' = [upstream EXCEPT ![p] = Append(@, m)]
           /\ UNCHANGED buffered
        \/ /\ tcp[p] \in {"ended", "closed"}
           /\ UNCHANGED <<buffered, upstream>>
  /\ arriving' = [arriving EXCEPT ![p] = Tail(@)]
  /\ UNCHANGED <<relay, ws, tcp, sent, serverSide>>

SendFirst(p, chunk) == shown' = [shown EXCEPT ![p] = chunk \o @]

SendBeforeUpstream(p, chunk) ==
  shown' = IF upstream[p] = <<>> THEN [shown EXCEPT ![p] = @ \o chunk]
                                 ELSE shown

(* ws.send drops what is sent on a WebSocket that is no longer open.       *)
WsSend(p, chunk) ==
  shown' = IF ws[p] = "open" THEN [shown EXCEPT ![p] = @ \o chunk]
                             ELSE shown

(* One 'data' event: any first part of what has arrived is one chunk.      *)
Data(p) ==
  /\ relay = "up"
  /\ tcp[p] \in {"open", "ended"}
  /\ \E n \in 1 .. Len(stream[p]) :
       /\ WsSend(p, SubSeq(stream[p], 1, n))
       /\ stream' = [stream EXCEPT ![p] = SubSeq(@, n + 1, Len(@))]
  /\ UNCHANGED <<relay, ws, tcp, pageSide, frames>>

LeaveWsOpen(p) == UNCHANGED ws

WsClose(p) == ws' = [ws EXCEPT ![p] = "closed"]

(* The server has closed, and what it had sent has been read.              *)
TcpClose(p) ==
  /\ relay = "up"
  /\ tcp[p] = "ended"
  /\ stream[p] = <<>>
  /\ tcp' = [tcp EXCEPT ![p] = "closed"]
  /\ WsClose(p)
  /\ UNCHANGED <<relay, pageSide, serverSide>>

(* A connection that is refused or reset raises 'error', which ends the    *)
(* process, and with it the connections of every page.                     *)
TcpError(p) ==
  /\ relay = "up"
  /\ tcp[p] \in {"connecting", "open", "ended"}
  /\ relay' = "down"
  /\ ws' = [q \in Pages |-> IF ws[q] = "open" THEN "closed" ELSE ws[q]]
  /\ tcp' = [q \in Pages |-> IF tcp[q] = "none" THEN "none" ELSE "closed"]
  /\ UNCHANGED <<pageSide, serverSide>>

RelayEvents(p) == Connected(p) \/ Incoming(p) \/ Data(p) \/ TcpClose(p)

RelayNext ==
  \E p \in Pages :
    \/ PageSends(p)
    \/ PageLeaves(p)
    \/ ServerSends(p)
    \/ ServerCloses(p)
    \/ Connection(p)
    \/ Connected(p)
    \/ Incoming(p)
    \/ Data(p)
    \/ TcpClose(p)
    \/ TcpError(p)

(* The event loop serves every event; pages, the server's closing and      *)
(* errors are not fair.                                                    *)
RelayFairness == \A p \in Pages : WF_relayVars(RelayEvents(p))

RelaySpec == RelayInit /\ [][RelayNext]_relayVars /\ RelayFairness

-----------------------------------------------------------------------------
(* Every variable keeps to its range; a socket exists from the moment its  *)
(* page connects.                                                          *)
RelayTypeOK ==
  /\ relay \in {"up", "down"}
  /\ ws \in [Pages -> {"none", "open", "closed"}]
  /\ tcp \in [Pages -> {"none", "connecting", "open", "ended",
                       "closed"}]
  /\ DOMAIN sent = Pages /\ DOMAIN frames = Pages
  /\ \A p \in Pages :
       /\ sent[p] \in 0 .. MaxMessages[p]
       /\ frames[p] \in 0 .. MaxFrames[p]
       /\ arriving[p] \in Seq(1 .. sent[p])
       /\ buffered[p] \in Seq(1 .. sent[p])
       /\ upstream[p] \in Seq(1 .. sent[p])
       /\ stream[p] \in Seq(1 .. frames[p])
       /\ shown[p] \in Seq(1 .. frames[p])
       /\ ws[p] = "none" <=> tcp[p] = "none"

(* What the server receives from a page is what the page sent, in order    *)
(* and from the first message on, although the page may send before the    *)
(* connection to the server stands (websocket-server.js:14).               *)
UpstreamInOrder ==
  \A p \in Pages :
    /\ IsPrefix(upstream[p], [i \in 1 .. sent[p] |-> i])
    /\ ws[p] = "open" /\ tcp[p] \in {"connecting", "open"} =>
         upstream[p] \o buffered[p] \o arriving[p] = [i \in 1 .. sent[p] |-> i]

(* The first n frames of the server, piece by piece.                       *)
Pieces(n) == [i \in 1 .. 2 * n |-> (i + 1) \div 2]

(* The chunks a page received, put together, are the beginning of the      *)
(* server's stream: what the relay cuts, or joins, is not lost, repeated   *)
(* or reordered, even when page, server or relay end in between            *)
(* (websocket-server.js:21).                                               *)
ShownInOrder == \A p \in Pages : IsPrefix(shown[p], Pieces(frames[p]))

(* A page whose server has closed is closed too, after it was shown what   *)
(* had been sent: none is left with a WebSocket that leads nowhere         *)
(* (websocket-server.js:25).                                               *)
CloseReachesPage ==
  \A p \in Pages : tcp[p] = "ended" ~> ws[p] = "closed"

(* Every frame the server sends to a page that stays is shown in the end.  *)
AllShown ==
  \A p \in Pages : \A n \in 1 .. MaxFrames[p] :
    frames[p] >= n ~> \/ ws[p] = "closed"
                      \/ Len(shown[p]) >= 2 * n
=============================================================================
