------------------------------- MODULE MCEdges -------------------------------
(***************************************************************************)
(* The two ways into the server and what its peers see of it, for TLC.     *)
(* The terminal client, the relay and the conversation share no state, so  *)
(* one run checks them side by side: a behaviour is one of the client, one *)
(* of the relay or one of the server between its peers.                    *)
(***************************************************************************)
EXTENDS ClientSession, WsRelay, Conversation

CONSTANTS a, b   (* two pages, and two sessions of the server              *)

VARIABLE edge    (* which of the three this behaviour is about             *)

MCPages    == {a, b}
MCMessages == [p \in {a, b} |-> IF p = a THEN 2 ELSE 1]
MCFrames   == [p \in {a, b} |-> IF p = a THEN 2 ELSE 0]

MCSessions == {a, b}

(* A stream of frames without bodies, headers of one byte: its ids.        *)
Bodiless(ids) ==
  LET n == Len(ids)
  IN [size |-> n,
      id   |-> [i \in 0 .. n |-> IF i < n THEN ids[i + 1] ELSE 0],
      len  |-> [i \in 0 .. n |-> 0]]

(* Hello 1001, logout 1004, onechat 1008 and 1010, which has no callback.  *)
Chatty == Bodiless(<<1008, 1001>>)
Quiet  == Bodiless(<<1010, 1008>>)
MCStreams == {Chatty, Quiet, Bodiless(<<1008>>), Bodiless(<<1004>>)}

(* Two sessions that chat, or one that says nothing to be answered.        *)
MCComing == {[s \in {a, b} |-> IF s = a THEN Chatty ELSE Bodiless(<<1008>>)],
             [s \in {a, b} |-> IF s = a THEN Quiet ELSE Bodiless(<<1004>>)]}

vars == <<edge, clientVars, relayVars, peerVars>>

Init ==
  /\ edge \in {"client", "relay", "peers"}
  /\ ClientInit
  /\ RelayInit
  /\ PeerInit
  /\ coming \in MCComing

Next ==
  \/ edge = "client" /\ ClientNext /\ UNCHANGED <<edge, relayVars, peerVars>>
  \/ edge = "relay" /\ RelayNext /\ UNCHANGED <<edge, clientVars, peerVars>>
  \/ edge = "peers" /\ PeerNext /\ UNCHANGED <<edge, clientVars, relayVars>>

Spec ==
  /\ Init /\ [][Next]_vars
  /\ WF_clientVars(edge = "client" /\ ClientMain)
  /\ WF_clientVars(edge = "client" /\ ClientReader)
  /\ WF_clientVars(edge = "client" /\ ClientServer)
  /\ \A p \in Pages : WF_relayVars(edge = "relay" /\ RelayEvents(p))

(* The user reads the answers to the operations chosen, each from the      *)
(* callback that was meant, in the order they were chosen, though nothing  *)
(* in an answer names its request; and the client keeps to its ranges.     *)
ClientInOrder == ClientTypeOK /\ AnswersInOrder

(* What a page writes reaches the server in order and from the first       *)
(* message on, and the chunks it is shown put together are the stream of   *)
(* the server, even when one of the three ends in between; and the relay   *)
(* keeps to its ranges.                                                    *)
RelayedInOrder == RelayTypeOK /\ UpstreamInOrder /\ ShownInOrder

(* What is sent arrives: the answer to a request is printed unless the     *)
(* connection ends, every frame of the server is shown to a page that      *)
(* stays, and a page whose server has closed is closed after that.         *)
ArrivesAtLast == AnswersPrinted /\ AllShown /\ CloseReachesPage
=============================================================================
