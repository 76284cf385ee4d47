---------------------------- MODULE Conversation ----------------------------
(***************************************************************************)
(* The server between its peers: each session reads frames and posts them, *)
(* the logic system takes them one by one, and the callbacks call Send of  *)
(* the session that asked and, for a chat, of the one that is addressed.   *)
(*                                                                         *)
(* The parts are what their modules promise: FrameStream for the reader of *)
(* a session, OrderedService for the logic system, FifoChannel for what a  *)
(* session sends.  This module says how they are wired together.           *)
(***************************************************************************)
EXTENDS Integers, Sequences

CONSTANTS Sessions,
          HeadTotalLen, MaxLength, Streams,  (* as in FrameStream          *)
          Parts        (* pieces in which the kernel takes a message       *)

ASSUME ConversationAssumption ==
  /\ HeadTotalLen \in Nat \ {0}
  /\ Parts \in Nat \ {0}
  /\ \A s \in Streams : /\ s.size \in Nat
                        /\ s.id  \in [0 .. s.size -> Int]
                        /\ s.len \in [0 .. s.size -> Int]

VARIABLES
  coming,   (* the stream of each peer                                     *)
  pos,      (* where in it the first frame not handed over begins          *)
  handed,   (* the messages each session handed over                       *)
  ended,    (* the session has stopped reading                             *)
  posted,   (* the messages of all sessions, in the order of PostMsgToQue  *)
  passed,   (* how many of them are popped                                 *)
  called,   (* those given to a callback                                   *)
  calling,  (* a callback is under way, for the front message              *)
  sends,    (* the calls of Send that it has still to make                 *)
  accepted, (* the messages that each session has taken to send            *)
  wire,     (* the pieces of them given to the kernel                      *)
  broken,   (* the session writes nothing any more                         *)
  dead      (* the process is gone                                         *)

readerVars  == <<coming, pos, handed, ended>>
logicVars   == <<posted, passed, called, calling, sends>>
channelVars == <<accepted, wire, broken>>
peerVars == <<readerVars, logicVars, channelVars, dead>>

Reader(s) == INSTANCE FrameStream WITH
               stream <- coming[s], pos <- pos[s],
               delivered <- handed[s], ended <- ended[s]

(* const.h: the ids that have a callback, those whose callback sends       *)
(* nothing (logout, group chat), and the one that may forward the message. *)
Registered == 1001 .. 1009
Silent     == {1004, 1009}
Chats      == {1008}

(* The calls a session makes stand for those of its thread; the number of  *)
(* a message in its session is part of its kind.                           *)
RequestKinds == [id : Int, no : Nat]
Service == INSTANCE OrderedService WITH
             Producers <- Sessions, Kinds <- RequestKinds,
             Registered <- {k \in RequestKinds : k.id \in Registered},
             down <- dead

Channel(s) == INSTANCE FifoChannel WITH
                Pieces <- Parts, accepted <- Len(accepted[s]),
                wire <- wire[s], broken <- broken[s]

PeerInit ==
  /\ coming \in [Sessions -> Streams]
  /\ pos = [s \in Sessions |-> 0]
  /\ handed = [s \in Sessions |-> <<>>]
  /\ ended = [s \in Sessions |-> FALSE]
  /\ posted = <<>> /\ passed = 0 /\ called = <<>>
  /\ calling = FALSE /\ sends = <<>>
  /\ accepted = [s \in Sessions |-> <<>>]
  /\ wire = [s \in Sessions |-> <<>>]
  /\ broken = [s \in Sessions |-> FALSE]
  /\ dead = FALSE

-----------------------------------------------------------------------------
(* A session.                                                              *)

(* A mutated form: a message is dealt with before those that wait.         *)
PushedFirst(m) == SubSeq(posted, 1, passed) \o <<m>>
                    \o SubSeq(posted, passed + 1, Len(posted))

Pushed(m) == Append(posted, m)

(* The iteration of HandleRead that completes a frame posts it.            *)
HandleRead(s) ==
  /\ ~ended[s]
  /\ Reader(s)!Complete(pos[s])
  /\ Reader(s)!Valid(pos[s])
  /\ LET message == Reader(s)!Message(pos[s])
     IN /\ handed' = [handed EXCEPT ![s] = Append(@, message)]
        /\ posted' = Pushed([from |-> s,
                             kind |-> [id |-> message.id, no |-> Len(handed[s]) + 1]])
  /\ pos' = [pos EXCEPT ![s] = @ + HeadTotalLen + coming[s].len[@]]
  /\ UNCHANGED <<coming, ended, passed, called, calling, sends, channelVars, dead>>

StopsReading(s) ==
  /\ ~ended[s]
  /\ ended' = [ended EXCEPT ![s] = TRUE]
  /\ UNCHANGED <<coming, pos, handed, logicVars, channelVars, dead>>

WriteSome(s) ==
  /\ ~broken[s]
  /\ Channel(s)!NextPiece[1] <= Len(accepted[s])
  /\ wire' = [wire EXCEPT ![s] = Append(@, Channel(s)!NextPiece)]
  /\ UNCHANGED <<readerVars, logicVars, accepted, broken, dead>>

Breaks(s) ==
  /\ ~broken[s]
  /\ broken' = [broken EXCEPT ![s] = TRUE]
  /\ UNCHANGED <<readerVars, logicVars, accepted, wire, dead>>

-----------------------------------------------------------------------------
(* The logic system.                                                       *)

Foremost == posted[passed + 1]

(* The calls of Send of the callback for m: one to the session that asked, *)
(* and for a chat, when its addressee is online in a session that is in    *)
(* the map, one to that session first.                                     *)
Sends(m) ==
  LET reply == [to |-> m.from, what |-> "reply"]
      chat(s) == [to |-> s, what |-> "chat"]
  IN IF m.kind.id \in Silent THEN {<<>>}
     ELSE {<<reply>>} \cup IF m.kind.id \in Chats
                           THEN {<<chat(s), reply>> : s \in Sessions} ELSE {}

Begin ==
  /\ ~calling /\ passed < Len(posted)
  /\ Foremost.kind.id \in Registered
  /\ calling' = TRUE
  /\ sends' \in Sends(Foremost)
  /\ UNCHANGED <<readerVars, posted, passed, called, channelVars, dead>>

(* Send refuses a message when the queue of the session is full, and tells *)
(* nobody.                                                                 *)
SendNext ==
  /\ calling /\ sends # <<>>
  /\ LET x == Head(sends)
     IN \/ accepted' = [accepted EXCEPT ![x.to] =
                          Append(@, [from |-> Foremost.from, id |-> Foremost.kind.id,
                                     no |-> Foremost.kind.no, what |-> x.what])]
        \/ UNCHANGED accepted
  /\ sends' = Tail(sends)
  /\ UNCHANGED <<readerVars, posted, passed, called, calling, wire, broken, dead>>

Finish ==
  /\ calling /\ sends = <<>>
  /\ passed' = passed + 1
  /\ called' = Append(called, Foremost)
  /\ calling' = FALSE
  /\ UNCHANGED <<readerVars, posted, sends, channelVars, dead>>

SkipForemost ==
  /\ ~calling /\ passed < Len(posted)
  /\ Foremost.kind.id \notin Registered
  /\ passed' = passed + 1
  /\ UNCHANGED <<readerVars, posted, called, calling, sends, channelVars, dead>>

(* An exception leaves a callback, or the database wrapper ends it all.    *)
Dies == dead' = TRUE /\ UNCHANGED <<readerVars, logicVars, channelVars>>

PeerNext ==
  /\ ~dead
  /\ \/ \E s \in Sessions :
          HandleRead(s) \/ StopsReading(s) \/ WriteSome(s) \/ Breaks(s)
     \/ Begin \/ SendNext \/ Finish \/ SkipForemost
     \/ Dies

PeerSpec == PeerInit /\ [][PeerNext]_peerVars

-----------------------------------------------------------------------------
PeerTypeOK ==
  /\ passed \in 0 .. Len(posted)
  /\ calling \in BOOLEAN /\ dead \in BOOLEAN
  /\ calling => passed < Len(posted)
  /\ \A s \in Sessions :
       /\ pos[s] \in 0 .. coming[s].size
       /\ \A i \in 1 .. Len(wire[s]) : wire[s][i] \in (1 .. Len(accepted[s])) \X (1 .. Parts)

(* x is not after y: it answers an earlier request of the same peer, or it *)
(* is the chat that this request sent, and y the answer to it.  Of what    *)
(* two peers asked nothing is said.                                        *)
Before(x, y) ==
  x.from = y.from =>
    x.no < y.no \/ (x.no = y.no /\ x.what = "chat" /\ y.what = "reply")

(* The messages whose pieces are i and j on the wire of s.                 *)
OnWire(s, i) == accepted[s][wire[s][i][1]]

(* What a peer receives comes from frames that were handed over, with      *)
(* their ids: at most one answer to each of its own requests and one chat  *)
(* for each of another, and for each sender in the order of the requests.  *)
(* When it has an answer, all that it asked before is dealt with.          *)
ExchangeInOrder ==
  /\ PeerTypeOK
  /\ \A s \in Sessions : \A i \in 1 .. Len(wire[s]) :
       LET x == OnWire(s, i)
       IN /\ x.no \in 1 .. Len(handed[x.from]) /\ handed[x.from][x.no].id = x.id
          /\ x.what = "reply" => x.from = s
          /\ \A k \in 1 .. Len(posted) :
               posted[k].from = x.from /\ posted[k].kind.no < x.no => k <= passed
          /\ \A j \in 1 .. i - 1 :
               wire[s][j][1] # wire[s][i][1] => Before(OnWire(s, j), x)
=============================================================================
