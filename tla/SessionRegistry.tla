-------------------------- MODULE SessionRegistry --------------------------
(***************************************************************************)
(* The life of the sessions: CServer accepts them, keeps them in its map   *)
(* _sessions and removes them; three kinds of threads work on the map      *)
(* without a common lock.                                                  *)
(*                                                                         *)
(*   - the main thread runs HandleAccept and StartAccept;                  *)
(*   - the I/O thread of a session runs its HandleRead and HandleWrite,    *)
(*     which call Close and CServer::ClearSession;                         *)
(*   - the worker runs the callbacks, which Send to the session of the     *)
(*     message and, in a one-to-one chat, to the session they find in the  *)
(*     map (CServer::GetSession: find, then operator[]).                   *)
(*                                                                         *)
(* A CSession lives as long as a shared_ptr holds it: the map, the handler *)
(* of an outstanding operation, a handler that runs, a node of the logic   *)
(* queue, or a local of the worker.  std::map itself is taken to stay      *)
(* intact under concurrent calls; the steps of the callers interleave.     *)
(***************************************************************************)
EXTENDS Integers, Sequences

CONSTANTS Sessions,   (* the CSession objects, each used for one connection*)
          MaxMessages (* bound: messages in the whole run                  *)

ASSUME SessionRegistryAssumption == MaxMessages \in Nat

VARIABLES
  accept,     (* where the main thread is: accepting, started, inserted    *)
  fresh,      (* the session async_accept waits for; {} when there is none *)
  made,       (* sessions constructed so far                               *)
  inserted,   (* sessions HandleAccept has inserted                        *)
  map,        (* _sessions: "absent", "present", or "null" for an entry    *)
              (* that operator[] made                                      *)
  reading,    (* an async_read_some is outstanding                         *)
  io,         (* the handler of the session that runs: idle, close, clear  *)
  closed,     (* Close was called                                          *)
  unsent,     (* size of _send_que                                         *)
  writing,    (* an async_write is outstanding                             *)
  que,        (* LogicSystem::_msg_que: the sessions of the messages       *)
  worker,     (* where the callback is                                     *)
  target,     (* the session whose uuid GetSession looks for               *)
  to_session, (* the local of oneChatCallBack: {} for null                 *)
  online,     (* sessions whose uuid a login has stored in the database    *)
  messages,   (* messages received so far                                  *)
  destructed  (* sessions no shared_ptr holds any more                     *)

acceptVars == <<accept, fresh, made, inserted>>
ioVars     == <<reading, io, closed>>
sendVars   == <<unsent, writing>>
workerVars == <<worker, target, to_session, online>>
vars == <<accept, fresh, made, inserted, map, reading, io, closed,
          unsent, writing, que, worker, target, to_session, online,
          messages, destructed>>

Nobody == "nobody"

-----------------------------------------------------------------------------
(* Who holds a session.                                                    *)

NotBound(s) == FALSE

(* std::bind(..., SharedSelf()) of an outstanding read or write.           *)
BoundToHandler(s) == s \in reading \/ s \in writing

Held(s) == \/ s \in fresh
           \/ map[s] = "present"
           \/ BoundToHandler(s)
           \/ io[s] # "idle"
           \/ \E i \in 1 .. Len(que) : que[i] = s
           \/ s \in to_session

(* The last shared_ptr is gone after this step.                            *)
Destruct == destructed' = destructed \cup {s \in made : ~Held(s)'}

-----------------------------------------------------------------------------
(* CServer on the main thread.                                             *)

(* StartAccept: a new session, on the next io_service of the pool.         *)
NewSession == \E s \in Sessions \ made : fresh' = {s} /\ made' = made \cup {s}

Init ==
  /\ accept = "accepting"
  /\ \E s \in Sessions : fresh = {s} /\ made = {s}
  /\ inserted = {}
  /\ map = [s \in Sessions |-> "absent"]
  /\ reading = {}
  /\ io = [s \in Sessions |-> "idle"]
  /\ closed = {}
  /\ unsent = [s \in Sessions |-> 0]
  /\ writing = {}
  /\ que = <<>>
  /\ worker = "idle"
  /\ target = Nobody
  /\ to_session = {}
  /\ online = {}
  /\ messages = 0
  /\ destructed = {}

(* HandleAccept without error: Start comes first.                          *)
AcceptStart ==
  /\ accept = "accepting"
  /\ fresh # {}
  /\ reading' = reading \cup fresh
  /\ accept' = "started"
  /\ UNCHANGED <<fresh, made, inserted, map, io, closed, sendVars,
                 que, workerVars, messages>>
  /\ Destruct

AcceptInsert ==
  /\ accept = "started"
  /\ map' = [s \in Sessions |-> IF s \in fresh THEN "present" ELSE map[s]]
  /\ inserted' = inserted \cup fresh
  /\ accept' = "inserted"
  /\ UNCHANGED <<fresh, made, ioVars, sendVars, que, workerVars, messages>>
  /\ Destruct

(* The end of HandleAccept: accept the next connection.                    *)
StartAccept ==
  /\ accept = "inserted"
  /\ IF made = Sessions THEN fresh' = {} /\ UNCHANGED made ELSE NewSession
  /\ accept' = "accepting"
  /\ UNCHANGED <<inserted, map, ioVars, sendVars, que, workerVars, messages>>
  /\ Destruct

(* HandleAccept with an error: the session is dropped.                     *)
AcceptError ==
  /\ accept = "accepting"
  /\ fresh # {}
  /\ IF made = Sessions THEN fresh' = {} /\ UNCHANGED made ELSE NewSession
  /\ UNCHANGED <<accept, inserted, map, ioVars, sendVars, que, workerVars, messages>>
  /\ Destruct

Accept == AcceptStart \/ AcceptInsert \/ StartAccept \/ AcceptError

-----------------------------------------------------------------------------
(* The I/O thread of session s.                                            *)

(* A chunk that completes a message: post it and read again.               *)
ReadMessage(s) ==
  /\ io[s] = "idle"
  /\ s \in reading
  /\ messages < MaxMessages
  /\ messages' = messages + 1
  /\ que' = Append(que, s)
  /\ UNCHANGED <<acceptVars, map, ioVars, sendVars, workerVars>>
  /\ Destruct

ReadOn(s) == UNCHANGED reading

(* The handler returns without another async_read_some.                    *)
ReadNoMore(s) == reading' = reading \ {s}

(* An illegal header: ClearSession, and return without another read.       *)
ReadReject(s) ==
  /\ io[s] = "idle"
  /\ s \in reading
  /\ map' = [map EXCEPT ![s] = "absent"]
  /\ ReadNoMore(s)
  /\ UNCHANGED <<acceptVars, io, closed, sendVars, que, workerVars, messages>>
  /\ Destruct

(* A header with a length below -1: the exception ends the reading.        *)
ReadThrow(s) ==
  /\ io[s] = "idle"
  /\ s \in reading
  /\ ReadNoMore(s)
  /\ UNCHANGED <<acceptVars, map, io, closed, sendVars, que, workerVars,
                 messages>>
  /\ Destruct

(* The peer is gone, or Close has cancelled the read.                      *)
ReadError(s) ==
  /\ io[s] = "idle"
  /\ s \in reading
  /\ ReadNoMore(s)
  /\ io' = [io EXCEPT ![s] = "close"]
  /\ UNCHANGED <<acceptVars, map, closed, sendVars, que, workerVars, messages>>
  /\ Destruct

WriteOk(s) ==
  /\ io[s] = "idle"
  /\ s \in writing
  /\ unsent' = [unsent EXCEPT ![s] = @ - 1]
  /\ writing' = IF unsent'[s] > 0 THEN writing ELSE writing \ {s}
  /\ UNCHANGED <<acceptVars, map, ioVars, que, workerVars, messages>>
  /\ Destruct

WriteError(s) ==
  /\ io[s] = "idle"
  /\ s \in writing
  /\ writing' = writing \ {s}
  /\ io' = [io EXCEPT ![s] = "close"]
  /\ UNCHANGED <<acceptVars, map, reading, closed, unsent, que, workerVars,
                 messages>>
  /\ Destruct

(* Close: an outstanding read or write will complete with an error.        *)
Close(s) ==
  /\ io[s] = "close"
  /\ closed' = closed \cup {s}
  /\ io' = [io EXCEPT ![s] = "clear"]
  /\ UNCHANGED <<acceptVars, map, reading, sendVars, que, workerVars, messages>>
  /\ Destruct

Erase(s) == map' = [map EXCEPT ![s] = "absent"]

ClearSession(s) ==
  /\ io[s] = "clear"
  /\ Erase(s)
  /\ io' = [io EXCEPT ![s] = "idle"]
  /\ UNCHANGED <<acceptVars, reading, closed, sendVars, que, workerVars,
                 messages>>
  /\ Destruct

IO(s) == \/ ReadMessage(s) \/ ReadReject(s) \/ ReadThrow(s) \/ ReadError(s)
         \/ WriteOk(s) \/ WriteError(s) \/ Close(s) \/ ClearSession(s)

-----------------------------------------------------------------------------
(* The worker: the front message stays in the queue until its callback is  *)
(* done.                                                                   *)

Caller == Head(que)

(* Send: only the push on an empty queue starts a write.                   *)
Send(s) ==
  /\ unsent' = [unsent EXCEPT ![s] = @ + 1]
  /\ writing' = IF unsent[s] = 0 THEN writing \cup {s} ELSE writing

(* A one-to-one chat with a user who is online: GetSession's find.         *)
Find ==
  /\ worker = "idle"
  /\ que # <<>>
  /\ \E t \in online :
       /\ target' = t
       /\ worker' = IF map[t] = "absent" THEN "forwarded" ELSE "index"
  /\ UNCHANGED <<acceptVars, map, ioVars, sendVars, que, to_session, online, messages>>
  /\ Destruct

(* GetSession's operator[]: it makes an entry where there is none.         *)
Index ==
  /\ worker = "index"
  /\ to_session' = IF map[target] = "present" THEN {target} ELSE {}
  /\ map' = [map EXCEPT ![target] = IF @ = "absent" THEN "null" ELSE @]
  /\ worker' = "forward"
  /\ UNCHANGED <<acceptVars, ioVars, sendVars, que, target, online, messages>>
  /\ Destruct

KeepTarget == UNCHANGED to_session

(* The local of the inner block is gone at its end.                        *)
DropTarget == to_session' = {}

Forward ==
  /\ worker = "forward"
  /\ IF to_session # {} THEN Send(target) ELSE UNCHANGED sendVars
  /\ DropTarget
  /\ worker' = "forwarded"
  /\ UNCHANGED <<acceptVars, map, ioVars, que, target, online, messages>>
  /\ Destruct

(* The end of a callback, and pop: the reply to a chat or to any other     *)
(* request, where a login stores the uuid of the session; a logout, a      *)
(* group chat and a message with an unknown number are not answered.       *)
Reply ==
  /\ que # <<>>
  /\ \/ worker = "forwarded" /\ UNCHANGED online /\ Send(Caller)
     \/ worker = "idle" /\ online' \in {online, online \cup {Caller}} /\ Send(Caller)
     \/ worker = "idle" /\ UNCHANGED online /\ UNCHANGED sendVars
  /\ que' = Tail(que)
  /\ worker' = "idle"
  /\ target' = Nobody
  /\ UNCHANGED <<acceptVars, map, ioVars, to_session, messages>>
  /\ Destruct

Callback == Find \/ Index \/ Forward \/ Reply

Next == \/ Accept
        \/ \E s \in Sessions : IO(s)
        \/ Callback

Spec == Init /\ [][Next]_vars

(* All threads run; a closed socket completes what is outstanding on it    *)
(* with an error.  No peer has to send, to read or to go away.             *)
Fairness ==
  /\ WF_vars(AcceptInsert \/ StartAccept)
  /\ WF_vars(Callback)
  /\ \A s \in Sessions :
       /\ WF_vars(Close(s) \/ ClearSession(s))
       /\ WF_vars(s \in closed /\ ReadError(s))
       /\ WF_vars(s \in closed /\ WriteError(s))

LiveSpec == Spec /\ Fairness

-----------------------------------------------------------------------------
(* Every variable has a value of its type.                                 *)
TypeOK ==
  /\ accept \in {"accepting", "started", "inserted"}
  /\ made \subseteq Sessions /\ fresh \subseteq made
  /\ inserted \subseteq made
  /\ map \in [Sessions -> {"absent", "present", "null"}]
  /\ reading \subseteq made
  /\ io \in [Sessions -> {"idle", "close", "clear"}]
  /\ closed \subseteq made
  /\ unsent \in [Sessions -> Nat]
  /\ writing \subseteq made
  /\ que \in Seq(made)
  /\ worker \in {"idle", "index", "forward", "forwarded"}
  /\ target \in made \cup {Nobody}
  /\ to_session \subseteq made
  /\ online \subseteq made
  /\ messages \in 0 .. MaxMessages
  /\ destructed \subseteq made

(* Whoever works on a session finds it alive: a handler that will run or   *)
(* runs, the callback of its message, and a callback that forwards to it   *)
(* (SharedSelf in every bind of CSession.cpp, shared_from_this in every    *)
(* LogicNode).                                                             *)
UsedIsAlive ==
  \A s \in destructed :
    /\ s \notin reading \cup writing \cup to_session
    /\ io[s] = "idle"
    /\ que # <<>> => Caller # s

(* From its insertion on a session that reads is registered, so that       *)
(* others can chat with it, until an error of its own ends it: no other    *)
(* session's end and no lookup takes it out of the map.                    *)
RegisteredWhileReading ==
  \A s \in inserted \cap reading :
    s \in closed \/ io[s] # "idle" \/ map[s] = "present"

(* A session that was removed after its error goes away, whatever is still *)
(* in the queues for it: no reply and no late write keeps it forever.      *)
RemovedGoesAway ==
  \A s \in Sessions :
    (s \in closed /\ s \in inserted /\ map[s] # "present") ~> s \in destructed
=============================================================================
