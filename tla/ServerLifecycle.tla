-------------------------- MODULE ServerLifecycle --------------------------
(***************************************************************************)
(* From the start of main to the end of the process: the pool of           *)
(* io_services and its threads, the server that lives on main's stack, the *)
(* logic system that the first message of any I/O thread constructs, the   *)
(* signal that stops it all, and the destruction of what is left.          *)
(*                                                                         *)
(* Handlers of a session run on the thread of the io_service its socket    *)
(* was made with, and use the server (_server->ClearSession); the worker   *)
(* of the logic system runs callbacks, of which a chat uses the server     *)
(* too (GetServer()->GetSession).                                          *)
(***************************************************************************)
EXTENDS Integers

CONSTANTS PoolSize,   (* hardware_concurrency() on this machine            *)
          MaxAccepts, (* bound: calls of GetIOService                      *)
          MaxPosts    (* bound: messages posted                            *)

(* A pool of 0 (hardware_concurrency() does not know) has no io_service to *)
(* return: GetIOService would index an empty vector.                       *)
ASSUME PoolAssumption == PoolSize \in Nat \ {0}

Services == 0 .. PoolSize - 1

VARIABLES
  main,     (* where the main thread is: construct, run, stop, leave, exit *)
            (* and in the end done or terminated                           *)
  server,   (* the local CServer: none, alive, gone                        *)
  next,     (* _nextIOService                                              *)
  accepting,(* the io_service of the session under accept; -1 for none     *)
  handed,   (* how often each io_service was handed out                    *)
  sessions, (* sessions started on each io_service                         *)
  stopped,  (* Stop has stopped the io_services below this one             *)
  joined,   (* Stop has joined the threads below this one                  *)
  running,  (* the I/O threads that are in run()                           *)
  busy,     (* the handler of each I/O thread: no, handler, once, posting  *)
  once,     (* s_flag of Singleton<LogicSystem>: unset, running, done      *)
  created,  (* LogicSystems constructed                                    *)
  posts,    (* messages posted so far                                      *)
  que,      (* size of _msg_que                                            *)
  worker,   (* the worker: none, idle, plain or chat in a callback, exited *)
  b_stop,   (* _b_stop of the logic system                                 *)
  pool      (* the pool: alive or destroyed                                *)

mainVars == <<main, server>>
robin    == <<next, accepting, handed, sessions>>
stopVars == <<stopped, joined>>
ioVars   == <<running, busy>>
logic    == <<once, created, posts, que, worker, b_stop>>
vars == <<main, server, next, accepting, handed, sessions, stopped, joined, running,
          busy, once, created, posts, que, worker, b_stop, pool>>

Init ==
  /\ main = "construct" /\ server = "none"
  /\ next = 0 /\ accepting = -1
  /\ handed = [i \in Services |-> 0]
  /\ sessions = [i \in Services |-> 0]
  /\ stopped = 0 /\ joined = 0
  /\ running = Services
  /\ busy = [i \in Services |-> "no"]
  /\ once = "unset" /\ created = 0 /\ posts = 0 /\ que = 0
  /\ worker = "none" /\ b_stop = FALSE
  /\ pool = "alive"

Running == main \notin {"done", "terminated"}

-----------------------------------------------------------------------------
(* The main thread.                                                        *)

WrapToOne == next' = IF next + 1 = PoolSize THEN 1 % PoolSize ELSE next + 1

Advance == next' = IF next + 1 = PoolSize THEN 0 ELSE next + 1

GetIOService ==
  /\ accepting' = next
  /\ handed' = [handed EXCEPT ![next] = @ + 1]
  /\ Advance

(* The constructor of CServer ends with StartAccept.                       *)
ConstructServer ==
  /\ main = "construct"
  /\ main' = "run" /\ server' = "alive"
  /\ GetIOService
  /\ UNCHANGED <<sessions, stopVars, ioVars, logic, pool>>

(* The port is in use: main's catch, and then the end of main.             *)
ConstructorThrows ==
  /\ main = "construct"
  /\ main' = "exit"
  /\ UNCHANGED <<server, robin, stopVars, ioVars, logic, pool>>

Accepts == handed[accepting] < MaxAccepts

(* HandleAccept: start the session, or drop it after an error; either way  *)
(* accept the next.                                                        *)
HandleAccept ==
  /\ main = "run"
  /\ Accepts
  /\ sessions' \in {sessions, [sessions EXCEPT ![accepting] = @ + 1]}
  /\ GetIOService
  /\ UNCHANGED <<mainVars, stopVars, ioVars, logic, pool>>

(* SIGINT or SIGTERM: the handler stops main's io_service and the pool.    *)
Signal ==
  /\ main = "run"
  /\ main' = "stop"
  /\ UNCHANGED <<server, robin, stopVars, ioVars, logic, pool>>

StopService ==
  /\ main = "stop"
  /\ stopped < PoolSize
  /\ stopped' = stopped + 1
  /\ UNCHANGED <<mainVars, robin, joined, ioVars, logic, pool>>

NoJoin == stopped = PoolSize

(* Threads are joined after all services have been stopped.                *)
Joinable == stopped = PoolSize /\ joined \notin running

JoinThread ==
  /\ main = "stop"
  /\ joined < PoolSize
  /\ Joinable
  /\ joined' = joined + 1
  /\ UNCHANGED <<mainVars, robin, stopped, ioVars, logic, pool>>

(* The signal handler returns, and so does io_service.run().               *)
RunReturns ==
  /\ main = "stop"
  /\ joined = PoolSize
  /\ main' = "leave"
  /\ UNCHANGED <<server, robin, stopVars, ioVars, logic, pool>>

(* The end of the try block.                                               *)
DestroyServer ==
  /\ main = "leave"
  /\ main' = "exit" /\ server' = "gone"
  /\ UNCHANGED <<robin, stopVars, ioVars, logic, pool>>

(* The static _instance of the pool; destroying a joinable thread ends the *)
(* process.                                                                *)
DestroyPool ==
  /\ main = "exit"
  /\ pool = "alive"
  /\ pool' = "destroyed"
  /\ main' = IF joined = PoolSize THEN main ELSE "terminated"
  /\ UNCHANGED <<server, robin, stopVars, ioVars, logic>>

(* The static _instance of the logic system: before or after the pool's,   *)
(* the order is unspecified.                                               *)
StopLogic ==
  /\ main = "exit"
  /\ worker # "none"
  /\ ~b_stop
  /\ b_stop' = TRUE
  /\ UNCHANGED <<mainVars, robin, stopVars, ioVars, once, created, posts, que,
                 worker, pool>>

End ==
  /\ main = "exit"
  /\ pool = "destroyed"
  /\ worker \in {"none", "exited"}
  /\ main' = "done"
  /\ UNCHANGED <<server, robin, stopVars, ioVars, logic, pool>>

-----------------------------------------------------------------------------
(* I/O thread i.                                                           *)

At(i, b) == busy' = [busy EXCEPT ![i] = b]

Handle(i) ==
  /\ Running
  /\ i \in running
  /\ stopped <= i
  /\ sessions[i] > 0
  /\ busy[i] = "no"
  /\ At(i, "handler")
  /\ UNCHANGED <<mainVars, robin, stopVars, running, logic, pool>>

HandlerReturns(i) ==
  /\ Running
  /\ busy[i] = "handler"
  /\ At(i, "no")
  /\ UNCHANGED <<mainVars, robin, stopVars, running, logic, pool>>

NotDone == once # "done"

OnceUnset == once = "unset"

(* A complete message: GetInstance, where call_once lets one thread in and *)
(* keeps the others waiting.                                               *)
GetInstance(i) ==
  /\ Running
  /\ busy[i] = "handler"
  /\ posts < MaxPosts
  /\ \/ OnceUnset /\ once' = "running" /\ At(i, "once")
     \/ once = "done" /\ At(i, "posting") /\ UNCHANGED once
  /\ UNCHANGED <<mainVars, robin, stopVars, running, created, posts, que, worker,
                 b_stop, pool>>

Construct(i) ==
  /\ Running
  /\ busy[i] = "once"
  /\ once' = "done"
  /\ created' = created + 1
  /\ worker' = "idle"
  /\ At(i, "posting")
  /\ UNCHANGED <<mainVars, robin, stopVars, running, posts, que, b_stop, pool>>

(* PostMsgToQue: the worker keeps the mutex through a callback.            *)
Post(i) ==
  /\ Running
  /\ busy[i] = "posting"
  /\ worker = "idle"
  /\ que' = que + 1
  /\ posts' = posts + 1
  /\ At(i, "handler")
  /\ UNCHANGED <<mainVars, robin, stopVars, running, once, created, worker, b_stop,
                 pool>>

ResetOnly(i) == i < stopped /\ sessions[i] = 0

(* stop() makes run() return; work.reset() alone would not, as long as a   *)
(* session has something outstanding.                                      *)
MayReturn(i) == i < stopped

ThreadExits(i) ==
  /\ Running
  /\ i \in running
  /\ busy[i] = "no"
  /\ MayReturn(i)
  /\ running' = running \ {i}
  /\ UNCHANGED <<mainVars, robin, stopVars, busy, logic, pool>>

IO(i) == \/ Handle(i) \/ HandlerReturns(i) \/ GetInstance(i) \/ Construct(i)
         \/ Post(i) \/ ThreadExits(i)

-----------------------------------------------------------------------------
(* The worker.                                                             *)

BeginCallback ==
  /\ Running
  /\ worker = "idle"
  /\ que > 0
  /\ worker' \in {"plain", "chat"}
  /\ UNCHANGED <<mainVars, robin, stopVars, ioVars, once, created, posts, que, b_stop,
                 pool>>

EndCallback ==
  /\ Running
  /\ worker \in {"plain", "chat"}
  /\ que' = que - 1
  /\ worker' = "idle"
  /\ UNCHANGED <<mainVars, robin, stopVars, ioVars, once, created, posts, b_stop, pool>>

(* The queue is drained, the destructor joins.                             *)
WorkerExits ==
  /\ Running
  /\ worker = "idle"
  /\ b_stop /\ que = 0
  /\ worker' = "exited"
  /\ UNCHANGED <<mainVars, robin, stopVars, ioVars, once, created, posts, que, b_stop,
                 pool>>

Main == \/ ConstructServer \/ ConstructorThrows \/ HandleAccept \/ Signal
        \/ StopService \/ JoinThread \/ RunReturns \/ DestroyServer
        \/ DestroyPool \/ StopLogic \/ End

Worker == BeginCallback \/ EndCallback \/ WorkerExits

Next == Main \/ Worker \/ \E i \in Services : IO(i)

Spec == Init /\ [][Next]_vars

(* Every thread runs: a handler and a callback come to their end, and main *)
(* goes on once it is signalled.  Nobody has to connect, to send or to     *)
(* signal.                                                                 *)
Fairness ==
  /\ WF_vars(StopService \/ JoinThread \/ RunReturns \/ DestroyServer)
  /\ WF_vars(BeginCallback) /\ WF_vars(EndCallback)
  /\ \A i \in Services : /\ WF_vars(HandlerReturns(i))
                         /\ WF_vars(Construct(i))
                         /\ WF_vars(Post(i))
                         /\ WF_vars(ThreadExits(i))

LiveSpec == Spec /\ Fairness

-----------------------------------------------------------------------------
(* Every variable has a value of its type; the index of GetIOService is    *)
(* that of an io_service.                                                  *)
TypeOK ==
  /\ main \in {"construct", "run", "stop", "leave", "exit", "done", "terminated"}
  /\ server \in {"none", "alive", "gone"}
  /\ next \in Services
  /\ accepting \in Services \cup {-1}
  /\ handed \in [Services -> Nat] /\ sessions \in [Services -> Nat]
  /\ stopped \in 0 .. PoolSize /\ joined \in 0 .. PoolSize
  /\ running \subseteq Services
  /\ busy \in [Services -> {"no", "handler", "once", "posting"}]
  /\ once \in {"unset", "running", "done"}
  /\ created \in Nat /\ posts \in Nat /\ que \in Nat
  /\ worker \in {"none", "idle", "plain", "chat", "exited"}
  /\ b_stop \in BOOLEAN
  /\ pool \in {"alive", "destroyed"}

(* The rotation is fair: the io_services have been handed out equally      *)
(* often, but for one more of those before the next.                       *)
Balanced ==
  \A i, j \in Services : handed[i] <= handed[j] + 1

(* However many I/O threads have their first message at once, one logic    *)
(* system is constructed, and who posts has it.                            *)
OneInstance ==
  /\ created <= 1
  /\ \A i \in Services : busy[i] = "posting" => created = 1

(* No handler runs without the server it refers to: the server on main's   *)
(* stack is destroyed when all I/O threads have been joined.               *)
ServerOutlivesHandlers ==
  \A i \in Services : busy[i] # "no" => server = "alive"

(* A signal ends the server: main comes back from joining its threads,     *)
(* though they may be waiting for the mutex that the worker keeps.         *)
StopJoins == main = "stop" ~> server = "gone"
=============================================================================
