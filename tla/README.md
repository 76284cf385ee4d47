# TLA+ verification of asio_server

asio_server is a chat server in C++ (Boost.Asio, MySQL), with a terminal client,
a WebSocket relay for a browser page, and a utility library. It has no tests. This
directory holds TLA+ models of its server, the TLC runs that check them on small
instances, and TLAPS proofs for instances of any size.

Everything is modelled from the code; line numbers in the modules and in
`PROJECT.json` refer to the sources at the commit beside this directory.

To check a run: `tlc -config FrameReader.cfg MCFrameReader` (the module of each run
is in the table below). To check the proofs of a component: `tlapm FrameReaderProofs.tla`.

## 1. The system

    peer ──TCP──> CSession (one per connection) ──PostMsgToQue──> LogicSystem queue
                     ^   on an I/O thread of the pool                 │ one worker
                     │                                                v
                     └────────────── Send ──────────────────── callbacks ──> MySQL
                     │                                                │
                  CServer::_sessions <── GetSession (one-to-one chat) ┘
                  (main thread inserts, I/O threads erase)

    terminal client ──TCP──> server        one prompt thread, one reader thread
    page ──WebSocket──> relay ──TCP──> server
    UserModel ──> connection, sqlstatement ──> MySQL     (public/db)
    other programs ──> processes, sockets, files, logs, texts  (public/_public)

Four kinds of threads run in the server:

- the **main thread**: constructs everything, runs the acceptor's io_service
  (`HandleAccept`), and the signal handler that ends it all;
- the **I/O threads** of `AsioIOServicePool`, one per io_service; a session's handlers
  all run on the one thread of its io_service;
- the **worker** of `LogicSystem`, which runs every callback, one after the other, and
  keeps the queue's mutex while it does;
- the **database server**, whose answers may fail.

### Components, their state and operations

| Component | State | Operations | Talks to |
|---|---|---|---|
| Frame reader, `CSession::HandleRead` | `_data`, header node, body node, "header parsed" | complete a read; store or parse a header; store or post a body; reject; throw; fail | logic queue (post), registry (clear) |
| Send path, `CSession::Send/HandleWrite/Close` | `_send_que`, `_send_lock`, the socket | send, refuse, start a write, pop, write the next, close | worker and I/O thread share it |
| Logic queue, `LogicSystem` | `_msg_que`, `_mutex`, `_consume`, `_b_stop` | post, notify, wait, serve, drain, exit, stop and join | all threads |
| Session registry, `CServer` | `_sessions`, the session under accept | accept, start, insert, erase, find | all threads |
| Presence and friends, callbacks with `UserModel` and `FriendModel` | tables User and Friend; what clients were told | register, login, logout, addfriend, onechat | database, registry, send path |
| Lifecycle, `main`, `AsioIOServicePool`, `Singleton` | who is constructed, running, stopped, joined, destroyed; rotation index; `once_flag` | construct, hand out, signal, stop, join, destroy | everything |
| Database wrapper, `connection`, `sqlstatement` | connection state, auto commit, statement state | connect, prepare, bind, execute, next, commit, rollback | MySQL |
| Terminal client | socket, reader thread, logged-in user | prompt, read replies, log out | server |
| WebSocket relay and page | two connections tied to each other | relay each chunk | browser, server |
| Utility library: processes | table of heartbeats in shared memory, its semaphore | register, beat, remove; init, P, V | other processes, the kernel |
| Utility library: sockets | descriptors, "was a timeout" | connect, accept, read and write frames, with time limits | the other end |
| Utility library: files, logs, directories | the CFile, the log, the list of a directory | publish by rename, copy, rotate, make and list directories | other programs on the same files |
| Utility library: strings, time, XML | none | copies, replacing, matching, fields, numbers, times | |
| Vendored JSON, ws; build scripts | none of their own | | |

### What is hard, and what makes each component correct

- *Frame reader.* TCP may cut the stream anywhere, and one chunk may hold the end of a
  frame, whole frames and a part of another. Correct: the messages posted are exactly
  the frames of the stream, whole and in order; no copy leaves its buffer, but for one
  header that the code lets through; every path through the loop arms the next read.
- *Send path.* `Send` on the worker and `HandleWrite` on the I/O thread decide from the
  queue's size who starts the next write. Correct: never two writes at a time, always
  somebody responsible for a queue that is not empty, messages whole and in order.
- *Logic queue.* The notification comes after the unlock and only when the size becomes
  one; waits wake up spuriously; the stop flag is written without the mutex. Correct:
  no lost wakeup, no `front()` of an empty queue, each message dispatched once and in
  order, nothing left behind.
- *Registry.* Three kinds of threads change one map without a common lock, and a session
  may be erased while a read, a write, a queued message or a chat for it is under way.
  Correct: nobody uses a destructed session; a session that reads can be found; a
  removed session goes away.
- *Presence.* The state of a user is read by one query and written by another; sessions
  disconnect, the server crashes and restarts, updates fail and the failure is ignored.
  Correct: no double login; a success code is true; a chat reaches the addressee only.
- *Database wrapper.* `m_state` and `m_conn` are set in different places, a session is lost
  between any two calls, and callers look at few results. Correct: what a method of
  `UserModel` reports is what the database has committed; nothing of it stays behind.
- *Client and relay.* Two threads on one socket, answers without the number of their
  request, chunks that are not frames, an end on any side. Correct: answers and chunks
  arrive whole and in order, the socket outlives its reader, an end reaches the page.
- *Processes.* The scan for a record of the same pid precedes the lock, the removal of a
  record has no lock, and processes die anywhere. Correct: one process inside, one record
  for a pid, a registered process keeps its record.
- *Sockets, files, logs, directories.* Partial reads and writes, signals, crashes between a
  write and a rename, two programs on one path. Correct: frames, documents and lines whole,
  once and in order; calls that wait come back.
- *Text.* Sizes of buffers, pieces that overlap, tags inside values. Correct: what a
  reference definition says.
- *Lifecycle.* The server is a local of `main`, pool and logic system are static
  instances; a signal stops threads that may wait for the worker's mutex. Correct: no
  handler outlives the server, the stop comes to its end, one logic system is made.

The hazards behind these, each at its line, are listed in `PROJECT.json`.

## 2. Modules

| Component | Promise | Model | Instance | Proofs |
|---|---|---|---|---|
| Frame reader | `FrameStream` | `FrameReader` | `MCFrameReader` | `FrameReaderProofs` |
| Send path | `FifoChannel` | `SendPath` | in the cfg | `SendPathProofs` |
| Logic queue | `OrderedService` | `LogicQueue` | in the cfg | `LogicQueueProofs` |
| Session registry | | `SessionRegistry` | in the cfg | `SessionRegistryProofs` |
| Presence | | `Presence` | `MCPresence` | `UserDataProofs` |
| Lifecycle | | `ServerLifecycle` | in the cfg | `ServerLifecycleProofs` |
| The server between its peers | the promises of its parts | `Conversation` | `MCEdges` | `EdgesProofs` |
| Terminal client; relay and page | | `ClientSession`; `WsRelay` | `MCEdges` | `EdgesProofs` |
| Database wrapper, `UserModel` | `UserTable` | `MysqlWrapper`, `UserCalls` | `MCDatabase` | `UserDataProofs` |
| Library: processes; sockets; files; logs | | `ProcessTable`; `TcpFrames`; `FileStore`; `LogFile` | `MCLibrary` | `LibraryProofs` |
| Library: directories | | `MakePath`; `FileList`, `Directories` | `MCLibrary` | `LibraryProofs` (`MakePath`, `FileList`) |
| Library: text | in `TextCalls` | `CStrings`, `CText`, `CRecords` | `MCLibrary` | `LibraryProofs` (`CStrings`) |

A *promise* is an abstract specification that the model is shown to implement: by TLC
with its fairness, by TLAPS without. The small definitions with names such as
`ClearForgotten` or `NotPopped`, each just before the definition it resembles, are
plausible mistakes: substituted for the definition, they break a property of the run. Where a
property of a run is a conjunction of several of its modules, there is one for each conjunct
but for some of the type invariants.

### FrameReader

A byte is its position in the stream, so a wrong byte is a different value; `NUL` is what
`memset` writes and `Junk` uninitialised memory. A stream says what id and length the
header bytes at each position decode to. One action is one iteration of the loop of
`HandleRead`: the session's state belongs to one thread, which may block (in
`PostMsgToQue`) only between iterations. `ReadSome(n)` is the completion of
`async_read_some` with any number of bytes; the seven disjuncts of `HandleRead` are its
seven ways through the loop body.

Abstracted: how bytes decode to numbers; ids are only compared to `MAX_LENGTH`, as in the
code. Lengths are signed shorts: negative ones are in the model, because the code lets
them through. Below -1 the allocation of the node throws. At -1 it succeeds with no bytes:
the constructor writes the byte in front of them, and because `bytes_transferred` is a
`size_t`, it is less than any negative number (`Below`), so that all bytes that follow are
copied to where there is no room (`Overrun`). What that does to the process is undefined;
the model has the two ends, a session that reads on without ever posting again, and a
process that dies (`Die`). `_cur_len`, a short, counts the bytes; the model ends there at
its largest value (`ShortMax`).

### SendPath

`Send` is split at its lock, its test and its exit, `HandleWrite` at its lock, so that the
mutex does its work in the model: without it the properties fail. The kernel takes a
message in `Pieces` parts. A write on a buffer that the queue has already freed gives
`Freed` on the wire. Errors: a write fails (`WriteError`), the read fails (`ReadError`),
and both go through `Close` and `ClearSession`. After a write error `_send_que` is not
emptied, so later calls of `Send` only push, until the queue is full, as in the code.

Not in the model: the data race of `_socket` used by both threads (each call is taken as
atomic), and the header that `SendNode` writes before the text.

### LogicQueue

What a thread does under `_mutex` with data that only the mutex protects is one step; what
is unprotected is a step of its own: `notify_one` after the unlock, the two tests of
`_b_stop` and its write. `wait` enters the wait set and unlocks atomically and may wake up
spuriously. A callback either returns or throws (an id that is no number makes `stoi`
throw on the worker, where nothing catches it: `terminated`). The I/O threads post any
number of messages within a handler. The shutdown follows the signal handler and the
destructor: stop and join the pool, set, notify and join the worker.

### SessionRegistry

Each step of each thread on `_sessions` is an action: `Start` and `insert` on the main
thread, `Close` and `erase` on the I/O threads, `find` and `operator[]` of `GetSession` on
the worker. `Held` lists who holds a `shared_ptr` to a session; when a step leaves none,
`Destruct` destructs it in that step. `oneChatCallBack` holds the addressee in a local
until the end of its block. An illegal header clears the session without closing it; a
length below -1 only ends its reading, as in FrameReader. After a length of -1 a session
reads and posts nothing until its read fails; it may do that here with any header. The
worker answers most messages, but not a logout, a group chat or an unknown number (`Reply`).

`std::map` is taken to stay intact under concurrent calls, because what a race inside it
does is undefined; what is checked is how the callers interleave.

### Presence

The two tables, the sessions, and the callbacks, each in two steps: what it does to the
database, and its reply (a logout has none). The process may crash in between, and a restarted server finds
the tables as they are. A statement fails in two ways: it is refused (`UpdateFails`, or the
disjuncts with a failure code), or the commit fails. In the second case the wrapper has
closed the connection but still believes it open, its destructor rolls back on a null
pointer, and the process dies (`Gone`), with the row written or not.

`told` and `misled` are history variables: the sessions that were told of their login,
and the users for whom that was wrong because the ignored update had failed. Passwords and
names are abstracted to whether they match. `UserModel::resetState` and
`FriendModel::query` have no caller, so nothing in the model does what they do.

### ServerLifecycle

From the start of `main` to the end of the process: construction, which throws when the
port is in use; `GetIOService`, once for each session; the first messages of several I/O
threads racing in `call_once`; the signal; `Stop`, one io_service and one thread at a time;
the end of the block that holds the server; the static instances in either order.
`PoolSize` is `hardware_concurrency()`, which may be 0: then `GetIOService` indexes an empty
vector, and `PoolAssumption` excludes it.

### Conversation

Frame reader, logic queue and send path put together. Each part is what its promise says,
which is proved of its model (section 4): a session reads as a `FrameStream` and sends as a
`FifoChannel`, the logic system is one `OrderedService` for all sessions. What this module adds
is how `HandleRead` posts what it completes, and which calls of `Send` each callback makes, in
which order: none for logout and group chat, one to the session that asked for the others, and
before it, for a chat, perhaps one to the session of the addressee. It also has what can
come between: a `Send` that is refused because a queue is full, a session that stops reading or
writing, the end of the process inside a callback. Whom a chat finds, and what the answers say,
are in Presence.

A request is known by its session and its number there, and what a peer is sent says which
request it comes from; the code does not transmit that, the properties need it. The promises
leave out when a destructed session stops being sent to, so a `Send` may go to any session.

### ClientSession

The client's `main` prompts, writes one request for each operation, and joins the reader
after a logout; the reader prints frame after frame until its read throws. The server takes
the requests in turn and answers all but a logout. A frame is its request's number (0 for a
chat) and the callback it comes from; the reader takes it in two steps, head and body, since
the connection may end between them. Requests carry whether their numbers parse: one
that does not ends the server (`stoi` on the worker). Other users' chats arrive in between.
A failed write unwinds `main` through the destructor of a joinable thread, which ends the
process (`Unwind`).

### WsRelay

One event loop, so each event is one action: a page connects, sends, leaves; the socket
connects, brings a chunk, closes, fails. Messages that a page sends before the connection
stands are kept and sent first, as Node does. There is no handler for the close of the
WebSocket or for an error, so a page that leaves leaves its session in the server
(`PageLeaves` changes nothing of `tcp`), and one refused connection ends the relay for every
page (`TcpError`). A frame of the server is its number, twice, so that a chunk may be cut
inside it. The page (index.html:32) takes each chunk for a frame; the model says in
which chunks the stream comes, not what the page makes of them.

### MysqlWrapper, UserCalls, UserTable

`MysqlWrapper` has one action for each method of `connection` and `sqlstatement`, with every
early return and every value of `m_state`, `m_conn`, the statement's handle, what is bound and
what was bound by the first execute, `rc` and `rpc`. The database runs transactions on rows
with locks; a session may be lost at any moment, and a call that needs it then fails, or has
been carried out and fails all the same (a commit). A method that is called with `m_state` 1
and `m_conn` NULL ends the program. `UserCalls` strings these methods together as
`userModel.h` and `friendModel.h` do, including what they do not look at; every exit runs
the destructors. `UserTable` is their promise: a call takes effect at one moment, or not at
all, and says which; a program that dies has done it or not.

In the run a behaviour is one of the two: the models in two programs at once, or one program
that calls the wrapper in any order. A statement has one column of text; other types bind in
the same way.

### ProcessTable

`AddPInfo`, `UptATime` and the destructor of `CPActive` with `init`, `P` and `V` of `CSEM`, one
action between two accesses to what processes share. The destructor's `memset` is not under
the lock, so its fields fall one by one. A process may die at any step; the kernel then undoes
what its semaphore operations took (`SEM_UNDO`). A signal may interrupt `semop`; `AddPInfo`
does not look at the result and goes on without the lock.

### TcpFrames

`CTcpClient` and `CTcpServer` with `TcpRead`, `TcpWrite`, `Readn` and `Writen`: `send` and `recv`
move any part, `poll` guards the first byte only, signals interrupt, connections break. The
program around them keeps to `_public.h:566`: after a false that was no timeout it closes.

### FileStore, LogFile, MakePath, FileList, Directories

A name leads to an inode, an open file is an inode. A writer (`CFile`, `buftofile`), a copier
(`COPY`) and a reader (`filetobuf`) share a directory; the disk fills up, calls are refused,
programs crash. A log is a sequence of line numbers, a backup is named after a second, and a
rename or an `fopen` may fail. In `MakePath` several programs make one path level by level
(`access`, then `mkdir`); in `Directories` one lists a directory while another removes files,
also between its `readdir` and its `stat`: then the record of `stat` still holds the entry
before (`Stat`), or nothing that anybody wrote.
The list that `OpenDir` fills and `ReadDir` goes through is in `FileList`, for lists of any names.

### CStrings, CText, CRecords, TextCalls

Functions on text as operators that follow the code cell by cell where the code does: a
buffer is a sequence of cells, its text ends at the first NUL. `TextCalls` enumerates their
arguments over short texts and compares each result with a reference definition that says
what it is, not how it is found. Among them are the getters of `CIniFile` and the way `prepare`
tells a query from another statement (`MY__ToUpper`, `MY__DeleteLChar`, then a comparison with
SELECT; `QueriesAreKnown`); the 30 characters that it looks at are `SqlHead` symbols of the
model. `CStrings` has the functions that are one search or one copy (the copies into a buffer,
trimming, `strstr`, `GetXMLBuffer`), without recursion, so that they can be proved about; the
others of the code are loops, which are recursive operators here, and have no theorems.
`GetXMLBuffer` looks for as much of a tag as fits into its buffers: `TagCells` stands for the
50 of `SNPRINTF`, and is 6 in the run, so that names of four characters are already cut. A field
found behind a tag of another length may end before it begins; what `strncpy` then does is
`Undefined`, and stands for no answer.

## 3. What is checked

| Run | Module | States | Properties |
|---|---|---|---|
| frame_reader | MCFrameReader | 7 970 | `CopiesFit`, `Framed`, `FramedLive` |
| send_path | SendPath | 910 | `OneWriteOfFront`, `SomebodyWrites`, `QueueBound`, `InOrder`, `AllWritten` |
| logic_queue | LogicQueue | 51 110 | `NoLostWakeup`, `FrontExists`, `NothingLeftBehind`, `Ordered`, `AllServed` |
| session_registry | SessionRegistry | 312 818 | `UsedIsAlive`, `RegisteredWhileReading`, `RemovedGoesAway` |
| presence | MCPresence | 414 696 | `NoDoubleLogin`, `AckIsStored`, `ForwardedToOwner` |
| server_lifecycle | ServerLifecycle | 152 430 | `Balanced`, `OneInstance`, `ServerOutlivesHandlers`, `StopJoins` |
| edges | MCEdges | 493 154 | `SocketOutlivesReader`, `ClientInOrder`, `RelayedInOrder`, `ExchangeInOrder`, `ArrivesAtLast` |
| database | MCDatabase | 230 598 | `WrapperIsSound`, `ModelsKeepPromise`, `MethodsEnd` |
| library | MCLibrary | 393 009 | `OneInside`, `OneRecordPerPid`, `MemberKeepsRecord`, `StreamsStayFramed`, `PublishedWhole`, `LinesAreKept`, `OneMakerSucceeds`, `ListsAndTexts`, `WaitsEnd` |

The components of edges, of database and of library share no state, so each of these runs
holds several of them side by side: the initial state says which one a behaviour is about.
Their composite properties are defined in the `MC` modules from those of the component
modules, where each part is stated and explained. The type invariants of the first six
components that are missing here are proved (section 4); those of the others are parts of
the composite properties.

### Bounds, and why they are enough

- **frame_reader**: headers of 2 bytes, bodies of 0 or 4, chunks of 1 to 5 bytes, every
  stream of up to three frames, the last one acceptable or illegal in each of the four
  ways (id, length, -2, and -1 with three bytes behind it), whole or one byte short. A chunk can end in every part of a frame, hold the end of
  one, all of another and the start of a third; an empty body, which completes with its
  header, is among them. Three frames suffice because each completed frame leaves the
  nodes as the first one found them (this is the invariant of the proof).
- **send_path**: `MAX_SENDQUE` 1, two pieces, four calls: the queue gets full, is drained,
  and fills again, with every interleaving of the two threads and every error.
- **logic_queue**: two I/O threads, three posts, a kind with a callback, one without and
  one whose callback throws; the queue becomes empty and not empty more than once, with the
  stop at any point.
- **session_registry**: two sessions, three messages: each can chat with the other while
  it is accepted, rejected, closed or removed.
- **presence**: two users, three sessions, crashes and restarts at any time; each session
  name is used for one connection, as a uuid is. Users and sessions are only compared, so
  they are symmetric, and this run has no temporal property.
- **server_lifecycle**: three io_services, three accepts on each, two messages: the index
  wraps, two threads race to construct the logic system, one is posting when the stop comes.

- **edges**: three requests, enough for a login, an operation and a logout of which none is
  answered yet, with one chat in between; two pages, of which one sends two messages and gets
  two frames, cut anywhere. Two sessions of the server, with two frames and one: two chats with
  each other and a hello, or a message without a callback, a chat and a logout; every message
  is written in two pieces. So the two sessions race in the queue, a chat meets an answer on one
  wire, and one request is behind another.
- **database**: two programs on one row: each can find the other's lock, lose its session or
  die at any call. One row suffices, because a statement names one row, and `resetState`
  takes those that are online.
- **library**: three pids on two records, so that one finds the table full, with three starts,
  so that a pid is used again; one interrupted `semop`. Two connections and two messages, one
  of them empty. Documents of two chunks and of one (a shorter replacement), three files, one
  fault. Five lines against a limit of one, two seconds, so that two rotations meet in one.
  A path of two levels, directories of up to four entries with one below. Texts of up to
  three or five characters, at which pieces overlap and buffers of 1, 2 and 4 are full; names
  of fields that fit into the tags and two that agree in what fits.

The numbers of calls, posts, messages, accepts, starts and faults (`MaxSends`, `MaxPosts`,
`MaxMessages`, `MaxAccepts`, `MCFrames`, `MaxStarts`, `MaxFaults` and the like) are bounds of the
runs only; the theorems hold for all values.
`CHECK_DEADLOCK FALSE` is said where the system may stop: a session ends, the bound is
reached, the process is gone. Presence can always crash or restart, so deadlock is checked.

### Fairness

Weak fairness only, and only for what a scheduler or the kernel gives: threads that can
run do so, the kernel delivers bytes that have arrived and takes the bytes of a write on an
open socket, an io_service runs the handlers that are ready, an operation outstanding on a
closed socket completes with an error. Peers are never fair: they need not send, read or
disconnect. No spurious wakeup, signal, crash, connection or failure has to happen. In
SendPath no *call* of Send need happen; a call that has begun goes on.

Of the liveness properties, `AllWritten` and `FramedLive` are the fairness of the promise;
`AllServed` says that every message is dealt with unless a callback throws;
`RemovedGoesAway` that no queue and no late reply keeps a removed session forever;
`StopJoins` that the signal handler gets through its joins although the threads may wait for
the mutex that the worker holds.

In the later runs: both threads of the client and the server's worker go on, and so does the
relay's event loop; what users type, pages, servers that close and errors are not fair
(`ArrivesAtLast`: `AnswersPrinted`, `AllShown`, `CloseReachesPage`; nothing fair is asked of
Conversation, whose parts have their liveness in their own runs). A method of `UserModel` that has begun runs on, and nothing
makes the database fail (`MethodsEnd`; a method waits at most for the lock of another, which
ends too). A process of the table, an end of a connection and `COPY` take their own next
steps; that a process starts, ends or dies, and that the other side writes, is not promised
(`WaitsEnd`: `LockComes`, `TimedReadReturns`, `CopyReturns`).

### Where the code and its comments disagree

Three runs look for a violation of what a comment in the code says, and find one.

| Run | Comment | What the run shows |
|---|---|---|
| frame_reader_stranded | CSession.cpp:153: an illegal id or length removes the session | A length below -1 passes the check, the allocation throws, the handler returns without another read; the session stays registered and is deaf. |
| logic_queue_shutdown | LogicSystem.cpp:38: once stopped, execute all and leave the loop | The flag is set and notified between the worker's test and its wait; the worker sleeps on and the destructor never returns. |
| client_logout | LogicSystem.cpp:244: after a logout the peer surely closes, the server has nothing to do | The client does not close: it joins its reader, which reads until the server closes. Both wait. |

Four more follow from steps that the models have, and are exceptions in the properties that
hold: a session that fails between `Start` and `insert` is erased first and inserted afterwards,
and stays in the map (CServer.cpp:14, against CSession.cpp:281; `RemovedGoesAway` excepts it).
A user stays online, with the uuid of a session that is gone, after a disconnection or a
restart (against user.h:16), and cannot log in again. A login reports success when the ignored
update failed (LogicSystem.cpp:217; `AckIsStored` excepts these). The worker may run a chat
when the server, a local of `main`, is gone (main.cpp:32, against LogicSystem.cpp:120).

The models show some smaller things, for which there is no run:
`Send` refuses a message only when the queue holds more than `MAX_SENDQUE`, so it may hold
one more (`QueueBound` states the real bound); a message that arrives between `Start` and
`insert` is served before its session is in the map; between `find` and `operator[]` of
`GetSession` an I/O thread may erase the entry, and `operator[]` makes a null one, which is
never removed; a session rejected for its header lives on while a write or a queued message
holds it; a header of length -1 makes `HandleRead` copy what follows to where there is no
room (MsgNode.h:18, CSession.cpp:193; `CopiesFit` excepts it, and nothing else).

What the models of the database and the library have in them, for their users to know:

- *MySQL wrapper.* After a failed commit `m_state` is 1 and `m_conn` NULL: only that the
  destructor then uses the null pointer keeps `insert` and `updateState` from returning true
  for what was not committed. The end of the rows is 100, not 1403 as `_mysql.h:204` says.
  A binding after the first execute is ignored. A statement whose preparation failed keeps
  what `maxbindin` was before.
- *Processes.* A creator that dies between creating the semaphore and `SETVAL` leaves it at 0,
  and all others wait for ever (`Stillborn`). An interrupted `P` is taken for a success and
  its `V` leaves the semaphore at 2 (`OneInside` and `MemberKeepsRecord` hold without signals,
  `OneRecordPerPid` with them).
- *Sockets.* A program that mixes reads with and without a time limit sees an old `m_btimeout`;
  `Accept` writes over a descriptor that was not closed; a signal inside `recv` loses the
  framing, and the time limit covers the first byte only.
- *Files.* After a `CloseAndRemove` or an open that failed, `m_filenametmp` stays set.
  `COPY` of a file that is replaced by a shorter one never ends; results of `write` and
  `fclose` are ignored, so a full disk publishes a part.
- *Logs.* Two rotations in one second write over a backup; a program that opens the log with
  "a+" and writes one line never rotates it; `fopen` with "w" after a failed rename empties it.
- *Directories.* `OpenDir` may exceed `in_MaxCount` by one for each directory. A file that
  goes away between `readdir` and `stat` is judged by the entry before it: listed, skipped, or
  taken for a directory that cannot be opened, which ends the whole listing. `MKDIR` may be
  false although another program has just made the path.
- *Text.* `UpdateStr` of "ab" into "bbaa" never ends despite its guard; of two fields whose
  names agree in 48 characters `GetXMLBuffer` reads the first for both; `MatchStr` takes "ab" for
  a rule that "abab" matches; `unsigned long` is read with the limit of a long; "hh24:mi:ss"
  and "hh24:mi" are in the comment at `_public.h:219` but not in the code; ":30" in a literal
  becomes a parameter.

## 4. What is proved

Each `...Proofs` module proves its components' properties from an inductive invariant
(`IInv`, if nothing else is said), by `Init => IInv`, `IInv /\ [Next]_vars => IInv'` (one lemma or step per action),
and `IInv => ` the property. The constants are arbitrary but for the named assumption of
the module.

- **FrameReader** (`StreamsAssumption`, which lets a header decode to any id and any length):
  `TypeCorrect`; `CopiesStayInside` (`CopiesFit`): no copy is longer than what its node has left,
  but behind a header that announces -1; and `Refines`: `Spec => Framed`. `TypeOK` alone is not
  inductive, for it does not know what the buffers hold. `IInv` adds that the unread part of `_data` is the
  stretch of the stream just before the last byte received (`ChunkOK`), that the kept header
  bytes are the first bytes of the current frame (`HeadOK`), and that the body node was made
  from that frame's header and holds the first bytes of its body (`BodyOK`), or, after a
  length of -1, that nothing more is posted (`OverrunOK`). From these a
  completed node is the frame (`MessageOfFrame`), and each action is a `Deliver`, an `End` or
  a stutter of `FrameStream`.
- **SendPath** (`SendPathAssumption`): `TypeCorrect`, `OneWrite`, `NeverStalls`, `Bounded`,
  and `Refines`: `Spec => InOrder`. `IInv` says who holds the mutex where, that the local
  size is still right until the push, that the queue holds the last messages accepted, who
  is responsible for the front (`Duty`), and what the wire has to carry next (`WireOK`).
- **LogicQueue** (`LogicQueueAssumption`): `TypeCorrect`, `WakesUp`, `FrontIsThere`,
  `DrainsAll`, and `Refines`: `Spec => Ordered`. `IInv` adds the order of the shutdown, what
  the worker knows of the queue at each place, and that the queue is the last part of what
  was posted. `FrontExists` needs the order: the stop flag never goes back.
- **SessionRegistry**: `TypeCorrect`, `NoUseAfterDestruction`, `StaysRegistered`. The heart
  is that a session without a holder never finds one again (`DeadOK`): whoever makes a new
  holder got the session from an old one.
- **Presence** in UserDataProofs (`NoneAssumption`): `TypeCorrect`, `ChatsFindTheirOwner`, `OneLogin`,
  `AcksAreTrue`. `IInv` adds that an online user whose session is in the map holds a login
  there (`OnlineLoggedIn`), which a restart keeps because sessions are new after it.
- **ServerLifecycle** (`PoolAssumption`): `TypeCorrect`, `HandedOutEvenly`, `ConstructedOnce`,
  `HandlersHaveServer`. `IInv` relates the hand-outs to the index (`RoundOK`), the once flag to
  who is inside (`OnceOK`), the threads to the joins, and `main` to what lives.
- **Edges** (`ClientAssumption`, for the client): `ReaderHasSocket`, whose invariant is
  inductive as it stands, by cases on the steps of both threads. `ClientSeesOrder`
  (`ClientInOrder`): nothing in an answer names its request, so `ClientIInv` follows the
  requests through the system: those on their way continue those served, each with the id of
  its operation (`UpInv`), and the frames printed and on their way, as one sequence, are the
  answers of the first requests with none left out (`InOrder`, `KeepsUp`); a frame that is
  printed only moves within that sequence. `RelayKeepsOrder` and `RelayIsTransparent`
  (`RelayedInOrder`) for any pages: `RelayIInv` numbers what a page has sent across the three
  places where it can be (`Consecutive`): what the socket keeps continues what the server
  has, and what is on its way continues that, until a side closes; and a connected socket
  keeps nothing back, without which a direct write could overtake a kept one. `ShownIInv`
  says the same of the other direction, by pieces: what was shown and what is unread put
  together are the frames of the server, each in two halves (`Halves`).
- **Conversation** in EdgesProofs (`ConversationAssumption`), for any sessions, any streams and
  any number of pieces: `ExchangeKeepsOrder` (`ExchangeInOrder`) and `PromisesAreKept`, that the
  composition is, at once, a `FrameStream` and a `FifoChannel` in each session and an
  `OrderedService` of all of them. `ExchangeInOrder` speaks of the pieces on a wire and of the
  frames behind them, with two queues in between, and is not inductive. `PeerIInv` says how the
  sequences hang together: each post is a message that its session handed over, and those of a
  session are in its order (`PostedInv`); every message accepted comes from a request that is dealt with or, while a
  callback is under way, from the front one, each request gives a session at most one chat and
  one answer, and they stand in the order of the queue (`SentInv`); what a callback still has
  to send is a chat and its answer, or the answer, or nothing, and none of it is accepted yet
  (`CallingInv`); and the pieces on a wire are of accepted messages, never of an earlier one after a later
  (`WireInv`).
  That two messages of one sender are in order then follows from the order of the queue.
- **ProcessTable** in LibraryProofs (`NoPidAssumption`, `NumberAssumption`): `TableTypeCorrect`,
  `LockExcludes`, `PidHasOneRecord`, `RecordIsKept`, for any pids and any size of the table.
  `IInv` has who knows
  which position (`Placed`), what a process may rely on from its scan to its `memcpy`
  (`OwnRecords`: the scan precedes the lock, and no other process ever writes this pid),
  that the semaphore is 0 while its creator or the process inside holds it, that they are
  one, and that the kernel would undo just what was taken (`Locked`), and whose pid stands
  where a process is about to write or wipe (`SettledKept`). The last two, and what follows
  from them, are stated for executions in which no signal interrupts `semop`: with one they
  are false. `OneRecordPerPid` needs only the others.
- **TcpFrames** in LibraryProofs (`SocketsAssumption`): `FramesSurvive` (`StreamsStayFramed`),
  for any number of messages and connections and bodies of any length. The property speaks of
  whole messages read; between two of them everything is in pieces, some in the buffer of
  `Readn`, some on the wire, some still with `Writen`. `SocketsInv` says that these three, put
  together, are one stream of frames that begins where the last Read ended (`Line`: the first
  piece, each next piece of a frame, the next frame) and ends with the last message written
  while its writer is there (`ToTheEnd`); a signal or a reset ends one of the two readers or
  writers, which is why the border depends on who may still use the connection (`MayUse`).
  Cutting pieces off a stream and adding a frame to it are lemmas of their own (`LineRead`,
  `LineWritten`).
- **FileStore** in LibraryProofs (`FilesAssumption`): `FilesStayWhole` (`PublishedWhole`), for
  any documents and any number of faults and crashes. Nothing in a rename looks at what it
  publishes. `FilesInv` says why that is right: an inode has at most one name (`Linked`); what
  a writer has open is under its own temporary name and holds the chunks it counted
  (`Writer`, `Saver`, `Copier`); what a reader or `COPY` may have open is no longer under a
  name that anybody writes (`Reader`). `Calm` is what each other program has to leave alone,
  and every step that is not a program's own is shown to. A full disk is excepted
  (`full = 0`), as in the property.
- **LogFile** in LibraryProofs (`LogAssumption`): `LinesSurvive` (`LinesAreKept`). `LogInv` has
  that the backups, in the order of their seconds, and then the log, hold what was accepted
  without what an `fopen` emptied, in order (`Complete`); that backups are of seconds of
  rotations that are past (`BackupsKnown`), so that a rotation in a new second moves the log
  behind them all (`LinesMoved`); and that `ftell` knows the end of the log, or the open is
  counted after which it does not (`LogLength`), which bounds the log.
- **MakePath** in LibraryProofs (`MakersAssumption`: someone makes the path, and it has a
  level): `SomeMakerSucceeds` (`OneMakerSucceeds`). A maker that is told false says nothing of
  the others, so the property is not inductive. `MakeInv` adds that one maker is ahead
  (`OneIsAhead`): it has returned true, or the level it is at does not exist, so that it cannot
  meet EEXIST. Who makes a level is ahead from then on, because the levels that exist are the
  first ones (`LevelsInOrder`).
- **FileList** in LibraryProofs: `ListIsReadOnce`, for lists of any length. `ListInv`: what was
  returned is the beginning of the list up to `m_pos`, and the list is what `OpenDir` collected,
  or it was emptied behind its last name.
- **CStrings** in LibraryProofs: `CopiesFitAnyBuffer` for buffers of any size and texts of any
  length, with the limits of the functions that have one; `FieldsAreReadBack`,
  `FieldsAreKeptApart` and `TrimmingTakesTheEnds` for documents, names and values of any length.
  The hypotheses are those without which the code does something else: a value with `</` may end
  its field early, what is looked for of a tag (`m_SFieldName`, 49 characters in the code) is
  found before the field when it stands in a value before it, and names that agree in as much
  as that has room for (`Same`, 48 characters) find one field, the first. A search is a CHOOSE of
  the first place; that there is a first one is the least number principle (`FirstOfMany`, from
  the well-foundedness of the naturals), and that it is the one wanted compares characters: no
  tag of the name can begin inside the tag, inside a value that closes nothing, or across a
  border (`TagNotInOtherField`, `TagsLookedFor`, `OccursByCharacters`).
- **Database** in UserDataProofs (`RowsAssumption`, `FirstAssumption`), for any programs and
  any finite set of rows: `WrapperSound` (`WrapperIsSound`), for any order of calls;
  `MethodsLeaveNothing`, the half of `MethodsEnd` that is about what stays behind; and
  `ModelsRefineUserTable` (`ModelsKeepPromise`): every step of a method is a step of
  `UserTable` or stutters there. Both layers share one invariant, `DatabaseInv`.

  Its first part, `WrapInv`, holds whatever is called. `StatementHasHandle` is not inductive,
  because it does not say when the object goes: `Handles` ties the handle to `m_conn`, `m_conn`
  to the session, and both to `m_state`, and a session that is lost to an empty transaction.
  `RpcCountsRows` counts what was fetched; `Counted` adds what the cursor still has, which makes
  it a sum that `next` keeps. `RowLocks` says that no two transactions change one row. Each call
  of the wrapper leaves the other programs' state alone (`Frame`) and their rows (`Respects`),
  so that one lemma (`StepKeepsWrapInv`) lifts it to all programs.

  The second, `CallInv`, says for each place in a method what the calls before it have
  established. A method looks at the results of `connecttodb`, `execute` and `next` and goes on
  whatever `prepare`, the binds and `commit` return, so what these have done has to be known:
  before execute nothing has happened, and a statement that says it was prepared is the one of
  the call with its value bound (`Preparing`); the connection is open and not in autocommit
  (`Connected`); the open transaction holds the effect of the call and nothing else, on rows
  that are still as the call found them, because they are locked (`Pending`); after a good
  execute the transaction or the cursor has what commit or `next` will make true (`Executed`);
  and on the way out what is returned agrees with what was done (`Leaving`). A step of a program
  is shown once for the refinement and the invariant together (`StepResult`), and the other
  programs keep theirs because a row they have changed is locked against this one.

Only model-checked: everything about liveness (`FramedLive`, `AllWritten`, `AllServed`,
`RemovedGoesAway`, `StopJoins`, `ArrivesAtLast`, `MethodsEnd`, `WaitsEnd`), which
needs fairness and ENABLED and is beyond the prover (of `MethodsEnd` the safety half is proved:
`MethodsLeaveNothing`); and of `ListsAndTexts` what `OpenDir` collects and the functions on text
outside `CStrings`, which are recursive: what they compute for every input takes an induction over
data that the installed provers cannot do. (`DirectoriesTypeOK`, `ReadsWholeList` and `CopiesAreCut`,
which are parts of `ListsAndTexts`, are proved for all inputs.) The proofs and the runs use the
same definitions. The modules of LibraryProofs share no state, and each has its own invariant
and theorems.

## 5. What is not modelled

- *What hello, createGroup, joinGroup and groupChat say*: they keep no state; in Conversation
  they are the calls of `Send` they make.
- *FriendModel::query* has no caller. Its loop `while(next()!=0)` (friendModel.h:56) returns
  nothing when there are rows and never ends when there are none.
- *Database wrapper*: `execute` of a text, which is prepare and execute in one; columns of
  other types; lobs but for reading and writing their files.
- *Utility library*: `CTimer` (a difference of two clocks), `CloseIOAndSignal`, `CSEM::value` and
  `destroy` (no caller), and the getters of double and float.
- *Data races* inside library objects (`_socket`, `std::map`): their outcome is undefined,
  and the models take each call as atomic.
- *The lengths that JSON produces*: the length of a reply is passed as a short
  (MsgNode.cpp:8), and a hello whose text grows by escapes may pass 32767.
- *Memory exhaustion*: the logic queue has no limit (`MAX_RECVQUE`, const.h:10, is never
  tested), and the models bound the number of messages instead.
- *The order in which static instances are destroyed* (Singleton.h:33) is open in
  ServerLifecycle, and nothing in the repository says what it should be.
- *Vendored code* (three copies of one JSON header, more than half of the lines of the
  repository, and the ws package) and *build scripts*.

## 6. Plan

Done: the core of the server, its edges, their composition from the promises of the parts, the
database wrapper and the library. Next:

1. Presence over `UserTable` instead of its own table, so that the failures it assumes are
   those that the wrapper has.
2. Conversation with the registry, so that it also says when a session is sent nothing more.
