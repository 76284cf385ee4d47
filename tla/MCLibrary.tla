------------------------------ MODULE MCLibrary ------------------------------
(***************************************************************************)
(* The library of src/public, for TLC.  Its classes share no state, so one *)
(* run checks them side by side: a behaviour is one of the process table,  *)
(* of the sockets, of the files, of the log, of the programs that make a   *)
(* path, of the one that reads a directory, or a call of a function on     *)
(* text.                                                                   *)
(***************************************************************************)
EXTENDS ProcessTable, TcpFrames, FileStore, LogFile, MakePath

CONSTANTS p1, p2, p3   (* three process ids                                 *)

VARIABLES
  part,     (* which of the classes this behaviour is about                *)
  opened, list, position, removed, listed, seen,
  call

MCPids == {p1, p2, p3}

(* Two messages, the second one empty.                                     *)
MCLengths == <<1, 0>>

(* A document of two chunks and one of one.                                *)
MCSizes == <<2, 1>>

-----------------------------------------------------------------------------
(* Directories: flat, with one below, and with one that may not be read.   *)

Item(name, kind, sub) == [name |-> name, kind |-> kind, sub |-> sub]
File(n) == Item(n, "file", <<>>)
Below == Item(7, "dir", <<File(1), File(5)>>)
MCTrees == {<<>>,
            <<File(3), Item(4, "other", <<>>), Below, File(2)>>,
            <<Below, Item(8, "denied", <<>>), File(2)>>}

Folders == INSTANCE Directories WITH
             Trees <- MCTrees, Counts <- {1, 2, 9}

-----------------------------------------------------------------------------
(* Texts over small alphabets, up to a length at which pieces overlap.     *)

Texts(chars, n) == UNION {[1 .. k -> chars] : k \in 0 .. n}

MCNames == Texts({"a", "B"}, 3)
           \cup {<<"a", "B", "a", "a", "B">>, <<"a", "a", "B", "a", "B">>}
MCRules == Texts({"A", "*"}, 3)
           \cup {<<"b", ",", "*", "a">>, <<"a", "*", "b", "*", "b">>, <<",", "b">>}
MCPairs == {<<<<"a", "B">>, <<"B", "B", "a", "a">>>>, <<<<"a", "a">>, <<"a">>>>,
            <<<<"a">>, <<"a", "B">>>>, <<<<"a", "B">>, <<>>>>}
MCFields == Texts({" ", "a", "<"}, 1)
            \cup {<<" ", "a">>, <<"a", " ">>, <<"<", "a">>, <<" ", "a", " ", "<">>}
MCStatements == Texts({"1", "2", "12", "to_date", "sysdate", "to_char", ","}, 3)
                \cup Texts({"to_char", "yyyymmddhh24miss", "yyyy-mm-dd hh24:mi:ss"}, 3)
(* Names that fit into the tags, and two that agree in what does.          *)
MCTags == {<<"a">>, <<"b">>, <<"a", "b">>,
           <<"a", "a", "b", "b">>, <<"a", "a", "b", "b", "a">>}
MCNumbers == {0, 1, 3, 4, 7, 8, 31, 32, 63, -1, -4, -5, -32}

Text == INSTANCE TextCalls WITH
          Lower <- <<"a", "b", "select">>, Upper <- <<"A", "B", "SELECT">>,
          Width <- 3, MaxRounds <- 6, MAXPARAMS <- 12, SqlHead <- 2, Bases <- <<3, 2, 2, 2, 2>>,
          Names <- MCNames, Rules <- MCRules, Sizes <- {1, 2, 4}, Pairs <- MCPairs,
          Fields <- MCFields, Tags <- MCTags, TagCells <- 6,
          Numbers <- MCNumbers, Files <- Texts({"a", "!", "\n"}, 4),
          Marks <- {<<"!">>}, Times <- {0, 5, 47, 100}, Offsets <- {-5, 0, 1, 50},
          Statements <- MCStatements

-----------------------------------------------------------------------------

dvars == <<opened, list, position, removed, listed, seen>>
tvars == <<call>>
vars == <<part, pvars, svars, fvars, lvars, mvars, dvars, tvars>>

Init ==
  /\ part \in {"processes", "sockets", "files", "log", "makers", "reading", "text"}
  /\ TableInit /\ SocketsInit /\ FilesInit /\ LogInit /\ MakeInit
  /\ Folders!DirectoriesInit /\ Text!TextInit

Next ==
  /\ UNCHANGED part
  /\ \/ /\ part = "processes" /\ TableNext
        /\ UNCHANGED <<svars, fvars, lvars, mvars, dvars, tvars>>
     \/ /\ part = "sockets" /\ SocketsNext
        /\ UNCHANGED <<pvars, fvars, lvars, mvars, dvars, tvars>>
     \/ /\ part = "files" /\ FilesNext
        /\ UNCHANGED <<pvars, svars, lvars, mvars, dvars, tvars>>
     \/ /\ part = "log" /\ LogNext
        /\ UNCHANGED <<pvars, svars, fvars, mvars, dvars, tvars>>
     \/ /\ part = "makers" /\ MakeNext
        /\ UNCHANGED <<pvars, svars, fvars, lvars, dvars, tvars>>
     \/ /\ part = "reading" /\ Folders!DirectoriesNext
        /\ UNCHANGED <<pvars, svars, fvars, lvars, mvars, tvars>>
     \/ /\ part = "text" /\ Text!TextNext
        /\ UNCHANGED <<pvars, svars, fvars, lvars, mvars, dvars>>

(* Each process, each end of a connection and COPY go on as long as they   *)
(* can; nothing is promised of calls, crashes, signals and the network.    *)
Spec ==
  /\ Init /\ [][Next]_vars
  /\ \A k \in Pids : WF_pvars(part = "processes" /\ Own(k))
  /\ \A e \in Ends : WF_svars(part = "sockets" /\ Proceed(e))
  /\ WF_fvars(part = "files" /\ Copying)

-----------------------------------------------------------------------------
(* Properties of directories and texts, which are stated one by one in     *)
(* their modules, as those of the other classes are.                       *)

(* Directories: OpenDir collects what matches, no more than in_MaxCount    *)
(* and one for each directory, and ReadDir returns it once, to the end.    *)
(* Texts: each function returns what its reference definition says.        *)
ListsAndTexts ==
  /\ Folders!DirectoriesTypeOK /\ Folders!ReadsWholeList /\ Folders!ListIsBounded
  /\ Text!CopiesFit /\ Text!UpdateReplaces /\ Text!MatchIsGlob
  /\ Text!RecordsRoundTrip /\ Text!NumbersReadBack /\ Text!RecordsAreRead
  /\ Text!TimesRoundTrip /\ Text!MarkersBecomeQuestions
  /\ Text!QueriesAreKnown

(* What waits comes on: P() gets the semaphore, a Read with a timeout      *)
(* returns, COPY returns, but in the cases that their modules name.        *)
WaitsEnd == LockComes /\ TimedReadReturns /\ CopyReturns
=============================================================================
