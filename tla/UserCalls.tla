------------------------------ MODULE UserCalls ------------------------------
(***************************************************************************)
(* The methods of UserModel and FriendModel (model/*.h) as the sequences   *)
(* of calls they make on a connection and a statement of their own         *)
(* (MysqlWrapper), and what becomes of them when the database, or the      *)
(* session with it, fails between any two of these calls.                  *)
(*                                                                         *)
(* Each method opens a connection, prepares one statement, binds,          *)
(* executes, and commits what it has written.  It looks at the results of  *)
(* connecttodb, execute and next only.  Every way out of it destroys the   *)
(* statement, then the connection.  FriendModel::insert is the same as     *)
(* UserModel::insert.  The id of a row, bound like a value, is part of the *)
(* statement here.                                                         *)
(***************************************************************************)
EXTENDS MysqlWrapper

VARIABLES
  call,    (* the call of each program: method, row and value, and, for    *)
           (* the record, whether it has taken effect and what it has seen *)
  result,  (* what the last call returned                                  *)
  pc,      (* the next step of the method, 0 outside of a call             *)
  outcome  (* what the method will return: success, and what it has read   *)

callVars == <<mysqlVars, call, result, pc, outcome>>

Promise == INSTANCE UserTable

NoCall   == Promise!NoCall
NoResult == Promise!NoResult

Done == [ok |-> TRUE, seen |-> NoVar]

UserInit ==
  /\ MysqlInit
  /\ call = [k \in Programs |-> NoCall]
  /\ result = [k \in Programs |-> NoResult]
  /\ pc = [k \in Programs |-> 0]
  /\ outcome = [k \in Programs |-> Done]

-----------------------------------------------------------------------------
Write == <<"connecttodb", "stmt", "prepare", "bindin", "execute", "commit">>

(* The body of each method.                                                *)
Script == [insert      |-> Write,
           updateState |-> Write,
           query       |-> <<"connecttodb", "stmt", "prepare", "bindout",
                             "execute", "next">>,
           resetState  |-> <<"connecttodb", "stmt", "prepare", "execute",
                             "commit">>]

CheckedConnectOnly == {"connecttodb", "next"}

(* The calls whose result is looked at.                                    *)
Checked == {"connecttodb", "execute", "next"}

SqlOf(c) ==
  CASE c.method = "insert"      -> [kind |-> "insert", row |-> c.row]
    [] c.method = "updateState" -> [kind |-> "update", row |-> c.row]
    [] c.method = "query"       -> [kind |-> "select", row |-> c.row]
    [] c.method = "resetState"  -> [kind |-> "reset", row |-> "none"]

TryAgain(k) == pc[k]

(* The next step after a failure: the destructors.                         *)
AfterFailure(k) == Len(Script[call[k].method]) + 1

Do(k, step) ==
  \/ step = "connecttodb" /\ ConnectToDb(k, FALSE)
  \/ step = "stmt" /\ StmtConnect(k)
  \/ step = "prepare" /\ Prepare(k, SqlOf(call[k]))
  \/ step = "bindin" /\ Bindin(k, 1, call[k].value)
  \/ step = "bindout" /\ Bindout(k, 1)
  \/ step = "execute" /\ Execute(k)
  \/ step = "next" /\ FetchNext(k)
  \/ step = "commit" /\ Commit(k)

BeginCall(k) ==
  /\ alive[k] /\ pc[k] = 0
  /\ \E c \in Promise!Calls : call' = [call EXCEPT ![k] = c]
  /\ pc' = [pc EXCEPT ![k] = 1]
  /\ outcome' = [outcome EXCEPT ![k] = Done]
  /\ result' = [result EXCEPT ![k] = NoResult]
  /\ UNCHANGED mysqlVars

(* When a call takes effect: a commit that reaches the database, or the    *)
(* execute of a query or of a statement that changes nothing.              *)
TakesEffect(k, step) ==
  \/ step = "commit" /\ txn[k] # NoChanges /\ table' = View(k)
  \/ step = "execute" /\ ret'[k] = "ok" /\ txn'[k] = NoChanges

Forget(k) ==
  /\ call' = [call EXCEPT ![k] = NoCall]
  /\ result' = [result EXCEPT ![k] = NoResult]
  /\ pc' = [pc EXCEPT ![k] = 0]
  /\ UNCHANGED outcome

(* What the method does with the result of a call it has made.             *)
Proceeds(k, step) ==
  LET fails == step \in Checked /\ ret'[k] # "ok"
  IN IF alive'[k]
     THEN /\ call' = IF TakesEffect(k, step) /\ ~call[k].applied
                     THEN [call EXCEPT ![k].applied = TRUE,
                             ![k].seen = IF call[k].method = "query"
                                         THEN table[call[k].row] ELSE "none"]
                     ELSE call
          /\ pc' = [pc EXCEPT ![k] = IF fails THEN AfterFailure(k) ELSE @ + 1]
          /\ outcome' = [outcome EXCEPT ![k] = [ok |-> ~fails, seen |-> got'[k]]]
          /\ UNCHANGED result
     ELSE Forget(k)

Step(k) ==
  LET body == Script[call[k].method]
      step == body[pc[k]]
  IN /\ pc[k] # 0 /\ pc[k] <= Len(body)
     /\ Do(k, step)
     /\ Proceeds(k, step)

LeaveConnected(k) == alive[k] /\ UNCHANGED mysqlVars

DestroyConnection(k) == ConnDisconnect(k)

(* The destructors; a commit that has failed ends the program here.        *)
Unwind(k) ==
  LET n == pc[k] - Len(Script[call[k].method])
  IN /\ pc[k] # 0
     /\ \/ /\ n = 1
           /\ StmtDestroy(k)
           /\ pc' = [pc EXCEPT ![k] = @ + 1]
           /\ UNCHANGED <<call, result, outcome>>
        \/ /\ n = 2
           /\ DestroyConnection(k)
           /\ IF alive'[k]
              THEN /\ call' = [call EXCEPT ![k] = NoCall]
                   /\ result' = [result EXCEPT ![k] =
                        [method |-> call[k].method, row |-> call[k].row,
                         ok |-> outcome[k].ok,
                         seen |-> IF outcome[k].ok THEN outcome[k].seen
                                                   ELSE NoVar]]
                   /\ pc' = [pc EXCEPT ![k] = 0]
                   /\ UNCHANGED outcome
              ELSE Forget(k)

UserNext ==
  \E k \in Programs :
    \/ BeginCall(k)
    \/ Step(k)
    \/ Unwind(k)
    \/ SessionLost(k) /\ UNCHANGED <<call, result, pc, outcome>>
    \/ StartAgain(k) /\ UNCHANGED <<call, result, pc, outcome>>

Goes(k) == Step(k) \/ Unwind(k)

(* A method that has begun runs on; nothing makes the database fail.       *)
UserSpec ==
  /\ UserInit /\ [][UserNext]_callVars
  /\ \A k \in Programs : WF_callVars(Goes(k))

-----------------------------------------------------------------------------
(* The methods keep the promise of UserTable: what is returned as done is  *)
(* committed, what is returned as failed is not, although no result of a   *)
(* commit is ever looked at (userModel.h:41, :106): a commit that fails    *)
(* does not return, its program dies in the destructor (_mysql.cpp:136).   *)
KeepsPromise == Promise!TableSpec

(* Whichever way a method is left, no session, no open transaction and no  *)
(* statement of it stays behind, so none of its row locks does.            *)
NothingLeftOpen ==
  \A k \in Programs :
    alive[k] /\ pc[k] = 0 =>
      /\ session[k] = "none" /\ txn[k] = NoChanges
      /\ conn[k].m_state = 0 /\ stmt[k].m_state = 0

(* A call ends, or its program does.                                       *)
CallsEnd == \A k \in Programs : pc[k] # 0 ~> pc[k] = 0
=============================================================================
