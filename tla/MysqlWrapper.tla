---------------------------- MODULE MysqlWrapper ----------------------------
(***************************************************************************)
(* The classes connection and sqlstatement of public/db/_mysql.cpp, as     *)
(* programs use them: each program has one connection and one statement    *)
(* and calls their methods; the database runs the transactions.            *)
(*                                                                         *)
(* A method is one action.  Its return value is kept in ret, what the      *)
(* library says of the last call in rc and rpc.  The MYSQL handle of a     *)
(* connection leads to a session of the database, which may be lost at any *)
(* moment: the database then rolls back, and the library finds out at its  *)
(* next call.  The table has one column; a statement writes the value of   *)
(* the variable bound at position 1 (an insert or an update of one row, an *)
(* update of all the online rows has none) or selects one row.             *)
(*                                                                         *)
(* The methods look at m_state, never at m_conn: a method called while     *)
(* m_state is 1 and m_conn is NULL hands NULL to the client library, and   *)
(* the program dies.                                                       *)
(***************************************************************************)
EXTENDS Integers, Sequences, FiniteSets

CONSTANTS Programs, Rows

(* A table has finitely many rows.                                         *)
ASSUME RowsAssumption == IsFiniteSet(Rows)

Values == {"offline", "online"}
Absent == "absent"      (* no such row                                     *)
Same   == "same"        (* a row the transaction has not changed           *)
NoVar  == "none"        (* no variable                                     *)
Garbage == -1           (* a member that was never set                     *)

NoSql == [kind |-> "none", row |-> "none"]
Sqls  == [kind : {"insert", "update", "select"}, row : Rows]
           \cup {[kind |-> "reset", row |-> "none"]}

HasParam(sql) == sql.kind \in {"insert", "update"}
IsQuery(sql)  == sql.kind = "select"

VARIABLES
  alive,   (* the program runs                                             *)
  conn,    (* connection: m_state, m_conn (is it there), autocommit        *)
  session, (* what m_conn leads to: "none", "up" or "lost"                 *)
  stmt,    (* sqlstatement: m_state, handle, sql, sqltype, maxbindin       *)
  bound,   (* params_in[0]: the variable whose value is to be sent         *)
  sent,    (* the variable the client library has taken over, which it     *)
           (* does once after a prepare (bind_param_done)                  *)
  out,     (* params_out[0]: "none", "bound", or, once the client library  *)
           (* has taken it over, "taken" (or "lost", when it was not set)  *)
  got,     (* the variable of the program that a column is fetched into    *)
  cursor,  (* the rows of the result set that have not been fetched        *)
  found,   (* how many rows the last query has found                       *)
  cda,     (* m_cda of the statement: rc is 0 or not, rpc                  *)
  ret,     (* what the last method returned                                *)
  txn,     (* the changes of the open transaction of each session          *)
  table    (* what is committed                                            *)

objects == <<conn, stmt, bound, sent, out, got, cursor, found, cda>>
mysqlVars == <<alive, conn, session, stmt, bound, sent, out, got, cursor,
               found, cda, ret, txn, table>>

NoConn == [m_state |-> 0, m_conn |-> FALSE, autocommit |-> FALSE]

(* sqlstatement::initial sets neither m_sqltype nor maxbindin.             *)
NoStmt == [m_state |-> 0, handle |-> "null", sql |-> NoSql,
           sqltype |-> "garbage", maxbindin |-> Garbage]

NoCda == [rc |-> 1, rpc |-> 0]

NoChanges == [r \in Rows |-> Same]

MysqlInit ==
  /\ alive = [k \in Programs |-> TRUE]
  /\ conn = [k \in Programs |-> NoConn]
  /\ session = [k \in Programs |-> "none"]
  /\ stmt = [k \in Programs |-> NoStmt]
  /\ bound = [k \in Programs |-> NoVar]
  /\ sent = [k \in Programs |-> NoVar]
  /\ out = [k \in Programs |-> "none"]
  /\ got = [k \in Programs |-> NoVar]
  /\ cursor = [k \in Programs |-> <<>>]
  /\ found = [k \in Programs |-> 0]
  /\ cda = [k \in Programs |-> NoCda]
  /\ ret = [k \in Programs |-> "ok"]
  /\ txn = [k \in Programs |-> NoChanges]
  /\ table \in [Rows -> Values \cup {Absent}]

Returns(k, value) == ret' = [ret EXCEPT ![k] = value]

Reports(k, rc) == cda' = [cda EXCEPT ![k].rc = rc]

-----------------------------------------------------------------------------
(* The database.                                                           *)

(* The table with the changes of the open transaction of k.                *)
View(k) == [r \in Rows |-> IF txn[k][r] = Same THEN table[r] ELSE txn[k][r]]

Locked(r, k) == \E j \in Programs \ {k} : txn[j][r] # Same

(* The rows a statement changes, for the values it sees.                   *)
Changes(k, sql, value) ==
  [r \in Rows |->
     IF \/ sql.kind = "insert" /\ r = sql.row
        \/ sql.kind = "update" /\ r = sql.row /\ View(k)[r] # Absent
     THEN value
     ELSE IF sql.kind = "reset" /\ View(k)[r] = "online"
     THEN "offline"
     ELSE txn[k][r]]

Touches(k, sql, value) ==
  {r \in Rows : Changes(k, sql, value)[r] # txn[k][r]}

(* mysql_close, or the end of the program: the session ends and its        *)
(* transaction is rolled back.  Statements of a closed handle stay, but    *)
(* lead nowhere.                                                           *)
EndSession(k) ==
  /\ session' = [session EXCEPT ![k] = "none"]
  /\ txn' = [txn EXCEPT ![k] = NoChanges]
  /\ cursor' = [cursor EXCEPT ![k] = <<>>]

Stale(s) == IF s.handle = "live" THEN [s EXCEPT !.handle = "stale"] ELSE s

(* A NULL handle is used.                                                  *)
Dies(k) ==
  /\ alive' = [alive EXCEPT ![k] = FALSE]
  /\ EndSession(k)
  /\ UNCHANGED <<conn, stmt, bound, sent, out, got, found, cda, ret, table>>

SessionLost(k) ==
  /\ session[k] = "up"
  /\ session' = [session EXCEPT ![k] = "lost"]
  /\ txn' = [txn EXCEPT ![k] = NoChanges]
  /\ UNCHANGED <<alive, objects, ret, table>>

(* A new process of the program.                                           *)
StartAgain(k) ==
  /\ ~alive[k]
  /\ alive' = [alive EXCEPT ![k] = TRUE]
  /\ conn' = [conn EXCEPT ![k] = NoConn]
  /\ stmt' = [stmt EXCEPT ![k] = NoStmt]
  /\ bound' = [bound EXCEPT ![k] = NoVar]
  /\ sent' = [sent EXCEPT ![k] = NoVar]
  /\ out' = [out EXCEPT ![k] = "none"]
  /\ got' = [got EXCEPT ![k] = NoVar]
  /\ found' = [found EXCEPT ![k] = 0]
  /\ cda' = [cda EXCEPT ![k] = NoCda]
  /\ Returns(k, "ok")
  /\ UNCHANGED <<session, cursor, txn, table>>

-----------------------------------------------------------------------------
(* connection.                                                             *)

Null(k) == conn[k].m_state = 1 /\ ~conn[k].m_conn

(* A connected object returns at once.  Otherwise each of the calls that   *)
(* open the session may fail, which leaves the object unconnected.         *)
ConnectToDb(k, autocommit) ==
  /\ alive[k]
  /\ \/ /\ conn[k].m_state = 1
        /\ Returns(k, "ok")
        /\ UNCHANGED <<conn, session>>
     \/ /\ conn[k].m_state = 0
        /\ conn' = [conn EXCEPT ![k].m_conn = FALSE]
        /\ Returns(k, "error")
        /\ UNCHANGED session
     \/ /\ conn[k].m_state = 0
        /\ conn' = [conn EXCEPT ![k] = [m_state |-> 1, m_conn |-> TRUE,
                                        autocommit |-> autocommit]]
        /\ session' = [session EXCEPT ![k] = "up"]
        /\ Returns(k, "ok")
  /\ UNCHANGED <<alive, stmt, bound, sent, out, got, cursor, found, cda,
                 txn, table>>

CloseAndPoint(k) == stmt' = [stmt EXCEPT ![k] = Stale(@)] /\ EndSession(k)
                     /\ UNCHANGED conn

(* mysql_close and m_conn = NULL, in commit and rollback: m_state is left. *)
CloseHandle(k) ==
  /\ conn' = [conn EXCEPT ![k].m_conn = FALSE]
  /\ stmt' = [stmt EXCEPT ![k] = Stale(@)]
  /\ EndSession(k)

(* commit.  A commit that fails may have reached the database or not.      *)
Commit(k) ==
  /\ alive[k]
  /\ \/ /\ conn[k].m_state = 0
        /\ Returns(k, "error")
        /\ UNCHANGED <<alive, objects, session, txn, table>>
     \/ Null(k) /\ Dies(k)
     \/ /\ session[k] = "up"
        /\ table' = View(k)
        /\ txn' = [txn EXCEPT ![k] = NoChanges]
        /\ Returns(k, "ok")
        /\ UNCHANGED <<alive, objects, session>>
     \/ /\ session[k] \in {"up", "lost"}
        /\ table' \in {table, View(k)}
        /\ CloseHandle(k)
        /\ Returns(k, "error")
        /\ UNCHANGED <<alive, bound, sent, out, got, found, cda>>

Rollback(k) ==
  /\ alive[k]
  /\ \/ /\ conn[k].m_state = 0
        /\ Returns(k, "error")
        /\ UNCHANGED <<alive, objects, session, txn>>
     \/ Null(k) /\ Dies(k)
     \/ /\ session[k] = "up"
        /\ txn' = [txn EXCEPT ![k] = NoChanges]
        /\ Returns(k, "ok")
        /\ UNCHANGED <<alive, objects, session>>
     \/ /\ session[k] \in {"up", "lost"}
        /\ CloseHandle(k)
        /\ Returns(k, "error")
        /\ UNCHANGED <<alive, bound, sent, out, got, found, cda>>
  /\ UNCHANGED table

(* disconnect, which is the destructor as well: rollback, whose result is  *)
(* ignored, and the handle, if it is still there, is closed.               *)
ConnDisconnect(k) ==
  /\ alive[k]
  /\ \/ /\ conn[k].m_state = 0
        /\ Returns(k, "error")
        /\ UNCHANGED <<alive, objects, session, txn>>
     \/ Null(k) /\ Dies(k)
     \/ /\ conn[k].m_state = 1 /\ conn[k].m_conn
        /\ conn' = [conn EXCEPT ![k].m_conn = FALSE, ![k].m_state = 0]
        /\ stmt' = [stmt EXCEPT ![k] = Stale(@)]
        /\ EndSession(k)
        /\ Returns(k, "ok")
        /\ UNCHANGED <<alive, bound, sent, out, got, found, cda>>
  /\ UNCHANGED table

-----------------------------------------------------------------------------
(* sqlstatement.                                                           *)

Unconnected(k) == conn[k].m_state = 0

(* connect, and the constructor with a connection.                         *)
StmtConnect(k) ==
  /\ alive[k]
  /\ \/ /\ stmt[k].m_state = 1
        /\ Returns(k, "ok")
        /\ UNCHANGED <<alive, objects, session, txn>>
     \/ /\ stmt[k].m_state = 0
        /\ Unconnected(k)
        /\ Reports(k, 1)
        /\ Returns(k, "error")
        /\ UNCHANGED <<alive, conn, stmt, bound, sent, out, got, cursor,
                       found, session, txn>>
     \/ stmt[k].m_state = 0 /\ Null(k) /\ Dies(k)
     \/ /\ stmt[k].m_state = 0
        /\ conn[k].m_state = 1 /\ conn[k].m_conn
        /\ \/ /\ stmt' = [stmt EXCEPT ![k].m_state = 1,
                                      ![k].handle = "live"]
              /\ Reports(k, 0)
              /\ Returns(k, "ok")
           \/ /\ Reports(k, 1)
              /\ Returns(k, "error")
              /\ UNCHANGED stmt
        /\ UNCHANGED <<alive, conn, bound, sent, out, got, cursor, found,
                       session, txn>>
  /\ UNCHANGED table

StmtDisconnect(k) ==
  /\ alive[k]
  /\ Returns(k, "ok")
  /\ \/ stmt[k].m_state = 0 /\ UNCHANGED <<stmt, sent, out, cursor, cda>>
     \/ /\ stmt[k].m_state = 1
        /\ stmt' = [stmt EXCEPT ![k].m_state = 0, ![k].handle = "null",
                                ![k].sql = NoSql]
        /\ sent' = [sent EXCEPT ![k] = NoVar]
        /\ out' = [out EXCEPT ![k] = "none"]
        /\ cursor' = [cursor EXCEPT ![k] = <<>>]
        /\ cda' = [cda EXCEPT ![k] = NoCda]
  /\ UNCHANGED <<alive, conn, session, bound, got, found, txn, table>>

(* The destructor: disconnect, and the object is gone, as are the          *)
(* variables its columns were bound to, which are locals like itself.      *)
StmtDestroy(k) ==
  /\ alive[k]
  /\ stmt' = [stmt EXCEPT ![k] = NoStmt]
  /\ bound' = [bound EXCEPT ![k] = NoVar]
  /\ sent' = [sent EXCEPT ![k] = NoVar]
  /\ out' = [out EXCEPT ![k] = "none"]
  /\ got' = [got EXCEPT ![k] = NoVar]
  /\ cursor' = [cursor EXCEPT ![k] = <<>>]
  /\ found' = [found EXCEPT ![k] = 0]
  /\ cda' = [cda EXCEPT ![k] = NoCda]
  /\ Returns(k, "ok")
  /\ UNCHANGED <<alive, conn, session, txn, table>>

(* A statement can reach the database through its handle.                  *)
Reaches(k) == stmt[k].handle = "live" /\ session[k] = "up"

NotBoundStmt(k) ==
  /\ stmt[k].m_state = 0
  /\ Reports(k, 1)
  /\ Returns(k, "error")
  /\ UNCHANGED <<stmt, bound, sent, cursor, found, txn, table>>

(* memset of params_in and params_out; the new statement has taken nothing *)
(* over.                                                                   *)
ClearBindings(k) ==
  /\ bound' = [bound EXCEPT ![k] = NoVar]
  /\ sent' = [sent EXCEPT ![k] = NoVar]
  /\ out' = [out EXCEPT ![k] = "none"]

(* prepare: the text is rewritten for MySQL (CRecords) and sent.          *)
Prepare(k, sql) ==
  /\ alive[k]
  /\ \/ NotBoundStmt(k) /\ UNCHANGED out
     \/ /\ stmt[k].m_state = 1
        /\ Reaches(k)
        /\ stmt' = [stmt EXCEPT ![k].sql = sql, ![k].maxbindin = 0,
                      ![k].sqltype = IF IsQuery(sql) THEN "query" ELSE "other"]
        /\ ClearBindings(k)
        /\ cursor' = [cursor EXCEPT ![k] = <<>>]
        /\ found' = [found EXCEPT ![k] = 0]
        /\ cda' = [cda EXCEPT ![k] = [rc |-> 0, rpc |-> 0]]
        /\ Returns(k, "ok")
        /\ UNCHANGED <<txn, table>>
     \/ /\ stmt[k].m_state = 1
        /\ stmt' = [stmt EXCEPT ![k].sql = NoSql]
        /\ sent' = [sent EXCEPT ![k] = NoVar]
        /\ out' = [out EXCEPT ![k] = "none"]
        /\ cursor' = [cursor EXCEPT ![k] = <<>>]
        /\ cda' = [cda EXCEPT ![k] = [rc |-> 1, rpc |-> 0]]
        /\ Returns(k, "error")
        /\ UNCHANGED <<bound, found, txn, table>>
  /\ UNCHANGED <<alive, conn, session, got>>

(* bindin of one of the types.  A position that the statement does not     *)
(* have is reported in m_cda, but the method goes on and returns 0.        *)
Bindin(k, position, var) ==
  /\ alive[k]
  /\ \/ NotBoundStmt(k)
     \/ /\ stmt[k].m_state = 1
        /\ bound' = IF position = 1 THEN [bound EXCEPT ![k] = var] ELSE bound
        /\ stmt' = IF position > stmt[k].maxbindin
                      /\ stmt[k].maxbindin # Garbage
                   THEN [stmt EXCEPT ![k].maxbindin = position] ELSE stmt
        /\ cda' = IF position > (IF HasParam(stmt[k].sql) THEN 1 ELSE 0)
                  THEN [cda EXCEPT ![k].rc = 1] ELSE cda
        /\ Returns(k, "ok")
        /\ UNCHANGED <<sent, cursor, found, txn, table>>
  /\ UNCHANGED <<alive, conn, session, out, got>>

(* bindout.  What was taken over is not changed by it any more.            *)
Bindout(k, position) ==
  /\ alive[k]
  /\ \/ NotBoundStmt(k) /\ UNCHANGED out
     \/ /\ stmt[k].m_state = 1
        /\ out' = IF position = 1 /\ out[k] = "none"
                  THEN [out EXCEPT ![k] = "bound"] ELSE out
        /\ cda' = IF position > (IF IsQuery(stmt[k].sql) THEN 1 ELSE 0)
                  THEN [cda EXCEPT ![k].rc = 1] ELSE cda
        /\ Returns(k, "ok")
        /\ UNCHANGED <<stmt, bound, sent, cursor, found, txn, table>>
  /\ UNCHANGED <<alive, conn, session, got>>

(* mysql_stmt_bind_param and mysql_stmt_bind_result are called unless they *)
(* were since the prepare.                                                 *)
TakeOnce(k) == IF sent[k] = NoVar THEN bound[k] ELSE sent[k]
TakeOutOnce(k) ==
  out' = IF IsQuery(stmt[k].sql)
         THEN [out EXCEPT ![k] = CASE @ = "bound" -> "taken"
                                   [] @ = "none"  -> "lost"
                                   [] OTHER       -> @]
         ELSE out

ExecuteFails(k) ==
  /\ cursor' = [cursor EXCEPT ![k] = <<>>]
  /\ cda' = [cda EXCEPT ![k] = [rc |-> 1, rpc |-> 0]]
  /\ Returns(k, "error")
  /\ UNCHANGED <<found, txn, table>>

(* Without autocommit the changes stay in the transaction, and hold a lock *)
(* on each row they touch.                                                 *)
ExecuteWrite(k, value) ==
  LET sql == stmt[k].sql
  IN /\ \A r \in Touches(k, sql, value) : ~Locked(r, k)
     /\ sql.kind = "insert" => View(k)[sql.row] = Absent
     /\ IF conn[k].autocommit
        THEN /\ table' = [r \in Rows |-> IF Changes(k, sql, value)[r] = Same
                            THEN table[r] ELSE Changes(k, sql, value)[r]]
             /\ UNCHANGED txn
        ELSE /\ txn' = [txn EXCEPT ![k] = Changes(k, sql, value)]
             /\ UNCHANGED table
     /\ cda' = [cda EXCEPT ![k] = [rc |-> 0,
                  rpc |-> Cardinality(Touches(k, sql, value))]]
     /\ cursor' = [cursor EXCEPT ![k] = <<>>]
     /\ Returns(k, "ok")
     /\ UNCHANGED found

ExecuteQuery(k) ==
  LET v == View(k)[stmt[k].sql.row]
      rows == IF v = Absent THEN <<>> ELSE <<v>>
  IN /\ cursor' = [cursor EXCEPT ![k] = rows]
     /\ found' = [found EXCEPT ![k] = Len(rows)]
     /\ cda' = [cda EXCEPT ![k] = [rc |-> 0, rpc |-> 0]]
     /\ Returns(k, "ok")
     /\ UNCHANGED <<txn, table>>

(* execute.  The loop over the first maxbindin parameters runs over a      *)
(* number that was never set when no prepare has succeeded: it may read    *)
(* outside of the object.  A statement that no prepare has accepted fails  *)
(* with the error of the prepare.                                          *)
Execute(k) ==
  /\ alive[k]
  /\ \/ /\ NotBoundStmt(k)
        /\ UNCHANGED <<alive, session, conn, out, got>>
     \/ /\ stmt[k].m_state = 1 /\ stmt[k].maxbindin = Garbage
        /\ Dies(k)
     \/ /\ stmt[k].m_state = 1
        /\ LET value == TakeOnce(k)
               ready == /\ Reaches(k) /\ stmt[k].sql # NoSql
                        /\ HasParam(stmt[k].sql) => value # NoVar
           IN /\ sent' = IF HasParam(stmt[k].sql)
                         THEN [sent EXCEPT ![k] = value] ELSE sent
              /\ TakeOutOnce(k)
              /\ \/ ExecuteFails(k)
                 \/ ready /\ IsQuery(stmt[k].sql) /\ ExecuteQuery(k)
                 \/ ready /\ ~IsQuery(stmt[k].sql) /\ ExecuteWrite(k, value)
        /\ UNCHANGED <<alive, session, conn, stmt, bound, got>>

CountNoRow(k) ==
  /\ Returns(k, "nodata")
  /\ cda' = [cda EXCEPT ![k].rpc = @ + 1]
  /\ UNCHANGED cursor

(* MYSQL_NO_DATA is returned as it is: 100, where _mysql.h:200 says 1403.  *)
NoMoreRows(k) == Returns(k, "nodata") /\ UNCHANGED <<cursor, cda>>

(* A row is fetched into the variable that was bound when execute ran.     *)
FetchRow(k) ==
  /\ cursor' = [cursor EXCEPT ![k] = Tail(@)]
  /\ got' = [got EXCEPT ![k] = IF out[k] = "taken" THEN Head(cursor[k]) ELSE @]
  /\ cda' = [cda EXCEPT ![k].rpc = @ + 1]
  /\ Returns(k, "ok")

(* next.                                                                   *)
FetchNext(k) ==
  /\ alive[k]
  /\ \/ NotBoundStmt(k) /\ UNCHANGED got
     \/ /\ stmt[k].m_state = 1
        /\ \/ /\ cda[k].rc # 0
              /\ Returns(k, "error")
              /\ UNCHANGED <<cursor, cda, got>>
           \/ /\ cda[k].rc = 0
              /\ stmt[k].sqltype # "query" \/ ~Reaches(k)
              /\ Reports(k, 1)
              /\ Returns(k, "error")
              /\ UNCHANGED <<cursor, got>>
           \/ /\ cda[k].rc = 0 /\ stmt[k].sqltype = "query" /\ Reaches(k)
              /\ IF cursor[k] = <<>> THEN NoMoreRows(k) /\ UNCHANGED got
                                     ELSE FetchRow(k)
        /\ UNCHANGED <<stmt, bound, sent, found, txn, table>>
  /\ UNCHANGED <<alive, conn, session, out>>

(* A program may call any method at any time, once it has prepared before  *)
(* it binds and executed before it fetches.                                *)
MethodCall(k) ==
  \/ \E autocommit \in BOOLEAN : ConnectToDb(k, autocommit)
  \/ Commit(k)
  \/ Rollback(k)
  \/ ConnDisconnect(k)
  \/ StmtConnect(k)
  \/ StmtDisconnect(k)
  \/ StmtDestroy(k)
  \/ \E sql \in Sqls : Prepare(k, sql)
  \/ \E position \in 1 .. 2, var \in Values : Bindin(k, position, var)
  \/ \E position \in 1 .. 2 : Bindout(k, position)
  \/ Execute(k)
  \/ FetchNext(k)

MysqlNext ==
  \E k \in Programs : MethodCall(k) \/ SessionLost(k) \/ StartAgain(k)

MysqlSpec == MysqlInit /\ [][MysqlNext]_mysqlVars

-----------------------------------------------------------------------------
Connections == [m_state : {0, 1}, m_conn : BOOLEAN, autocommit : BOOLEAN]

Statements == [m_state : {0, 1}, handle : {"null", "live", "stale"},
               sql : Sqls \cup {NoSql}, sqltype : {"garbage", "query", "other"},
               maxbindin : {Garbage, 0, 1, 2}]

Cdas == [rc : {0, 1}, rpc : 0 .. Cardinality(Rows)]

(* Every variable keeps to its range.                                      *)
MysqlTypeOK ==
  /\ alive \in [Programs -> BOOLEAN]
  /\ conn \in [Programs -> Connections]
  /\ session \in [Programs -> {"none", "up", "lost"}]
  /\ stmt \in [Programs -> Statements]
  /\ bound \in [Programs -> Values \cup {NoVar}]
  /\ sent \in [Programs -> Values \cup {NoVar}]
  /\ out \in [Programs -> {"none", "bound", "taken", "lost"}]
  /\ got \in [Programs -> Values \cup {NoVar}]
  /\ cursor \in [Programs -> {<<>>} \cup {<<v>> : v \in Values}]
  /\ found \in [Programs -> {0, 1}]
  /\ cda \in [Programs -> Cdas]
  /\ ret \in [Programs -> {"ok", "error", "nodata"}]
  /\ txn \in [Programs -> [Rows -> Values \cup {Same}]]
  /\ table \in [Rows -> Values \cup {Absent}]

(* Whatever the order of the calls, the statement of a program that runs   *)
(* never holds a handle on a MYSQL object that was closed under it         *)
(* (_mysql.cpp:154: a failed commit or rollback closes it, m_state says    *)
(* nothing of that), and no object is connected without a session.         *)
StatementHasHandle ==
  \A k \in Programs :
    alive[k] => /\ stmt[k].handle = "live" => conn[k].m_conn
                /\ conn[k].m_conn <=> session[k] # "none"

(* _mysql.h:203: rpc grows by one with each row that is fetched; with the  *)
(* rows still to come it makes the size of the result set, whatever        *)
(* binding, failed call or new execution came in between.                  *)
RpcCountsRows ==
  \A k \in Programs :
    Reaches(k) /\ IsQuery(stmt[k].sql) /\ cda[k].rc = 0 =>
      cda[k].rpc + Len(cursor[k]) = found[k]
=============================================================================
