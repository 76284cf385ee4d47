--------------------------- MODULE UserDataProofs ---------------------------
(***************************************************************************)
(* The data of the users, for any number of users, sessions, programs and  *)
(* rows, from its two sides.                                               *)
(*                                                                         *)
(* The callbacks of the server (Presence): a chat is forwarded to nobody   *)
(* but a session that holds a login of its addressee, whatever updates     *)
(* fail; nobody is logged in twice and every success code is true, unless  *)
(* it is of a login whose failed update was ignored.                       *)
(*                                                                         *)
(* The database (MCDatabase): whatever order the methods of the wrapper    *)
(* are called in, no handle outlives its MYSQL object; and the methods of  *)
(* UserModel, for all their ignored results, keep the promise of UserTable *)
(* and leave nothing open.  DatabaseInv is the inductive invariant: a part *)
(* about the wrapper alone (WrapInv), which every method keeps, and a part *)
(* about each call of a model (CallInv), phase by phase of its script.  A  *)
(* step of one program is followed through StepOK, what it does to the     *)
(* objects, and StepResult, what it does to the call; the locks on the     *)
(* rows (RowLocks) are what keeps it away from the calls of the others.    *)
(***************************************************************************)
EXTENDS Presence, MCDatabase, FiniteSetTheorems, TLAPS

-----------------------------------------------------------------------------
(* The callbacks of the server.                                            *)

(* An online user whose session is in the map holds a login.               *)
OnlineLoggedIn ==
  \A u \in Users :
    state[u] = "online" /\ uuid[u] \in connected => uuid[u] \in LoggedIn(u)

(* A login acknowledged is in its row, if the update had worked.           *)
LoginStored == reply.user \notin misled => LoginSuccessIsOnline

(* A registration or a friendship acknowledged is in its table.            *)
RowsStored ==
  /\ reply.op = "register" /\ reply.ok => reply.user \in exists
  /\ reply.op = "addfriend" /\ reply.ok => <<reply.user, reply.with>> \in friend

IInv == /\ TypeOK
        /\ OnlineLoggedIn
        /\ ForwardedToOwner
        /\ RowsStored
        /\ NoDoubleLogin
        /\ LoginStored

-----------------------------------------------------------------------------
(* The process dies, its tables keep to their types.                       *)
LEMMA GoneInv ==
  ASSUME TypeOK, Gone,
         exists \subseteq exists', exists' \subseteq Users,
         friend' \subseteq exists' \X exists',
         state' \in [Users -> {"online", "offline"}],
         uuid' \in [Users -> spent \cup {None}],
         \A u \in Users \ exists' : state'[u] = "offline" /\ uuid'[u] = None
  PROVE  IInv'
<1> USE DEF Gone, NoReply
<1>1. TypeOK'
  BY DEF TypeOK, Ops
<1>2. OnlineLoggedIn' /\ ForwardedToOwner' /\ RowsStored'
  BY DEF OnlineLoggedIn, ForwardedToOwner, RowsStored
<1>3. NoDoubleLogin' /\ LoginStored'
  BY DEF NoDoubleLogin, LoginStored, LoginSuccessIsOnline, LoggedIn
<1> QED BY <1>1, <1>2, <1>3 DEF IInv

LEMMA ConnectInv ==
  ASSUME IInv, Connect PROVE IInv'
<1> USE DEF Connect, server, tables, logins, NoReply
<1>1. TypeOK'
  BY DEF IInv, TypeOK
<1>2. OnlineLoggedIn'
  BY NoneAssumption DEF IInv, TypeOK, OnlineLoggedIn, LoggedIn
<1>3. ForwardedToOwner'
  BY DEF IInv, ForwardedToOwner
<1>4. RowsStored'
  BY DEF IInv, RowsStored
<1>5. NoDoubleLogin'
  BY DEF IInv, NoDoubleLogin, LoggedIn
<1>6. LoginStored'
  BY DEF IInv, LoginStored, LoginSuccessIsOnline
<1> QED BY <1>1, <1>2, <1>3, <1>4, <1>5, <1>6 DEF IInv

LEMMA DisconnectInv ==
  ASSUME IInv, Disconnect PROVE IInv'
<1> USE DEF Disconnect, server, tables, logins, NoReply
<1>1. TypeOK'
  BY DEF IInv, TypeOK
<1>2. OnlineLoggedIn'
  BY DEF IInv, OnlineLoggedIn, LoggedIn
<1>3. ForwardedToOwner'
  BY DEF IInv, ForwardedToOwner
<1>4. RowsStored'
  BY DEF IInv, RowsStored
<1>5. NoDoubleLogin'
  BY DEF IInv, NoDoubleLogin, LoggedIn
<1>6. LoginStored'
  BY DEF IInv, LoginStored, LoginSuccessIsOnline
<1> QED BY <1>1, <1>2, <1>3, <1>4, <1>5, <1>6 DEF IInv

LEMMA CrashInv ==
  ASSUME IInv, Crash PROVE IInv'
  BY GoneInv DEF Crash, tables, IInv, TypeOK

LEMMA RestartInv ==
  ASSUME IInv, Restart PROVE IInv'
<1> USE DEF Restart, server, tables, logins, NoReply
<1>1. TypeOK'
  BY DEF IInv, TypeOK
<1>2. OnlineLoggedIn'
  BY DEF IInv, OnlineLoggedIn, LoggedIn
<1>3. ForwardedToOwner'
  BY DEF IInv, ForwardedToOwner
<1>4. RowsStored'
  BY DEF IInv, RowsStored
<1>5. NoDoubleLogin'
  BY DEF IInv, NoDoubleLogin, LoggedIn
<1>6. LoginStored'
  BY DEF IInv, LoginStored, LoginSuccessIsOnline
<1> QED BY <1>1, <1>2, <1>3, <1>4, <1>5, <1>6 DEF IInv

LEMMA LoginRefusedInv ==
  ASSUME IInv, NEW s \in Sessions, LoginRefused(s) PROVE IInv'
<1> USE DEF LoginRefused, server, tables, logins, NoReply, Serving, WillReply
<1>1. TypeOK'
  BY DEF IInv, TypeOK, Ops
<1>2. OnlineLoggedIn'
  BY DEF IInv, OnlineLoggedIn, LoggedIn
<1>3. ForwardedToOwner'
  BY DEF ForwardedToOwner
<1>4. RowsStored'
  BY DEF RowsStored
<1>5. NoDoubleLogin'
  BY DEF IInv, NoDoubleLogin, LoggedIn
<1>6. LoginStored'
  BY DEF LoginStored, LoginSuccessIsOnline
<1> QED BY <1>1, <1>2, <1>3, <1>4, <1>5, <1>6 DEF IInv

LEMMA OneChatSentInv ==
  ASSUME IInv, NEW s \in Sessions, OneChatSent(s) PROVE IInv'
<1> USE DEF OneChatSent, server, tables, logins, NoReply, Serving, WillReply, Online, Found
<1>1. TypeOK'
  BY DEF IInv, TypeOK, Ops
<1>2. OnlineLoggedIn'
  BY DEF IInv, OnlineLoggedIn, LoggedIn
<1>3. ForwardedToOwner'
  BY DEF IInv, ForwardedToOwner, OnlineLoggedIn, LoggedIn
<1>4. RowsStored'
  BY DEF RowsStored
<1>5. NoDoubleLogin'
  BY DEF IInv, NoDoubleLogin, LoggedIn
<1>6. LoginStored'
  BY DEF LoginStored, LoginSuccessIsOnline
<1> QED BY <1>1, <1>2, <1>3, <1>4, <1>5, <1>6 DEF IInv

LEMMA OneChatFailedInv ==
  ASSUME IInv, NEW s \in Sessions, OneChatFailed(s) PROVE IInv'
<1> USE DEF OneChatFailed, server, tables, logins, NoReply, Serving, WillReply
<1>1. TypeOK'
  BY DEF IInv, TypeOK, Ops
<1>2. OnlineLoggedIn'
  BY DEF IInv, OnlineLoggedIn, LoggedIn
<1>3. ForwardedToOwner'
  BY DEF ForwardedToOwner
<1>4. RowsStored'
  BY DEF RowsStored
<1>5. NoDoubleLogin'
  BY DEF IInv, NoDoubleLogin, LoggedIn
<1>6. LoginStored'
  BY DEF LoginStored, LoginSuccessIsOnline
<1> QED BY <1>1, <1>2, <1>3, <1>4, <1>5, <1>6 DEF IInv

LEMMA SendReplyInv ==
  ASSUME IInv, SendReply PROVE IInv'
<1> USE DEF SendReply, server, tables, logins, NoReply
<1>1. TypeOK'
  BY DEF IInv, TypeOK
<1>2. OnlineLoggedIn'
  BY DEF IInv, TypeOK, OnlineLoggedIn, LoggedIn
<1>3. ForwardedToOwner'
  BY DEF ForwardedToOwner
<1>4. RowsStored'
  BY DEF RowsStored
<1>5. NoDoubleLogin'
  BY DEF IInv, NoDoubleLogin, LoggedIn
<1>6. LoginStored'
  BY DEF LoginStored, LoginSuccessIsOnline
<1> QED BY <1>1, <1>2, <1>3, <1>4, <1>5, <1>6 DEF IInv

LEMMA RegisterInv ==
  ASSUME IInv, NEW s \in Sessions, Register(s) PROVE IInv'
<1> USE DEF Register, InsertUser, server, tables, logins, NoReply, Serving, WillReply
<1> PICK u \in Users :
       \/ /\ InsertUser(u)
          /\ WillReply(s, "register", u, None, TRUE)
          /\ UNCHANGED <<server, logins>>
       \/ /\ WillReply(s, "register", u, None, FALSE)
          /\ UNCHANGED <<server, logins, exists>>
       \/ (InsertUser(u) \/ UNCHANGED exists) /\ Gone
  OBVIOUS
<1>1. CASE /\ InsertUser(u)
          /\ WillReply(s, "register", u, None, TRUE)
          /\ UNCHANGED <<server, logins>>
  <2>1. TypeOK'
    BY <1>1 DEF IInv, TypeOK, Ops
  <2>2. OnlineLoggedIn'
    BY <1>1 DEF IInv, OnlineLoggedIn, LoggedIn
  <2>3. ForwardedToOwner'
    BY <1>1 DEF ForwardedToOwner
  <2>4. RowsStored'
    BY <1>1 DEF RowsStored
  <2>5. NoDoubleLogin'
    BY <1>1 DEF IInv, NoDoubleLogin, LoggedIn
  <2>6. LoginStored'
    BY <1>1 DEF LoginStored, LoginSuccessIsOnline
  <2> QED BY <2>1, <2>2, <2>3, <2>4, <2>5, <2>6 DEF IInv
<1>2. CASE /\ WillReply(s, "register", u, None, FALSE)
          /\ UNCHANGED <<server, logins, exists>>
  <2>1. TypeOK'
    BY <1>2 DEF IInv, TypeOK, Ops
  <2>2. OnlineLoggedIn'
    BY <1>2 DEF IInv, OnlineLoggedIn, LoggedIn
  <2>3. ForwardedToOwner'
    BY <1>2 DEF ForwardedToOwner
  <2>4. RowsStored'
    BY <1>2 DEF RowsStored
  <2>5. NoDoubleLogin'
    BY <1>2 DEF IInv, NoDoubleLogin, LoggedIn
  <2>6. LoginStored'
    BY <1>2 DEF LoginStored, LoginSuccessIsOnline
  <2> QED BY <2>1, <2>2, <2>3, <2>4, <2>5, <2>6 DEF IInv
<1>3. CASE (InsertUser(u) \/ UNCHANGED exists) /\ Gone
  BY <1>3, GoneInv DEF IInv, TypeOK
<1> QED BY <1>1, <1>2, <1>3

LEMMA LoginAcceptedInv ==
  ASSUME IInv, NEW s \in Sessions, LoginAccepted(s) PROVE IInv'
<1> USE DEF LoginAccepted, server, tables, logins, NoReply, Serving, WillReply, MayLogin, Found,
           UpdateState, UpdateFails, UpdateDies, Row, SameRow
<1> PICK u \in Users :
       /\ MayLogin(u)
       /\ \/ /\ UpdateState(u, "online", s)
             /\ WillReply(s, "login", u, None, TRUE)
             /\ UNCHANGED <<server, logins>>
          \/ /\ UpdateFails
             /\ WillReply(s, "login", u, None, TRUE)
             /\ misled' = misled \cup {u}
             /\ UNCHANGED <<server, told>>
          \/ UpdateDies(u, "online", s)
  OBVIOUS
<1>1. CASE /\ UpdateState(u, "online", s)
          /\ WillReply(s, "login", u, None, TRUE)
          /\ UNCHANGED <<server, logins>>
  <2>1. TypeOK'
    BY <1>1 DEF IInv, TypeOK, Ops
  <2>2. OnlineLoggedIn'
    BY <1>1 DEF IInv, TypeOK, OnlineLoggedIn, LoggedIn
  <2>3. ForwardedToOwner'
    BY <1>1 DEF ForwardedToOwner
  <2>4. RowsStored'
    BY <1>1 DEF RowsStored
  <2>5. NoDoubleLogin'
    BY <1>1 DEF IInv, TypeOK, NoDoubleLogin, LoggedIn
  <2>6. LoginStored'
    BY <1>1 DEF IInv, TypeOK, LoginStored, LoginSuccessIsOnline
  <2> QED BY <2>1, <2>2, <2>3, <2>4, <2>5, <2>6 DEF IInv
<1>2. CASE /\ UpdateFails
          /\ WillReply(s, "login", u, None, TRUE)
          /\ misled' = misled \cup {u}
          /\ UNCHANGED <<server, told>>
  <2>1. TypeOK'
    BY <1>2 DEF IInv, TypeOK, Ops
  <2>2. OnlineLoggedIn'
    BY <1>2 DEF IInv, OnlineLoggedIn, LoggedIn
  <2>3. ForwardedToOwner'
    BY <1>2 DEF ForwardedToOwner
  <2>4. RowsStored'
    BY <1>2 DEF RowsStored
  <2>5. NoDoubleLogin'
    BY <1>2 DEF IInv, NoDoubleLogin, LoggedIn
  <2>6. LoginStored'
    BY <1>2 DEF LoginStored
  <2> QED BY <2>1, <2>2, <2>3, <2>4, <2>5, <2>6 DEF IInv
<1>3. CASE UpdateDies(u, "online", s)
  BY <1>3, GoneInv DEF IInv, TypeOK
<1> QED BY <1>1, <1>2, <1>3

LEMMA LogoutInv ==
  ASSUME IInv, NEW s \in Sessions, Logout(s) PROVE IInv'
<1> USE DEF Logout, server, tables, logins, NoReply, Serving,
           UpdateState, UpdateFails, UpdateDies, Row, SameRow
<1> PICK u \in exists :
       \/ /\ UpdateState(u, "offline", None)
          /\ told' = [told EXCEPT ![u] = {}]
          /\ misled' = misled \ {u}
          /\ UNCHANGED <<server, reply>>
       \/ /\ UpdateFails
          /\ UNCHANGED <<server, reply, logins>>
       \/ UpdateDies(u, "offline", None)
  OBVIOUS
<1>1. CASE /\ UpdateState(u, "offline", None)
          /\ told' = [told EXCEPT ![u] = {}]
          /\ misled' = misled \ {u}
          /\ UNCHANGED <<server, reply>>
  <2>1. TypeOK'
    BY <1>1 DEF IInv, TypeOK
  <2>2. OnlineLoggedIn'
    BY <1>1 DEF IInv, TypeOK, OnlineLoggedIn, LoggedIn
  <2>3. ForwardedToOwner'
    BY <1>1 DEF ForwardedToOwner
  <2>4. RowsStored'
    BY <1>1 DEF RowsStored
  <2>5. NoDoubleLogin'
    BY <1>1 DEF IInv, TypeOK, NoDoubleLogin, LoggedIn
  <2>6. LoginStored'
    BY <1>1 DEF LoginStored, LoginSuccessIsOnline
  <2> QED BY <2>1, <2>2, <2>3, <2>4, <2>5, <2>6 DEF IInv
<1>2. CASE /\ UpdateFails
          /\ UNCHANGED <<server, reply, logins>>
  <2>1. TypeOK'
    BY <1>2 DEF IInv, TypeOK
  <2>2. OnlineLoggedIn'
    BY <1>2 DEF IInv, OnlineLoggedIn, LoggedIn
  <2>3. ForwardedToOwner'
    BY <1>2 DEF ForwardedToOwner
  <2>4. RowsStored'
    BY <1>2 DEF RowsStored
  <2>5. NoDoubleLogin'
    BY <1>2 DEF IInv, NoDoubleLogin, LoggedIn
  <2>6. LoginStored'
    BY <1>2 DEF LoginStored, LoginSuccessIsOnline
  <2> QED BY <2>1, <2>2, <2>3, <2>4, <2>5, <2>6 DEF IInv
<1>3. CASE UpdateDies(u, "offline", None)
  BY <1>3, GoneInv DEF IInv, TypeOK
<1> QED BY <1>1, <1>2, <1>3

LEMMA AddFriendInv ==
  ASSUME IInv, NEW s \in Sessions, AddFriend(s) PROVE IInv'
<1> USE DEF AddFriend, InsertFriend, server, tables, logins, NoReply, Serving, WillReply
<1> PICK u \in Users, v \in Users :
       \/ /\ InsertFriend(u, v)
          /\ WillReply(s, "addfriend", u, v, TRUE)
          /\ UNCHANGED <<server, logins>>
       \/ /\ WillReply(s, "addfriend", u, v, FALSE)
          /\ UNCHANGED <<server, logins, friend>>
       \/ (InsertFriend(u, v) \/ UNCHANGED friend) /\ Gone
  OBVIOUS
<1>1. CASE /\ InsertFriend(u, v)
          /\ WillReply(s, "addfriend", u, v, TRUE)
          /\ UNCHANGED <<server, logins>>
  <2>1. TypeOK'
    BY <1>1 DEF IInv, TypeOK, Ops
  <2>2. OnlineLoggedIn'
    BY <1>1 DEF IInv, OnlineLoggedIn, LoggedIn
  <2>3. ForwardedToOwner'
    BY <1>1 DEF ForwardedToOwner
  <2>4. RowsStored'
    BY <1>1 DEF RowsStored
  <2>5. NoDoubleLogin'
    BY <1>1 DEF IInv, NoDoubleLogin, LoggedIn
  <2>6. LoginStored'
    BY <1>1 DEF LoginStored, LoginSuccessIsOnline
  <2> QED BY <2>1, <2>2, <2>3, <2>4, <2>5, <2>6 DEF IInv
<1>2. CASE /\ WillReply(s, "addfriend", u, v, FALSE)
          /\ UNCHANGED <<server, logins, friend>>
  <2>1. TypeOK'
    BY <1>2 DEF IInv, TypeOK, Ops
  <2>2. OnlineLoggedIn'
    BY <1>2 DEF IInv, OnlineLoggedIn, LoggedIn
  <2>3. ForwardedToOwner'
    BY <1>2 DEF ForwardedToOwner
  <2>4. RowsStored'
    BY <1>2 DEF RowsStored
  <2>5. NoDoubleLogin'
    BY <1>2 DEF IInv, NoDoubleLogin, LoggedIn
  <2>6. LoginStored'
    BY <1>2 DEF LoginStored, LoginSuccessIsOnline
  <2> QED BY <2>1, <2>2, <2>3, <2>4, <2>5, <2>6 DEF IInv
<1>3. CASE (InsertFriend(u, v) \/ UNCHANGED friend) /\ Gone
  BY <1>3, GoneInv DEF IInv, TypeOK
<1> QED BY <1>1, <1>2, <1>3

-----------------------------------------------------------------------------
LEMMA InitInv == Init => IInv
  BY DEF Init, IInv, TypeOK, OnlineLoggedIn, ForwardedToOwner, RowsStored,
     NoDoubleLogin, LoginStored, LoginSuccessIsOnline, LoggedIn, NoReply, Ops

LEMMA NextInv == IInv /\ [Next]_vars => IInv'
<1> SUFFICES ASSUME IInv, [Next]_vars PROVE IInv'
  OBVIOUS
<1>1. CASE Connect \/ Disconnect \/ Crash \/ Restart \/ SendReply
  BY <1>1, ConnectInv, DisconnectInv, CrashInv, RestartInv, SendReplyInv
<1>2. ASSUME NEW s \in Sessions, Callback(s) PROVE IInv'
  BY <1>2, RegisterInv, LoginAcceptedInv, LoginRefusedInv, LogoutInv,
     AddFriendInv, OneChatSentInv, OneChatFailedInv DEF Callback
<1>3. CASE UNCHANGED vars
  BY <1>3 DEF vars, IInv, TypeOK, OnlineLoggedIn, ForwardedToOwner, RowsStored,
              NoDoubleLogin, LoginStored, LoginSuccessIsOnline, LoggedIn
<1> QED BY <1>1, <1>2, <1>3 DEF Next

(* Every reachable state satisfies the inductive invariant.                *)
THEOREM Invariance == Spec => []IInv
  BY InitInv, NextInv, PTL DEF Spec

(* Every variable of the tables and of the sessions keeps to its type.     *)
THEOREM TypeCorrect == Spec => []TypeOK
<1>1. IInv => TypeOK
  BY DEF IInv
<1> QED BY <1>1, Invariance, PTL

(* However updates fail and whatever a dead process left in the table, a   *)
(* chat goes to no session but one that holds a login of its addressee.    *)
THEOREM ChatsFindTheirOwner == Spec => []ForwardedToOwner
<1>1. IInv => ForwardedToOwner
  BY DEF IInv
<1> QED BY <1>1, Invariance, PTL

(* No user is logged in twice, across disconnections and crashes, but for  *)
(* one who was told of a login whose update had failed.                    *)
THEOREM OneLogin == Spec => []NoDoubleLogin
<1>1. IInv => NoDoubleLogin
  BY DEF IInv
<1> QED BY <1>1, Invariance, PTL

(* With the same exception every success code is true of the database.     *)
THEOREM AcksAreTrue == Spec => []AckIsStored
<1>1. IInv => AckIsStored
  BY DEF IInv, LoginStored, RowsStored, AckIsStored
<1> QED BY <1>1, Invariance, PTL

-----------------------------------------------------------------------------
(***************************************************************************)
(* The wrapper, whatever the order of the calls.                           *)
(***************************************************************************)
(* The handle of a statement, the object m_conn of its connection and the  *)
(* session of the database, one by one.                                    *)
Handles(k) ==
  /\ alive[k] => /\ stmt[k].handle = "live" => conn[k].m_conn
                 /\ conn[k].m_conn <=> session[k] # "none"
  /\ ~alive[k] => session[k] = "none"
  /\ conn[k].m_state = 0 => ~conn[k].m_conn
  /\ stmt[k].m_state = 0 => stmt[k].handle = "null" /\ stmt[k].sql = NoSql
  /\ session[k] # "up" => txn[k] = NoChanges
  /\ cursor[k] # <<>> => IsQuery(stmt[k].sql) /\ session[k] # "none"

(* The rows that are fetched and those still to come make the result set.  *)
Counted(k) ==
  Reaches(k) /\ IsQuery(stmt[k].sql) /\ cda[k].rc = 0 =>
    cda[k].rpc + Len(cursor[k]) = found[k]

(* No row is changed by the open transactions of two programs.             *)
RowLocks ==
  \A j, k \in Programs : j # k =>
    \A r \in Rows : txn[j][r] = Same \/ txn[k][r] = Same

-----------------------------------------------------------------------------
(* The methods of the models, call by call.                                *)
Length(k) == Len(Script[call[k].method])

CallRecords ==
  [method : {"none", "insert", "updateState", "query", "resetState"},
   row : Rows \cup {"none"}, value : Values \cup {"none"},
   applied : BOOLEAN, seen : Values \cup {Absent, "none"}]

ResultRecords ==
  [method : {"none", "insert", "updateState", "query", "resetState"},
   row : Rows \cup {"none"}, ok : BOOLEAN, seen : Values \cup {"none"}]

Outcomes == [ok : BOOLEAN, seen : Values \cup {NoVar}]

CallTypeOK ==
  /\ call \in [Programs -> CallRecords]
  /\ result \in [Programs -> ResultRecords]
  /\ pc \in [Programs -> 0 .. 8]
  /\ outcome \in [Programs -> Outcomes]

(* A call that has begun: what BeginCall chose, and the two fields that    *)
(* record its effect.                                                      *)
Begun(c) ==
  /\ \/ c.method \in {"insert", "updateState"} /\ c.row \in Rows
                                               /\ c.value \in Values
     \/ c.method = "query" /\ c.row \in Rows
     \/ c.method = "resetState" /\ c.row = "none"
  /\ c.method # "query" \/ ~c.applied => c.seen = "none"
  /\ c.applied /\ c.method = "query" => c.seen \in Values \cup {Absent}

(* The local objects of a method, before they are used and after they are  *)
(* destroyed.                                                              *)
Fresh(k) ==
  stmt[k] = NoStmt /\ bound[k] = NoVar /\ sent[k] = NoVar
    /\ out[k] = "none" /\ got[k] = NoVar

Closed(k) == conn[k].m_state = 0 /\ session[k] = "none"

Idle(k) == pc[k] = 0 => /\ call[k] = NoCall
                        /\ alive[k] => Closed(k) /\ Fresh(k)

(* Before execute nothing has happened yet.  A statement that maxbindin    *)
(* says was prepared is the one of the call, with its value bound.         *)
Preparing(k) ==
  pc[k] \in 1 .. Length(k) - 1 =>
    /\ ~call[k].applied /\ txn[k] = NoChanges
    /\ got[k] = NoVar /\ sent[k] = NoVar /\ cursor[k] = <<>>
    /\ pc[k] = 1 => Closed(k)
    /\ pc[k] <= 2 => Fresh(k)
    /\ pc[k] <= 3 => stmt[k].maxbindin = Garbage
    /\ stmt[k].maxbindin = Garbage => stmt[k].sql = NoSql
    /\ stmt[k].maxbindin # Garbage =>
         /\ stmt[k].m_state = 1 /\ stmt[k].sql = SqlOf(call[k])
         /\ call[k].method = "query" =>
              out[k] = IF pc[k] = 5 THEN "bound" ELSE "none"
         /\ call[k].method \in {"insert", "updateState"} /\ pc[k] = 5 =>
              bound[k] = call[k].value

Connected(k) ==
  pc[k] \in 2 .. Length(k) =>
    conn[k] = [m_state |-> 1, m_conn |-> TRUE, autocommit |-> FALSE]

(* The open transaction of a call holds its effect, and the rows it holds  *)
(* are still as the call has found them.                                   *)
Pending(k) ==
  pc[k] # 0 =>
    \A r \in Rows : txn[k][r] # Same =>
      CASE call[k].method = "insert" ->
             r = call[k].row /\ txn[k][r] = call[k].value /\ table[r] = Absent
        [] call[k].method = "updateState" ->
             r = call[k].row /\ txn[k][r] = call[k].value /\ table[r] # Absent
        [] call[k].method = "resetState" ->
             txn[k][r] = "offline" /\ table[r] = "online"
        [] call[k].method = "query" -> FALSE

(* Between execute and the commit, or next: the effect is there, or it is  *)
(* in the transaction, or it is lost with the session.                     *)
Executed(k) ==
  pc[k] # 0 /\ pc[k] = Length(k) =>
    /\ got[k] = NoVar
    /\ call[k].applied => txn[k] = NoChanges
    /\ call[k].method = "query" =>
         /\ call[k].applied /\ out[k] = "taken"
         /\ cursor[k] = IF call[k].seen = Absent THEN <<>>
                                                 ELSE <<call[k].seen>>
    /\ call[k].method # "query" =>
         /\ session[k] = "up" /\ ~call[k].applied => txn[k] # NoChanges
         /\ cursor[k] = <<>> /\ ~IsQuery(stmt[k].sql)

(* While the objects are destroyed, the outcome says what has happened,    *)
(* but for a commit that has failed: its connection has no m_conn left.    *)
Leaving(k) ==
  pc[k] > Length(k) =>
    /\ txn[k] = NoChanges
    /\ outcome[k].ok =>
         /\ conn[k].m_state = 1
         /\ call[k].method = "query" => call[k].applied
         /\ conn[k].m_conn => call[k].applied
         /\ outcome[k].seen = call[k].seen /\ call[k].seen # Absent
    /\ ~outcome[k].ok /\ call[k].method # "query" => ~call[k].applied
    /\ pc[k] = Length(k) + 2 => Fresh(k)

CallInv(k) ==
  /\ ~conn[k].autocommit
  /\ pc[k] # 0 => alive[k] /\ Begun(call[k]) /\ pc[k] \in 1 .. Length(k) + 2
  /\ Idle(k)
  /\ pc[k] # 0 => /\ Preparing(k) /\ Connected(k) /\ Pending(k)
                  /\ Executed(k) /\ Leaving(k)

WrapInv ==
  /\ MysqlTypeOK
  /\ \A k \in Programs : Handles(k) /\ Counted(k)
  /\ RowLocks

DatabaseInv ==
  /\ WrapInv
  /\ CallTypeOK
  /\ layer \in {"models", "wrapper"}
  /\ layer = "models" => \A k \in Programs : CallInv(k)
  /\ layer = "wrapper" => \A k \in Programs : call[k] = NoCall /\ pc[k] = 0

-----------------------------------------------------------------------------
LEMMA ConnectionFields ==
  /\ NoConn \in Connections
  /\ \A c \in Connections :
       /\ [c EXCEPT !.m_conn = FALSE] \in Connections
       /\ [c EXCEPT !.m_conn = FALSE, !.m_state = 0] \in Connections
  /\ \A autocommit \in BOOLEAN :
       [m_state |-> 1, m_conn |-> TRUE, autocommit |-> autocommit]
         \in Connections
<1>1. NoConn \in Connections
  BY DEF NoConn, Connections
<1>2. ASSUME NEW c \in Connections
      PROVE  /\ [c EXCEPT !.m_conn = FALSE] \in Connections
             /\ [c EXCEPT !.m_conn = FALSE, !.m_state = 0] \in Connections
  BY DEF Connections
<1>3. ASSUME NEW autocommit \in BOOLEAN
      PROVE  [m_state |-> 1, m_conn |-> TRUE, autocommit |-> autocommit]
               \in Connections
  BY Zenon DEF Connections
<1> QED BY <1>1, <1>2, <1>3

LEMMA StatementFields ==
  /\ NoStmt \in Statements
  /\ \A s \in Statements :
       /\ Stale(s) \in Statements
       /\ [s EXCEPT !.m_state = 1, !.handle = "live"] \in Statements
       /\ [s EXCEPT !.m_state = 0, !.handle = "null", !.sql = NoSql]
            \in Statements
       /\ [s EXCEPT !.sql = NoSql] \in Statements
       /\ \A p \in 1 .. 2 : [s EXCEPT !.maxbindin = p] \in Statements
       /\ \A sql \in Sqls, t \in {"query", "other"} :
            [s EXCEPT !.sql = sql, !.maxbindin = 0, !.sqltype = t]
              \in Statements
<1>1. NoStmt \in Statements
  BY DEF NoStmt, Statements
<1>2. ASSUME NEW s \in Statements
      PROVE  /\ Stale(s) \in Statements
             /\ [s EXCEPT !.m_state = 1, !.handle = "live"] \in Statements
             /\ [s EXCEPT !.m_state = 0, !.handle = "null", !.sql = NoSql]
                  \in Statements
             /\ [s EXCEPT !.sql = NoSql] \in Statements
  BY DEF Statements, Stale
<1>3. ASSUME NEW s \in Statements, NEW p \in 1 .. 2
      PROVE  [s EXCEPT !.maxbindin = p] \in Statements
  BY DEF Statements
<1>4. ASSUME NEW s \in Statements, NEW sql \in Sqls, NEW t \in {"query", "other"}
      PROVE  [s EXCEPT !.sql = sql, !.maxbindin = 0, !.sqltype = t]
               \in Statements
  BY DEF Statements
<1> QED BY <1>1, <1>2, <1>3, <1>4

LEMMA CdaFields ==
  /\ NoCda \in Cdas
  /\ \A rc \in {0, 1} : /\ [rc |-> rc, rpc |-> 0] \in Cdas
                        /\ \A c \in Cdas : [c EXCEPT !.rc = rc] \in Cdas
BY RowsAssumption, FS_CardinalityType DEF NoCda, Cdas

(* A step of program k leaves the other programs as they are.              *)
Frame(k) ==
  \A j \in Programs \ {k} :
    /\ alive'[j] = alive[j] /\ conn'[j] = conn[j] /\ session'[j] = session[j]
    /\ stmt'[j] = stmt[j] /\ bound'[j] = bound[j] /\ sent'[j] = sent[j]
    /\ out'[j] = out[j] /\ got'[j] = got[j] /\ cursor'[j] = cursor[j]
    /\ found'[j] = found[j] /\ cda'[j] = cda[j] /\ ret'[j] = ret[j]
    /\ txn'[j] = txn[j]

(* It leaves alone the rows that they have changed.                        *)
Respects(k) ==
  \A r \in Rows : Locked(r, k) => table'[r] = table[r] /\ txn'[k][r] = Same

StepOK(k) ==
  MysqlTypeOK' /\ Frame(k) /\ Handles(k)' /\ Counted(k)' /\ Respects(k)

LEMMA ChangesNothing ==
  ASSUME WrapInv, NEW k \in Programs,
         NEW r \in Rows, Locked(r, k)
  PROVE  txn[k][r] = Same
BY DEF WrapInv, RowLocks, Locked

LEMMA StepKeepsWrapInv ==
  ASSUME WrapInv, NEW k \in Programs, StepOK(k)
  PROVE  WrapInv'
<1>1. ASSUME NEW j \in Programs PROVE Handles(j)' /\ Counted(j)'
  <2>1. CASE j = k
    BY <2>1 DEF StepOK
  <2>2. CASE j # k
    BY <2>2 DEF WrapInv, StepOK, Frame, Handles, Counted, Reaches, IsQuery
  <2> QED BY <2>1, <2>2
<1>2. RowLocks'
  <2> SUFFICES ASSUME NEW i \in Programs, NEW j \in Programs, i # j,
                      NEW r \in Rows
               PROVE  txn'[i][r] = Same \/ txn'[j][r] = Same
    BY DEF RowLocks
  <2>1. CASE i # k /\ j # k
    BY <2>1 DEF WrapInv, RowLocks, StepOK, Frame
  <2>2. CASE i = k
    BY <2>2 DEF WrapInv, RowLocks, StepOK, Frame, Respects, Locked
  <2>3. CASE j = k
    BY <2>3 DEF WrapInv, RowLocks, StepOK, Frame, Respects, Locked
  <2> QED BY <2>1, <2>2, <2>3
<1> QED BY <1>1, <1>2 DEF WrapInv, StepOK

LEMMA DiesOK ==
  ASSUME WrapInv, NEW k \in Programs, Dies(k)
  PROVE  StepOK(k)
<1> USE DEF Dies, EndSession
<1>1. MysqlTypeOK'
  BY DEF WrapInv, MysqlTypeOK, NoChanges
<1>2. Frame(k)
  BY DEF WrapInv, MysqlTypeOK, Frame
<1>3. Handles(k)'
  BY DEF WrapInv, MysqlTypeOK, Handles, IsQuery
<1>4. Counted(k)'
  BY DEF WrapInv, MysqlTypeOK, Counted, Reaches
<1>5. Respects(k)
  BY DEF WrapInv, MysqlTypeOK, Respects, NoChanges
<1> QED BY <1>1, <1>2, <1>3, <1>4, <1>5 DEF StepOK

LEMMA SessionLostOK ==
  ASSUME WrapInv, NEW k \in Programs, SessionLost(k)
  PROVE  StepOK(k)
<1> USE DEF SessionLost, objects
<1>1. MysqlTypeOK'
  BY DEF WrapInv, MysqlTypeOK, NoChanges
<1>2. Frame(k)
  BY DEF WrapInv, MysqlTypeOK, Frame
<1>3. Handles(k)'
  BY DEF WrapInv, MysqlTypeOK, Handles, IsQuery
<1>4. Counted(k)'
  BY DEF WrapInv, MysqlTypeOK, Counted, Reaches
<1>5. Respects(k)
  BY DEF WrapInv, MysqlTypeOK, Respects, NoChanges
<1> QED BY <1>1, <1>2, <1>3, <1>4, <1>5 DEF StepOK

LEMMA StartAgainOK ==
  ASSUME WrapInv, NEW k \in Programs, StartAgain(k)
  PROVE  StepOK(k)
<1> USE DEF StartAgain, Returns
<1>1. MysqlTypeOK'
  BY ConnectionFields, StatementFields, CdaFields DEF WrapInv, MysqlTypeOK
<1>2. Frame(k)
  BY DEF WrapInv, MysqlTypeOK, Frame
<1>3. Handles(k)'
  BY DEF WrapInv, MysqlTypeOK, Handles, NoStmt, NoConn
<1>4. Counted(k)'
  BY DEF WrapInv, MysqlTypeOK, Counted, Reaches, NoStmt
<1>5. Respects(k)
  BY ChangesNothing DEF Respects
<1> QED BY <1>1, <1>2, <1>3, <1>4, <1>5 DEF StepOK

LEMMA ConnectToDbOK ==
  ASSUME WrapInv, NEW k \in Programs, NEW autocommit \in BOOLEAN,
         ConnectToDb(k, autocommit)
  PROVE  StepOK(k)
<1> USE DEF ConnectToDb, Returns
<1>1. MysqlTypeOK'
  <2>1. conn[k] \in Connections
    BY DEF WrapInv, MysqlTypeOK
  <2>2. conn' \in [Programs -> Connections]
    <3>1. CASE UNCHANGED conn
      BY <3>1 DEF WrapInv, MysqlTypeOK
    <3>2. CASE conn' = [conn EXCEPT ![k].m_conn = FALSE]
      BY <2>1, <3>2, ConnectionFields DEF WrapInv, MysqlTypeOK
    <3>3. CASE conn' = [conn EXCEPT ![k] = [m_state |-> 1, m_conn |-> TRUE,
                                            autocommit |-> autocommit]]
      <4> DEFINE opened == [m_state |-> 1, m_conn |-> TRUE,
                            autocommit |-> autocommit]
      <4>1. opened \in Connections /\ conn' = [conn EXCEPT ![k] = opened]
        BY <3>3, ConnectionFields
      <4> HIDE DEF opened
      <4> QED BY <4>1 DEF WrapInv, MysqlTypeOK
    <3> QED BY <3>1, <3>2, <3>3
  <2>3. session' \in [Programs -> {"none", "up", "lost"}]
    BY DEF WrapInv, MysqlTypeOK
  <2>4. ret' \in [Programs -> {"ok", "error", "nodata"}]
    BY DEF WrapInv, MysqlTypeOK
  <2> QED BY <2>2, <2>3, <2>4 DEF WrapInv, MysqlTypeOK
<1>2. Frame(k)
  BY DEF WrapInv, MysqlTypeOK, Frame
<1>3. Handles(k)'
  BY DEF WrapInv, MysqlTypeOK, Handles, IsQuery, Connections
<1>4. Counted(k)'
  BY DEF WrapInv, MysqlTypeOK, Counted, Reaches, Handles
<1>5. Respects(k)
  BY ChangesNothing DEF Respects
<1> QED BY <1>1, <1>2, <1>3, <1>4, <1>5 DEF StepOK

(* What the methods assign keeps to its range.                             *)
LEMMA StatementUpdates ==
  ASSUME WrapInv, NEW k \in Programs
  PROVE  /\ [stmt EXCEPT ![k] = NoStmt] \in [Programs -> Statements]
         /\ [stmt EXCEPT ![k] = Stale(@)] \in [Programs -> Statements]
         /\ [stmt EXCEPT ![k].m_state = 1, ![k].handle = "live"]
              \in [Programs -> Statements]
         /\ [stmt EXCEPT ![k].m_state = 0, ![k].handle = "null",
                         ![k].sql = NoSql] \in [Programs -> Statements]
         /\ [stmt EXCEPT ![k].sql = NoSql] \in [Programs -> Statements]
<1>1. stmt[k] \in Statements /\ stmt \in [Programs -> Statements]
  BY DEF WrapInv, MysqlTypeOK
<1>2. /\ [stmt EXCEPT ![k] = NoStmt] \in [Programs -> Statements]
      /\ [stmt EXCEPT ![k] = Stale(@)] \in [Programs -> Statements]
      /\ [stmt EXCEPT ![k].sql = NoSql] \in [Programs -> Statements]
  BY <1>1, StatementFields
<1>3. [stmt EXCEPT ![k].m_state = 1, ![k].handle = "live"]
        \in [Programs -> Statements]
  BY <1>1, StatementFields
<1>4. [stmt EXCEPT ![k].m_state = 0, ![k].handle = "null", ![k].sql = NoSql]
        \in [Programs -> Statements]
  BY <1>1, StatementFields
<1> QED BY <1>2, <1>3, <1>4

LEMMA CdaUpdates ==
  ASSUME WrapInv, NEW k \in Programs
  PROVE  /\ [cda EXCEPT ![k] = NoCda] \in [Programs -> Cdas]
         /\ [cda EXCEPT ![k].rc = 0] \in [Programs -> Cdas]
         /\ [cda EXCEPT ![k].rc = 1] \in [Programs -> Cdas]
         /\ [cda EXCEPT ![k] = [rc |-> 0, rpc |-> 0]] \in [Programs -> Cdas]
         /\ [cda EXCEPT ![k] = [rc |-> 1, rpc |-> 0]] \in [Programs -> Cdas]
<1>1. cda[k] \in Cdas /\ cda \in [Programs -> Cdas]
  BY DEF WrapInv, MysqlTypeOK
<1> QED BY <1>1, CdaFields

LEMMA ViewOK ==
  ASSUME WrapInv, NEW k \in Programs
  PROVE  /\ View(k) \in [Rows -> Values \cup {Absent}]
         /\ txn[k] = NoChanges => View(k) = table
         /\ \A r \in Rows : Locked(r, k) => View(k)[r] = table[r]
<1>1. View(k) \in [Rows -> Values \cup {Absent}]
  BY DEF WrapInv, MysqlTypeOK, View
<1>2. ASSUME txn[k] = NoChanges PROVE View(k) = table
  BY <1>2 DEF WrapInv, MysqlTypeOK, View, NoChanges
<1>3. ASSUME NEW r \in Rows, Locked(r, k) PROVE View(k)[r] = table[r]
  BY <1>3, ChangesNothing DEF View
<1> QED BY <1>1, <1>2, <1>3

LEMMA NoChangesOK ==
  /\ NoChanges \in [Rows -> Values \cup {Same}]
  /\ \A r \in Rows : NoChanges[r] = Same
BY DEF NoChanges

(* Closing the handle of a connection.                                     *)
LEMMA CloseHandleOK ==
  ASSUME WrapInv, NEW k \in Programs, CloseHandle(k),
         UNCHANGED <<alive, bound, sent, out, got, found, cda>>,
         Returns(k, "error"), table' \in {table, View(k)}
  PROVE  StepOK(k)
<1> USE DEF CloseHandle, EndSession, Returns
<1>1. conn' \in [Programs -> Connections]
  BY ConnectionFields DEF WrapInv, MysqlTypeOK
<1>2. stmt' \in [Programs -> Statements]
  BY StatementFields DEF WrapInv, MysqlTypeOK
<1>3. MysqlTypeOK'
  BY <1>1, <1>2, ViewOK, NoChangesOK DEF WrapInv, MysqlTypeOK
<1>4. Frame(k)
  BY DEF WrapInv, MysqlTypeOK, Frame
<1>5. Handles(k)'
  BY DEF WrapInv, MysqlTypeOK, Handles, IsQuery, Stale
<1>6. Counted(k)'
  BY DEF WrapInv, MysqlTypeOK, Counted, Reaches, Stale
<1>7. Respects(k)
  BY ViewOK, NoChangesOK DEF WrapInv, MysqlTypeOK, Respects
<1> QED BY <1>3, <1>4, <1>5, <1>6, <1>7 DEF StepOK

(* A method that ends or empties the transaction, or does nothing, and     *)
(* changes no object.                                                      *)
LEMMA ReturnsOK ==
  ASSUME WrapInv, NEW k \in Programs, NEW v \in {"ok", "error"},
         Returns(k, v), UNCHANGED <<alive, objects, session>>,
         \/ UNCHANGED txn
         \/ txn' = [txn EXCEPT ![k] = NoChanges],
         table' \in {table, View(k)}
  PROVE  StepOK(k)
<1> USE DEF Returns, objects
<1>1. MysqlTypeOK'
  BY ViewOK, NoChangesOK DEF WrapInv, MysqlTypeOK
<1>2. Frame(k)
  BY DEF WrapInv, MysqlTypeOK, Frame
<1>3. Handles(k)'
  BY DEF WrapInv, MysqlTypeOK, Handles, IsQuery, Stale
<1>4. Counted(k)'
  BY DEF WrapInv, MysqlTypeOK, Counted, Reaches, Stale
<1>5. Respects(k)
  BY ViewOK, NoChangesOK, ChangesNothing DEF WrapInv, MysqlTypeOK, Respects
<1> QED BY <1>1, <1>2, <1>3, <1>4, <1>5 DEF StepOK

LEMMA CommitOK ==
  ASSUME WrapInv, NEW k \in Programs, Commit(k)
  PROVE  StepOK(k)
<1>1. CASE conn[k].m_state = 0 /\ Returns(k, "error")
             /\ UNCHANGED <<alive, objects, session, txn, table>>
  BY <1>1, ReturnsOK
<1>2. CASE Null(k) /\ Dies(k)
  BY <1>2, DiesOK
<1>3. CASE /\ table' = View(k)
           /\ txn' = [txn EXCEPT ![k] = NoChanges]
           /\ Returns(k, "ok")
           /\ UNCHANGED <<alive, objects, session>>
  BY <1>3, ReturnsOK
<1>4. CASE /\ table' \in {table, View(k)}
           /\ CloseHandle(k)
           /\ Returns(k, "error")
           /\ UNCHANGED <<alive, bound, sent, out, got, found, cda>>
  BY <1>4, CloseHandleOK
<1> QED BY <1>1, <1>2, <1>3, <1>4 DEF Commit

LEMMA RollbackOK ==
  ASSUME WrapInv, NEW k \in Programs, Rollback(k)
  PROVE  StepOK(k)
<1>1. CASE conn[k].m_state = 0 /\ Returns(k, "error")
             /\ UNCHANGED <<alive, objects, session, txn, table>>
  BY <1>1, ReturnsOK
<1>2. CASE Null(k) /\ Dies(k)
  BY <1>2, DiesOK
<1>3. CASE /\ UNCHANGED table
           /\ txn' = [txn EXCEPT ![k] = NoChanges]
           /\ Returns(k, "ok")
           /\ UNCHANGED <<alive, objects, session>>
  BY <1>3, ReturnsOK
<1>4. CASE /\ UNCHANGED table
           /\ CloseHandle(k)
           /\ Returns(k, "error")
           /\ UNCHANGED <<alive, bound, sent, out, got, found, cda>>
  BY <1>4, CloseHandleOK
<1> QED BY <1>1, <1>2, <1>3, <1>4 DEF Rollback

LEMMA ConnDisconnectOK ==
  ASSUME WrapInv, NEW k \in Programs, ConnDisconnect(k)
  PROVE  StepOK(k)
<1>1. CASE conn[k].m_state = 0 /\ Returns(k, "error")
             /\ UNCHANGED <<alive, objects, session, txn, table>>
  BY <1>1, ReturnsOK
<1>2. CASE Null(k) /\ Dies(k)
  BY <1>2, DiesOK
<1>3. CASE /\ conn[k].m_state = 1 /\ conn[k].m_conn
           /\ conn' = [conn EXCEPT ![k].m_conn = FALSE, ![k].m_state = 0]
           /\ stmt' = [stmt EXCEPT ![k] = Stale(@)]
           /\ EndSession(k)
           /\ Returns(k, "ok")
           /\ UNCHANGED <<alive, bound, sent, out, got, found, cda, table>>
  <2> USE <1>3 DEF EndSession, Returns
  <2>1. conn' \in [Programs -> Connections]
    BY ConnectionFields DEF WrapInv, MysqlTypeOK
  <2>2. stmt' \in [Programs -> Statements]
    BY StatementFields DEF WrapInv, MysqlTypeOK
  <2>3. MysqlTypeOK'
    BY <2>1, <2>2, NoChangesOK DEF WrapInv, MysqlTypeOK
  <2>4. Frame(k)
    BY DEF WrapInv, MysqlTypeOK, Frame
  <2>5. Handles(k)'
    BY DEF WrapInv, MysqlTypeOK, Handles, IsQuery, Stale
  <2>6. Counted(k)'
    BY DEF WrapInv, MysqlTypeOK, Counted, Reaches, Stale
  <2>7. Respects(k)
    BY NoChangesOK DEF WrapInv, MysqlTypeOK, Respects
  <2> QED BY <2>3, <2>4, <2>5, <2>6, <2>7 DEF StepOK
<1> QED BY <1>1, <1>2, <1>3 DEF ConnDisconnect

LEMMA StmtConnectOK ==
  ASSUME WrapInv, NEW k \in Programs, StmtConnect(k)
  PROVE  StepOK(k)
<1>1. CASE Null(k) /\ Dies(k)
  BY <1>1, DiesOK
<1>2. CASE Returns(k, "ok") /\ UNCHANGED <<alive, objects, session, txn, table>>
  BY <1>2, ReturnsOK
<1>3. CASE /\ Reports(k, 1) /\ Returns(k, "error")
           /\ UNCHANGED <<alive, conn, stmt, bound, sent, out, got, cursor,
                          found, session, txn, table>>
  <2> USE <1>3 DEF Reports, Returns
  <2>1. MysqlTypeOK'
    BY StatementUpdates, CdaUpdates DEF WrapInv, MysqlTypeOK
  <2>2. Frame(k)
    BY DEF WrapInv, MysqlTypeOK, Frame
  <2>3. Handles(k)'
    BY DEF WrapInv, MysqlTypeOK, Handles, IsQuery
  <2>4. Counted(k)'
    BY DEF WrapInv, MysqlTypeOK, Counted
  <2>5. Respects(k)
    BY ChangesNothing DEF Respects
  <2> QED BY <2>1, <2>2, <2>3, <2>4, <2>5 DEF StepOK
<1>4. CASE /\ stmt[k].m_state = 0
           /\ conn[k].m_state = 1 /\ conn[k].m_conn
           /\ stmt' = [stmt EXCEPT ![k].m_state = 1, ![k].handle = "live"]
           /\ Reports(k, 0) /\ Returns(k, "ok")
           /\ UNCHANGED <<alive, conn, bound, sent, out, got, cursor, found,
                          session, txn, table>>
  <2> USE <1>4 DEF Reports, Returns
  <2>1. MysqlTypeOK'
    BY StatementUpdates, CdaUpdates DEF WrapInv, MysqlTypeOK
  <2>2. Frame(k)
    BY DEF WrapInv, MysqlTypeOK, Frame
  <2>3. Handles(k)'
    BY DEF WrapInv, MysqlTypeOK, Handles, IsQuery
  <2>4. Counted(k)'
    BY DEF WrapInv, MysqlTypeOK, Handles, Counted, IsQuery, NoSql
  <2>5. Respects(k)
    BY ChangesNothing DEF Respects
  <2> QED BY <2>1, <2>2, <2>3, <2>4, <2>5 DEF StepOK
<1> QED BY <1>1, <1>2, <1>3, <1>4 DEF StmtConnect

LEMMA StmtDisconnectOK ==
  ASSUME WrapInv, NEW k \in Programs, StmtDisconnect(k)
  PROVE  StepOK(k)
<1>1. CASE stmt[k].m_state = 0
  BY <1>1, ReturnsOK DEF StmtDisconnect, objects
<1>2. CASE stmt[k].m_state = 1
  <2>1. /\ stmt' = [stmt EXCEPT ![k].m_state = 0, ![k].handle = "null",
                                ![k].sql = NoSql]
        /\ cursor' = [cursor EXCEPT ![k] = <<>>]
        /\ cda' = [cda EXCEPT ![k] = NoCda]
        /\ ret' = [ret EXCEPT ![k] = "ok"]
        /\ sent' = [sent EXCEPT ![k] = NoVar]
        /\ out' = [out EXCEPT ![k] = "none"]
        /\ UNCHANGED <<alive, conn, session, bound, got, found, txn, table>>
    BY <1>2 DEF StmtDisconnect, Returns
  <2>2. stmt' \in [Programs -> Statements] /\ cda' \in [Programs -> Cdas]
    BY <2>1, StatementUpdates, CdaUpdates
  <2>3. MysqlTypeOK'
    BY <2>1, <2>2 DEF WrapInv, MysqlTypeOK
  <2>4. Frame(k)
    BY <2>1 DEF WrapInv, MysqlTypeOK, Frame
  <2>5. Handles(k)'
    BY <2>1 DEF WrapInv, MysqlTypeOK, Handles, IsQuery, Statements
  <2>6. Counted(k)'
    BY <2>1 DEF WrapInv, MysqlTypeOK, Counted, Reaches, Statements
  <2>7. Respects(k)
    BY <2>1, ChangesNothing DEF Respects
  <2> QED BY <2>3, <2>4, <2>5, <2>6, <2>7 DEF StepOK
<1> QED BY <1>1, <1>2 DEF StmtDisconnect

LEMMA StmtDestroyOK ==
  ASSUME WrapInv, NEW k \in Programs, StmtDestroy(k)
  PROVE  StepOK(k)
<1> USE DEF StmtDestroy, Returns
<1>1. MysqlTypeOK'
  BY StatementUpdates, CdaUpdates DEF WrapInv, MysqlTypeOK
<1>2. Frame(k)
  BY DEF WrapInv, MysqlTypeOK, Frame
<1>3. Handles(k)'
  BY DEF WrapInv, MysqlTypeOK, Handles, NoStmt
<1>4. Counted(k)'
  BY DEF WrapInv, MysqlTypeOK, Counted, Reaches, NoStmt
<1>5. Respects(k)
  BY ChangesNothing DEF Respects
<1> QED BY <1>1, <1>2, <1>3, <1>4, <1>5 DEF StepOK

(* A method that changes bindings, the statement and what it reports, but  *)
(* neither the handle nor the result set.                                  *)
LEMMA NotBoundStmtOK ==
  ASSUME WrapInv, NEW k \in Programs, NotBoundStmt(k),
         UNCHANGED <<alive, conn, session, out, got>>
  PROVE  StepOK(k)
<1> USE DEF NotBoundStmt, Reports, Returns
<1>1. MysqlTypeOK'
  BY StatementUpdates, CdaUpdates DEF WrapInv, MysqlTypeOK
<1>2. Frame(k)
  BY DEF WrapInv, MysqlTypeOK, Frame
<1>3. Handles(k)'
  BY DEF WrapInv, MysqlTypeOK, Handles, IsQuery
<1>4. Counted(k)'
  BY DEF WrapInv, MysqlTypeOK, Counted
<1>5. Respects(k)
  BY ChangesNothing DEF Respects
<1> QED BY <1>1, <1>2, <1>3, <1>4, <1>5 DEF StepOK

LEMMA PrepareOK ==
  ASSUME WrapInv, NEW k \in Programs, NEW sql \in Sqls, Prepare(k, sql)
  PROVE  StepOK(k)
<1>1. CASE NotBoundStmt(k)
  BY <1>1, NotBoundStmtOK DEF Prepare, NotBoundStmt
<1>2. CASE /\ stmt[k].m_state = 1
           /\ \E t \in {"query", "other"} :
                stmt' = [stmt EXCEPT ![k].sql = sql, ![k].maxbindin = 0,
                                     ![k].sqltype = t]
           /\ ClearBindings(k)
           /\ cursor' = [cursor EXCEPT ![k] = <<>>]
           /\ found' = [found EXCEPT ![k] = 0]
           /\ cda' = [cda EXCEPT ![k] = [rc |-> 0, rpc |-> 0]]
           /\ Returns(k, "ok")
           /\ UNCHANGED <<alive, conn, session, got, txn, table>>
  <2>1. stmt' \in [Programs -> Statements] /\ cda' \in [Programs -> Cdas]
    <3>1. stmt \in [Programs -> Statements] /\ stmt[k] \in Statements
      BY DEF WrapInv, MysqlTypeOK
    <3>2. PICK t \in {"query", "other"} :
            stmt' = [stmt EXCEPT ![k].sql = sql, ![k].maxbindin = 0,
                                 ![k].sqltype = t]
      BY <1>2
    <3>3. [stmt[k] EXCEPT !.sql = sql, !.maxbindin = 0, !.sqltype = t]
            \in Statements
      BY <3>1, StatementFields
    <3>4. stmt' = [stmt EXCEPT ![k] =
                     [stmt[k] EXCEPT !.sql = sql, !.maxbindin = 0,
                                     !.sqltype = t]]
      BY <3>1, <3>2
    <3> QED BY <1>2, <3>1, <3>3, <3>4, CdaUpdates
  <2>2. MysqlTypeOK'
    BY <1>2, <2>1 DEF WrapInv, MysqlTypeOK, ClearBindings, Returns
  <2>3. Frame(k)
    BY <1>2 DEF WrapInv, MysqlTypeOK, Frame, ClearBindings, Returns
  <2>4. Handles(k)'
    BY <1>2 DEF WrapInv, MysqlTypeOK, Handles, Statements
  <2>5. Counted(k)'
    BY <1>2 DEF WrapInv, MysqlTypeOK, Counted
  <2>6. Respects(k)
    BY <1>2, ChangesNothing DEF Respects
  <2> QED BY <2>2, <2>3, <2>4, <2>5, <2>6 DEF StepOK
<1>3. CASE /\ stmt[k].m_state = 1
           /\ stmt' = [stmt EXCEPT ![k].sql = NoSql]
           /\ sent' = [sent EXCEPT ![k] = NoVar]
           /\ out' = [out EXCEPT ![k] = "none"]
           /\ cursor' = [cursor EXCEPT ![k] = <<>>]
           /\ cda' = [cda EXCEPT ![k] = [rc |-> 1, rpc |-> 0]]
           /\ Returns(k, "error")
           /\ UNCHANGED <<alive, conn, session, got, bound, found, txn, table>>
  <2>1. stmt' \in [Programs -> Statements] /\ cda' \in [Programs -> Cdas]
    BY <1>3, StatementUpdates, CdaUpdates
  <2>2. MysqlTypeOK'
    BY <1>3, <2>1 DEF WrapInv, MysqlTypeOK, Returns
  <2>3. Frame(k)
    BY <1>3 DEF WrapInv, MysqlTypeOK, Frame, Returns
  <2>4. Handles(k)'
    BY <1>3 DEF WrapInv, MysqlTypeOK, Handles, Statements
  <2>5. Counted(k)'
    BY <1>3 DEF WrapInv, MysqlTypeOK, Counted
  <2>6. Respects(k)
    BY <1>3, ChangesNothing DEF Respects
  <2> QED BY <2>2, <2>3, <2>4, <2>5, <2>6 DEF StepOK
<1> QED BY <1>1, <1>2, <1>3 DEF Prepare

LEMMA BindinOK ==
  ASSUME WrapInv, NEW k \in Programs, NEW position \in 1 .. 2,
         NEW var \in Values, Bindin(k, position, var)
  PROVE  StepOK(k)
<1>1. CASE NotBoundStmt(k)
  BY <1>1, NotBoundStmtOK DEF Bindin
<1>2. CASE /\ stmt[k].m_state = 1
           /\ \/ UNCHANGED stmt
              \/ stmt' = [stmt EXCEPT ![k].maxbindin = position]
           /\ UNCHANGED bound \/ bound' = [bound EXCEPT ![k] = var]
           /\ UNCHANGED cda \/ cda' = [cda EXCEPT ![k].rc = 1]
           /\ Returns(k, "ok")
           /\ UNCHANGED <<alive, conn, session, out, got, sent, cursor, found,
                          txn, table>>
  <2>1. stmt' \in [Programs -> Statements]
    <3>1. stmt \in [Programs -> Statements] /\ stmt[k] \in Statements
      BY DEF WrapInv, MysqlTypeOK
    <3>2. CASE stmt' = [stmt EXCEPT ![k].maxbindin = position]
      BY <3>1, <3>2, StatementFields
    <3> QED BY <1>2, <3>1, <3>2
  <2>2. cda' \in [Programs -> Cdas]
    <3>1. CASE cda' = [cda EXCEPT ![k].rc = 1]
      BY <3>1, CdaUpdates
    <3> QED BY <1>2, <3>1 DEF WrapInv, MysqlTypeOK
  <2>3. MysqlTypeOK'
    BY <1>2, <2>1, <2>2 DEF WrapInv, MysqlTypeOK, Returns
  <2>4. Frame(k)
    BY <1>2 DEF WrapInv, MysqlTypeOK, Frame, Returns
  <2>5. /\ stmt'[k].handle = stmt[k].handle /\ stmt'[k].sql = stmt[k].sql
        /\ stmt'[k].m_state = stmt[k].m_state
        /\ cda'[k].rc = 1 \/ cda'[k] = cda[k]
    BY <1>2 DEF WrapInv, MysqlTypeOK, Statements, Cdas
  <2>6. Handles(k)' /\ Counted(k)'
    BY <1>2, <2>5 DEF WrapInv, Handles, IsQuery, Counted, Reaches
  <2>7. Respects(k)
    BY <1>2, ChangesNothing DEF Respects
  <2> QED BY <2>3, <2>4, <2>6, <2>7 DEF StepOK
<1> QED BY <1>1, <1>2 DEF Bindin

LEMMA BindoutOK ==
  ASSUME WrapInv, NEW k \in Programs, NEW position \in 1 .. 2,
         Bindout(k, position)
  PROVE  StepOK(k)
<1>1. CASE NotBoundStmt(k)
  BY <1>1, NotBoundStmtOK DEF Bindout, NotBoundStmt
<1>2. CASE /\ stmt[k].m_state = 1
           /\ UNCHANGED out \/ out' = [out EXCEPT ![k] = "bound"]
           /\ UNCHANGED cda \/ cda' = [cda EXCEPT ![k].rc = 1]
           /\ Returns(k, "ok")
           /\ UNCHANGED <<alive, conn, session, stmt, bound, got, sent, cursor,
                          found, txn, table>>
  <2>1. stmt' \in [Programs -> Statements]
    BY <1>2, StatementUpdates DEF WrapInv, MysqlTypeOK
  <2>2. cda' \in [Programs -> Cdas]
    <3>1. CASE cda' = [cda EXCEPT ![k].rc = 1]
      BY <3>1, CdaUpdates
    <3> QED BY <1>2, <3>1 DEF WrapInv, MysqlTypeOK
  <2>3. MysqlTypeOK'
    BY <1>2, <2>1, <2>2 DEF WrapInv, MysqlTypeOK, Returns
  <2>4. Frame(k)
    BY <1>2 DEF WrapInv, MysqlTypeOK, Frame, Returns
  <2>5. /\ stmt'[k].handle = stmt[k].handle /\ stmt'[k].sql = stmt[k].sql
        /\ stmt'[k].m_state = stmt[k].m_state
        /\ cda'[k].rc = 1 \/ cda'[k] = cda[k]
    BY <1>2 DEF WrapInv, MysqlTypeOK, Statements, Cdas
  <2>6. Handles(k)' /\ Counted(k)'
    BY <1>2, <2>5 DEF WrapInv, Handles, IsQuery, Counted, Reaches
  <2>7. Respects(k)
    BY <1>2, ChangesNothing DEF Respects
  <2> QED BY <2>3, <2>4, <2>6, <2>7 DEF StepOK
<1> QED BY <1>1, <1>2 DEF Bindout

LEMMA QueryRow ==
  ASSUME WrapInv, NEW k \in Programs, IsQuery(stmt[k].sql)
  PROVE  stmt[k].sql.row \in Rows
<1>1. stmt[k].sql \in Sqls \cup {NoSql}
  BY DEF WrapInv, MysqlTypeOK, Statements
<1>2. stmt[k].sql # NoSql /\ stmt[k].sql # [kind |-> "reset", row |-> "none"]
  BY DEF IsQuery, NoSql
<1>3. stmt[k].sql \in [kind : {"insert", "update", "select"}, row : Rows]
  BY <1>1, <1>2 DEF Sqls
<1> QED BY <1>3

(* What a statement does to the transaction of its program.                *)
LEMMA ChangesOK ==
  ASSUME WrapInv, NEW k \in Programs, NEW sql, NEW value,
         HasParam(sql) => value \in Values
  PROVE  /\ Changes(k, sql, value) \in [Rows -> Values \cup {Same}]
         /\ Cardinality(Touches(k, sql, value)) \in 0 .. Cardinality(Rows)
         /\ (\A r \in Touches(k, sql, value) : ~Locked(r, k)) =>
              \A r \in Rows :
                Locked(r, k) => Changes(k, sql, value)[r] = Same
<1>1. txn[k] \in [Rows -> Values \cup {Same}]
  BY DEF WrapInv, MysqlTypeOK
<1>2. Changes(k, sql, value) \in [Rows -> Values \cup {Same}]
  BY <1>1 DEF Changes, HasParam, Values
<1>3. /\ Cardinality(Touches(k, sql, value)) \in Nat
      /\ Cardinality(Rows) \in Nat
      /\ Cardinality(Touches(k, sql, value)) <= Cardinality(Rows)
  <2>1. Touches(k, sql, value) \subseteq Rows
    BY DEF Touches
  <2> QED BY <2>1, RowsAssumption, FS_Subset, FS_CardinalityType
<1>4. ASSUME \A r \in Touches(k, sql, value) : ~Locked(r, k),
             NEW r \in Rows, Locked(r, k)
      PROVE  Changes(k, sql, value)[r] = Same
  BY <1>4, ChangesNothing DEF Touches
<1> QED BY <1>2, <1>3, <1>4

(* The variables that the client library takes over in execute.            *)
LEMMA TakesOver ==
  ASSUME WrapInv, NEW k \in Programs, TakeOutOnce(k),
         sent' = IF HasParam(stmt[k].sql)
                 THEN [sent EXCEPT ![k] = TakeOnce(k)] ELSE sent
  PROVE  /\ TakeOnce(k) \in Values \cup {NoVar}
         /\ sent' \in [Programs -> Values \cup {NoVar}]
         /\ out' \in [Programs -> {"none", "bound", "taken", "lost"}]
         /\ \A j \in Programs \ {k} : sent'[j] = sent[j] /\ out'[j] = out[j]
<1>1. TakeOnce(k) \in Values \cup {NoVar}
  BY DEF WrapInv, MysqlTypeOK, TakeOnce
<1>2. /\ sent' \in [Programs -> Values \cup {NoVar}]
      /\ \A j \in Programs \ {k} : sent'[j] = sent[j]
  <2>1. sent \in [Programs -> Values \cup {NoVar}]
    BY DEF WrapInv, MysqlTypeOK
  <2>2. CASE sent' = sent
    BY <2>1, <2>2
  <2>3. CASE sent' = [sent EXCEPT ![k] = TakeOnce(k)]
    BY <1>1, <2>1, <2>3
  <2> QED BY <2>2, <2>3
<1>3. /\ out' \in [Programs -> {"none", "bound", "taken", "lost"}]
      /\ \A j \in Programs \ {k} : out'[j] = out[j]
  <2>1. out \in [Programs -> {"none", "bound", "taken", "lost"}]
    BY DEF WrapInv, MysqlTypeOK
  <2> DEFINE v == CASE out[k] = "bound" -> "taken"
                    [] out[k] = "none"  -> "lost"
                    [] OTHER            -> out[k]
  <2>2. v \in {"none", "bound", "taken", "lost"}
    BY <2>1
  <2>3. UNCHANGED out \/ out' = [out EXCEPT ![k] = v]
    BY DEF TakeOutOnce
  <2> HIDE DEF v
  <2> QED BY <2>1, <2>2, <2>3
<1> QED BY <1>1, <1>2, <1>3

LEMMA ExecuteFailsOK ==
  ASSUME WrapInv, NEW k \in Programs, ExecuteFails(k), TakeOutOnce(k),
         sent' = IF HasParam(stmt[k].sql)
                 THEN [sent EXCEPT ![k] = TakeOnce(k)] ELSE sent,
         UNCHANGED <<alive, session, conn, stmt, bound, got>>
  PROVE  StepOK(k)
<1> USE DEF ExecuteFails, Returns
<1>1. MysqlTypeOK'
  BY TakesOver, CdaUpdates DEF WrapInv, MysqlTypeOK
<1>2. Frame(k)
  BY TakesOver DEF WrapInv, MysqlTypeOK, Frame
<1>3. Handles(k)'
  BY DEF WrapInv, MysqlTypeOK, Handles
<1>4. Counted(k)'
  BY DEF WrapInv, MysqlTypeOK, Counted
<1>5. Respects(k)
  BY ChangesNothing DEF Respects
<1> QED BY <1>1, <1>2, <1>3, <1>4, <1>5 DEF StepOK

LEMMA ExecuteQueryOK ==
  ASSUME WrapInv, NEW k \in Programs, ExecuteQuery(k), TakeOutOnce(k),
         sent' = IF HasParam(stmt[k].sql)
                 THEN [sent EXCEPT ![k] = TakeOnce(k)] ELSE sent,
         UNCHANGED <<alive, session, conn, stmt, bound, got>>,
         Reaches(k), IsQuery(stmt[k].sql)
  PROVE  StepOK(k)
<1>1. PICK rows \in {<<>>} \cup {<<v>> : v \in Values} :
        /\ cursor' = [cursor EXCEPT ![k] = rows]
        /\ found' = [found EXCEPT ![k] = Len(rows)]
  <2> DEFINE v == View(k)[stmt[k].sql.row]
             rows == IF v = Absent THEN <<>> ELSE <<v>>
  <2>1. stmt[k].sql.row \in Rows
    BY QueryRow
  <2>2. v \in Values \cup {Absent}
    BY <2>1, ViewOK
  <2>3. rows \in {<<>>} \cup {<<w>> : w \in Values}
    BY <2>2
  <2> QED BY <2>3 DEF ExecuteQuery
<1>2. Len(rows) \in {0, 1}
  BY <1>1
<1>3. /\ cda' = [cda EXCEPT ![k] = [rc |-> 0, rpc |-> 0]]
      /\ ret' = [ret EXCEPT ![k] = "ok"]
      /\ UNCHANGED <<txn, table>>
  BY DEF ExecuteQuery, Returns
<1>4. MysqlTypeOK'
  BY <1>1, <1>2, <1>3, TakesOver, CdaUpdates DEF WrapInv, MysqlTypeOK
<1>5. Frame(k)
  BY <1>1, <1>3, TakesOver DEF WrapInv, MysqlTypeOK, Frame
<1>6. Handles(k)'
  BY <1>1, <1>3 DEF WrapInv, MysqlTypeOK, Handles, Reaches, IsQuery
<1>7. Counted(k)'
  BY <1>1, <1>2, <1>3 DEF WrapInv, MysqlTypeOK, Counted
<1>8. Respects(k)
  BY <1>3, ChangesNothing DEF Respects
<1> QED BY <1>4, <1>5, <1>6, <1>7, <1>8 DEF StepOK

LEMMA ExecuteWriteOK ==
  ASSUME WrapInv, NEW k \in Programs, ExecuteWrite(k, TakeOnce(k)),
         TakeOutOnce(k),
         sent' = IF HasParam(stmt[k].sql)
                 THEN [sent EXCEPT ![k] = TakeOnce(k)] ELSE sent,
         UNCHANGED <<alive, session, conn, stmt, bound, got>>,
         Reaches(k), ~IsQuery(stmt[k].sql),
         HasParam(stmt[k].sql) => TakeOnce(k) # NoVar
  PROVE  StepOK(k)
<1> DEFINE sql == stmt[k].sql
           value == TakeOnce(k)
           n == Cardinality(Touches(k, sql, value))
<1>1. HasParam(sql) => value \in Values
  BY TakesOver
<1>2. /\ Changes(k, sql, value) \in [Rows -> Values \cup {Same}]
      /\ n \in 0 .. Cardinality(Rows)
      /\ \A r \in Rows : Locked(r, k) => Changes(k, sql, value)[r] = Same
  BY <1>1, ChangesOK DEF ExecuteWrite
<1>3. /\ cda' = [cda EXCEPT ![k] = [rc |-> 0, rpc |-> n]]
      /\ cursor' = [cursor EXCEPT ![k] = <<>>]
      /\ ret' = [ret EXCEPT ![k] = "ok"]
      /\ UNCHANGED found
      /\ \/ txn' = [txn EXCEPT ![k] = Changes(k, sql, value)] /\ UNCHANGED table
         \/ /\ table' = [r \in Rows |-> IF Changes(k, sql, value)[r] = Same
                            THEN table[r] ELSE Changes(k, sql, value)[r]]
            /\ UNCHANGED txn
  BY DEF ExecuteWrite, Returns
<1> HIDE DEF n
<1>4. cda' \in [Programs -> Cdas]
  <2>1. [rc |-> 0, rpc |-> n] \in Cdas
    BY <1>2 DEF Cdas
  <2> QED BY <1>3, <2>1 DEF WrapInv, MysqlTypeOK
<1>5. txn' \in [Programs -> [Rows -> Values \cup {Same}]]
  BY <1>2, <1>3 DEF WrapInv, MysqlTypeOK
<1>6. table' \in [Rows -> Values \cup {Absent}]
  <2>1. table \in [Rows -> Values \cup {Absent}]
    BY DEF WrapInv, MysqlTypeOK
  <2> HIDE DEF sql, value
  <2> QED BY <1>2, <1>3, <2>1
<1>7. MysqlTypeOK'
  BY <1>3, <1>4, <1>5, <1>6, TakesOver DEF WrapInv, MysqlTypeOK
<1>8. Frame(k)
  BY <1>3, TakesOver DEF WrapInv, MysqlTypeOK, Frame
<1>9. Handles(k)'
  BY <1>3 DEF WrapInv, MysqlTypeOK, Handles, Reaches
<1>10. Counted(k)'
  BY DEF Counted
<1>11. Respects(k)
  <2> HIDE DEF sql, value
  <2> QED BY <1>2, <1>3, ChangesNothing DEF WrapInv, MysqlTypeOK, Respects
<1> QED BY <1>7, <1>8, <1>9, <1>10, <1>11 DEF StepOK

LEMMA ExecuteOK ==
  ASSUME WrapInv, NEW k \in Programs, Execute(k)
  PROVE  StepOK(k)
<1>1. CASE NotBoundStmt(k) /\ UNCHANGED <<alive, session, conn, out, got>>
  BY <1>1, NotBoundStmtOK
<1>2. CASE Dies(k)
  BY <1>2, DiesOK
<1>3. CASE /\ sent' = IF HasParam(stmt[k].sql)
                      THEN [sent EXCEPT ![k] = TakeOnce(k)] ELSE sent
           /\ TakeOutOnce(k)
           /\ UNCHANGED <<alive, session, conn, stmt, bound, got>>
           /\ \/ ExecuteFails(k)
              \/ /\ Reaches(k) /\ IsQuery(stmt[k].sql)
                 /\ ExecuteQuery(k)
              \/ /\ Reaches(k) /\ ~IsQuery(stmt[k].sql)
                 /\ HasParam(stmt[k].sql) => TakeOnce(k) # NoVar
                 /\ ExecuteWrite(k, TakeOnce(k))
  BY <1>3, ExecuteFailsOK, ExecuteQueryOK, ExecuteWriteOK
<1> QED BY <1>1, <1>2, <1>3 DEF Execute

LEMMA FetchNextOK ==
  ASSUME WrapInv, NEW k \in Programs, FetchNext(k)
  PROVE  StepOK(k)
<1>1. CASE NotBoundStmt(k)
  BY <1>1, NotBoundStmtOK DEF FetchNext, NotBoundStmt
<1>2. CASE /\ NoMoreRows(k) \/ (Returns(k, "error") /\ UNCHANGED <<cursor, cda>>)
                \/ (Reports(k, 1) /\ Returns(k, "error") /\ UNCHANGED cursor)
           /\ UNCHANGED <<alive, conn, session, stmt, bound, sent, out, got,
                          found, txn, table>>
  <2>1. /\ UNCHANGED cursor
        /\ UNCHANGED cda \/ cda' = [cda EXCEPT ![k].rc = 1]
        /\ \E v \in {"error", "nodata"} : ret' = [ret EXCEPT ![k] = v]
    BY <1>2 DEF NoMoreRows, Returns, Reports
  <2>2. cda' \in [Programs -> Cdas]
    <3>1. CASE cda' = [cda EXCEPT ![k].rc = 1]
      BY <3>1, CdaUpdates
    <3> QED BY <2>1, <3>1 DEF WrapInv, MysqlTypeOK
  <2>3. MysqlTypeOK'
    BY <1>2, <2>1, <2>2 DEF WrapInv, MysqlTypeOK
  <2>4. Frame(k)
    BY <1>2, <2>1 DEF WrapInv, MysqlTypeOK, Frame
  <2>5. cda'[k].rc = 1 \/ cda'[k] = cda[k]
    BY <2>1 DEF WrapInv, MysqlTypeOK, Cdas
  <2>6. Handles(k)' /\ Counted(k)'
    BY <1>2, <2>1, <2>5 DEF WrapInv, Handles, IsQuery, Counted, Reaches
  <2>7. Respects(k)
    BY <1>2, ChangesNothing DEF Respects
  <2> QED BY <2>3, <2>4, <2>6, <2>7 DEF StepOK
<1>3. CASE /\ cda[k].rc = 0 /\ Reaches(k) /\ cursor[k] # <<>> /\ FetchRow(k)
           /\ UNCHANGED <<alive, conn, session, stmt, bound, sent, out, found,
                          txn, table>>
  <2>1. PICK v \in Values : cursor[k] = <<v>>
    BY <1>3 DEF WrapInv, MysqlTypeOK
  <2>2. /\ cursor' = [cursor EXCEPT ![k] = <<>>]
        /\ \/ got' = [got EXCEPT ![k] = v]
           \/ got' = [got EXCEPT ![k] = got[k]]
        /\ cda' = [cda EXCEPT ![k].rpc = cda[k].rpc + 1]
        /\ ret' = [ret EXCEPT ![k] = "ok"]
    <3>1. Tail(cursor[k]) = <<>> /\ Head(cursor[k]) = v
      BY <2>1
    <3> QED BY <1>3, <3>1 DEF FetchRow, Returns
  <2>3. IsQuery(stmt[k].sql) /\ cda[k].rpc + 1 = found[k]
    BY <1>3, <2>1 DEF WrapInv, Handles, Counted
  <2>4. /\ found[k] \in {0, 1} /\ cda[k] \in Cdas /\ cda \in [Programs -> Cdas]
        /\ Cardinality(Rows) \in Nat
    BY RowsAssumption, FS_CardinalityType DEF WrapInv, MysqlTypeOK
  <2>5. Cardinality(Rows) >= 1
    <3>1. Rows # {}
      BY <2>3, QueryRow
    <3> QED BY <3>1, <2>4, RowsAssumption, FS_EmptySet
  <2>6. cda' \in [Programs -> Cdas] /\ cda'[k].rpc = cda[k].rpc + 1
          /\ cda'[k].rc = cda[k].rc
    <3>1. [cda[k] EXCEPT !.rpc = cda[k].rpc + 1] \in Cdas
      BY <2>3, <2>4, <2>5 DEF Cdas
    <3>2. cda' = [cda EXCEPT ![k] = [cda[k] EXCEPT !.rpc = cda[k].rpc + 1]]
      BY <2>2, <2>4
    <3> QED BY <2>4, <3>1, <3>2 DEF Cdas
  <2>7. MysqlTypeOK'
    BY <1>3, <2>2, <2>6 DEF WrapInv, MysqlTypeOK
  <2>8. Frame(k)
    BY <1>3, <2>2 DEF WrapInv, MysqlTypeOK, Frame
  <2>9. Handles(k)'
    BY <1>3, <2>2 DEF WrapInv, MysqlTypeOK, Handles, IsQuery
  <2>10. Counted(k)'
    <3>1. cursor'[k] = <<>> /\ found'[k] = found[k]
      BY <1>3, <2>2 DEF WrapInv, MysqlTypeOK
    <3> QED BY <2>3, <2>6, <2>4, <3>1 DEF Counted
  <2>11. Respects(k)
    BY <1>3, ChangesNothing DEF Respects
  <2> QED BY <2>7, <2>8, <2>9, <2>10, <2>11 DEF StepOK
<1> QED BY <1>1, <1>2, <1>3 DEF FetchNext

(* Whatever method is called, whatever fails.                              *)
LEMMA MethodCallOK ==
  ASSUME WrapInv, NEW k \in Programs,
         MethodCall(k) \/ SessionLost(k) \/ StartAgain(k)
  PROVE  StepOK(k)
<1>1. ASSUME NEW autocommit \in BOOLEAN, ConnectToDb(k, autocommit)
      PROVE  StepOK(k)
  BY <1>1, ConnectToDbOK
<1>2. ASSUME NEW sql \in Sqls, Prepare(k, sql) PROVE StepOK(k)
  BY <1>2, PrepareOK
<1>3. ASSUME NEW position \in 1 .. 2, NEW var \in Values,
             Bindin(k, position, var)
      PROVE  StepOK(k)
  BY <1>3, BindinOK
<1>4. ASSUME NEW position \in 1 .. 2, Bindout(k, position) PROVE StepOK(k)
  BY <1>4, BindoutOK
<1>5. CASE \/ Commit(k) \/ Rollback(k) \/ ConnDisconnect(k)
           \/ StmtConnect(k) \/ StmtDisconnect(k) \/ StmtDestroy(k)
           \/ Execute(k) \/ FetchNext(k)
           \/ SessionLost(k) \/ StartAgain(k)
  BY <1>5, CommitOK, RollbackOK, ConnDisconnectOK, StmtConnectOK,
     StmtDisconnectOK, StmtDestroyOK, ExecuteOK, FetchNextOK, SessionLostOK,
     StartAgainOK
<1> QED BY <1>1, <1>2, <1>3, <1>4, <1>5 DEF MethodCall

LEMMA WrapInvInit == MysqlInit => WrapInv
<1> SUFFICES ASSUME MysqlInit PROVE WrapInv
  OBVIOUS
<1> USE DEF MysqlInit
<1>1. MysqlTypeOK
  BY ConnectionFields, StatementFields, CdaFields, NoChangesOK DEF MysqlTypeOK
<1>2. ASSUME NEW k \in Programs PROVE Handles(k) /\ Counted(k)
  BY DEF Handles, Counted, Reaches, NoConn, NoStmt
<1>3. RowLocks
  BY NoChangesOK DEF RowLocks
<1> QED BY <1>1, <1>2, <1>3 DEF WrapInv

-----------------------------------------------------------------------------
(* The methods of the models: the script of each.                          *)
LEMMA ScriptShape ==
  ASSUME NEW k \in Programs, Begun(call[k])
  PROVE  LET c == call[k]  s == Script[c.method] IN
         /\ c.method = "resetState" =>
              /\ Length(k) = 5
              /\ s[1] = "connecttodb" /\ s[2] = "stmt" /\ s[3] = "prepare"
              /\ s[4] = "execute" /\ s[5] = "commit"
         /\ c.method \in {"insert", "updateState"} =>
              /\ Length(k) = 6
              /\ s[1] = "connecttodb" /\ s[2] = "stmt" /\ s[3] = "prepare"
              /\ s[4] = "bindin" /\ s[5] = "execute" /\ s[6] = "commit"
         /\ c.method = "query" =>
              /\ Length(k) = 6
              /\ s[1] = "connecttodb" /\ s[2] = "stmt" /\ s[3] = "prepare"
              /\ s[4] = "bindout" /\ s[5] = "execute" /\ s[6] = "next"
<1>1. ASSUME call[k].method = "resetState"
      PROVE  Script[call[k].method] =
               <<"connecttodb", "stmt", "prepare", "execute", "commit">>
  BY <1>1 DEF Script
<1>2. ASSUME call[k].method = "query"
      PROVE  Script[call[k].method] =
        <<"connecttodb", "stmt", "prepare", "bindout", "execute", "next">>
  BY <1>2 DEF Script
<1>3. ASSUME call[k].method \in {"insert", "updateState"}
      PROVE  Script[call[k].method] =
        <<"connecttodb", "stmt", "prepare", "bindin", "execute", "commit">>
  BY <1>3 DEF Script, Write
<1>4. CASE call[k].method = "resetState"
  BY <1>1, <1>4 DEF Length
<1>5. CASE call[k].method = "query"
  BY <1>2, <1>5 DEF Length
<1>6. CASE call[k].method \in {"insert", "updateState"}
  BY <1>3, <1>6 DEF Length
<1> QED BY <1>4, <1>5, <1>6 DEF Begun

LEMMA Lengths ==
  ASSUME NEW k \in Programs, Begun(call[k])
  PROVE  /\ Length(k) = IF call[k].method = "resetState" THEN 5 ELSE 6
         /\ call[k].method \in {"insert", "updateState", "query", "resetState"}
BY ScriptShape DEF Begun

(* The calls a method makes, each at its place in the script.              *)
StepOf(k) ==
  \/ pc[k] = 1 /\ ConnectToDb(k, FALSE) /\ Proceeds(k, "connecttodb")
  \/ pc[k] = 2 /\ StmtConnect(k) /\ Proceeds(k, "stmt")
  \/ pc[k] = 3 /\ Prepare(k, SqlOf(call[k])) /\ Proceeds(k, "prepare")
  \/ /\ pc[k] = 4 /\ call[k].method \in {"insert", "updateState"}
     /\ Bindin(k, 1, call[k].value) /\ Proceeds(k, "bindin")
  \/ /\ pc[k] = 4 /\ call[k].method = "query"
     /\ Bindout(k, 1) /\ Proceeds(k, "bindout")
  \/ /\ pc[k] = Length(k) - 1
     /\ Execute(k) /\ Proceeds(k, "execute")
  \/ /\ pc[k] = 6 /\ call[k].method = "query"
     /\ FetchNext(k) /\ Proceeds(k, "next")
  \/ /\ pc[k] = Length(k) /\ call[k].method # "query"
     /\ Commit(k) /\ Proceeds(k, "commit")

LEMMA StepCases ==
  ASSUME NEW k \in Programs, Begun(call[k]), pc[k] \in Nat, Step(k)
  PROVE  StepOf(k)
<1> DEFINE s == Script[call[k].method]
           step == s[pc[k]]
<1>1. pc[k] \in 1 .. Length(k) /\ Do(k, step) /\ Proceeds(k, step)
  BY DEF Step, Length
<1> HIDE DEF step
<1>2. CASE step = "connecttodb"
  <2>1. pc[k] = 1
    BY <1>1, <1>2, ScriptShape DEF Begun, step
  <2> QED BY <1>1, <1>2, <2>1 DEF Do, StepOf
<1>3. CASE step = "stmt"
  <2>1. pc[k] = 2
    BY <1>1, <1>3, ScriptShape DEF Begun, step
  <2> QED BY <1>1, <1>3, <2>1 DEF Do, StepOf
<1>4. CASE step = "prepare"
  <2>1. pc[k] = 3
    BY <1>1, <1>4, ScriptShape DEF Begun, step
  <2> QED BY <1>1, <1>4, <2>1 DEF Do, StepOf
<1>5. CASE step = "bindin"
  <2>1. pc[k] = 4 /\ call[k].method \in {"insert", "updateState"}
    BY <1>1, <1>5, ScriptShape DEF Begun, step
  <2> QED BY <1>1, <1>5, <2>1 DEF Do, StepOf
<1>6. CASE step = "bindout"
  <2>1. pc[k] = 4 /\ call[k].method = "query"
    BY <1>1, <1>6, ScriptShape DEF Begun, step
  <2> QED BY <1>1, <1>6, <2>1 DEF Do, StepOf
<1>7. CASE step = "execute"
  <2>1. pc[k] = Length(k) - 1
    BY <1>1, <1>7, ScriptShape DEF Begun, step
  <2> QED BY <1>1, <1>7, <2>1 DEF Do, StepOf
<1>8. CASE step = "next"
  <2>1. pc[k] = 6 /\ call[k].method = "query"
    BY <1>1, <1>8, ScriptShape DEF Begun, step
  <2> QED BY <1>1, <1>8, <2>1 DEF Do, StepOf
<1>9. CASE step = "commit"
  <2>1. pc[k] = Length(k) /\ call[k].method # "query"
    BY <1>1, <1>9, ScriptShape DEF Begun, step
  <2> QED BY <1>1, <1>9, <2>1 DEF Do, StepOf
<1> QED BY <1>1, <1>2, <1>3, <1>4, <1>5, <1>6, <1>7, <1>8, <1>9 DEF Do

LEMMA SqlOfOK ==
  ASSUME NEW c, Begun(c)
  PROVE  /\ SqlOf(c) \in Sqls
         /\ c.method = "insert" => SqlOf(c) = [kind |-> "insert", row |-> c.row]
         /\ c.method = "updateState" =>
              SqlOf(c) = [kind |-> "update", row |-> c.row]
         /\ c.method = "query" => SqlOf(c) = [kind |-> "select", row |-> c.row]
         /\ c.method = "resetState" =>
              SqlOf(c) = [kind |-> "reset", row |-> "none"]
BY DEF SqlOf, Sqls, Begun

(* Every step of a method is a step of the wrapper.                        *)
LEMMA StepIsMethod ==
  ASSUME WrapInv, NEW k \in Programs, Begun(call[k]), pc[k] \in Nat, Step(k)
  PROVE  StepOK(k)
<1>1. CASE ConnectToDb(k, FALSE)
  BY <1>1, ConnectToDbOK
<1>2. CASE StmtConnect(k)
  BY <1>2, StmtConnectOK
<1>3. CASE Prepare(k, SqlOf(call[k]))
  BY <1>3, SqlOfOK, PrepareOK
<1>4. CASE call[k].method \in {"insert", "updateState"}
             /\ Bindin(k, 1, call[k].value)
  BY <1>4, BindinOK DEF Begun
<1>5. CASE Bindout(k, 1)
  BY <1>5, BindoutOK
<1>6. CASE Execute(k)
  BY <1>6, ExecuteOK
<1>7. CASE FetchNext(k)
  BY <1>7, FetchNextOK
<1>8. CASE Commit(k)
  BY <1>8, CommitOK
<1> QED
  BY StepCases, <1>1, <1>2, <1>3, <1>4, <1>5, <1>6, <1>7, <1>8 DEF StepOf

LEMMA StutterOK ==
  ASSUME WrapInv, NEW k \in Programs, UNCHANGED mysqlVars
  PROVE  StepOK(k)
<1> USE DEF mysqlVars
<1>1. MysqlTypeOK'
  BY DEF WrapInv, MysqlTypeOK
<1>2. Frame(k)
  BY DEF Frame
<1>3. Handles(k)' /\ Counted(k)'
  BY DEF WrapInv, Handles, Counted, Reaches, IsQuery
<1>4. Respects(k)
  BY ChangesNothing DEF Respects
<1> QED BY <1>1, <1>2, <1>3, <1>4 DEF StepOK

(* The other programs go on from where they are: what a step changes in    *)
(* the table is not what their transactions have changed.                  *)
CallFrame(k) ==
  \A j \in Programs \ {k} :
    /\ call'[j] = call[j] /\ pc'[j] = pc[j]
    /\ outcome'[j] = outcome[j] /\ result'[j] = result[j]

LEMMA OthersKeepCallInv ==
  ASSUME WrapInv, NEW k \in Programs, StepOK(k), CallFrame(k),
         NEW j \in Programs \ {k}, CallInv(j)
  PROVE  CallInv(j)'
<1>1. /\ alive'[j] = alive[j] /\ conn'[j] = conn[j] /\ session'[j] = session[j]
      /\ stmt'[j] = stmt[j] /\ bound'[j] = bound[j] /\ sent'[j] = sent[j]
      /\ out'[j] = out[j] /\ got'[j] = got[j] /\ cursor'[j] = cursor[j]
      /\ txn'[j] = txn[j]
      /\ call'[j] = call[j] /\ pc'[j] = pc[j] /\ outcome'[j] = outcome[j]
  BY DEF StepOK, Frame, CallFrame
<1>2. ASSUME NEW r \in Rows, txn[j][r] # Same PROVE table'[r] = table[r]
  BY <1>2 DEF StepOK, Respects, Locked
<1>3. Length(j)' = Length(j) /\ SqlOf(call[j])' = SqlOf(call[j])
        /\ Begun(call[j])' = Begun(call[j])
  BY <1>1 DEF Length, SqlOf, Begun
<1>4. Fresh(j)' = Fresh(j) /\ Closed(j)' = Closed(j)
  BY <1>1 DEF Fresh, Closed
<1>5. Idle(j)' /\ (pc[j] # 0 => Connected(j)' /\ Leaving(j)' /\ Executed(j)')
  BY <1>1, <1>3, <1>4 DEF CallInv, Idle, Connected, Leaving, Executed, IsQuery
<1>6. pc[j] # 0 => Preparing(j)'
  BY <1>1, <1>3, <1>4 DEF CallInv, Preparing, IsQuery
<1>7. pc[j] # 0 => Pending(j)'
  BY <1>1, <1>2 DEF CallInv, Pending
<1> QED BY <1>1, <1>3, <1>5, <1>6, <1>7 DEF CallInv

-----------------------------------------------------------------------------
(* A step keeps the promise: it is a step of UserTable or changes nothing  *)
(* of what UserTable speaks of.                                            *)
Kept(k) ==
  \/ Promise!Begin(k) \/ Promise!Apply(k) \/ Promise!End(k) \/ Promise!Die(k)
  \/ UNCHANGED <<table, call, result>>

StepResult(k) == CallTypeOK' /\ CallFrame(k) /\ CallInv(k)' /\ Kept(k)

ProgramInv(k) == WrapInv /\ CallTypeOK /\ CallInv(k)

LEMMA DeadOK ==
  ASSUME NEW k \in Programs, ProgramInv(k), Dies(k), Forget(k)
  PROVE  StepResult(k)
<1> USE DEF Forget
<1>1. CallTypeOK'
  BY DEF ProgramInv, CallTypeOK, CallRecords, ResultRecords, NoCall, NoResult,
         Promise!NoCall, Promise!NoResult
<1>2. CallFrame(k)
  BY DEF ProgramInv, CallTypeOK, CallFrame
<1>3. call'[k] = NoCall /\ pc'[k] = 0 /\ ~alive'[k] /\ ~conn'[k].autocommit
  BY DEF ProgramInv, WrapInv, MysqlTypeOK, CallTypeOK, CallInv, Dies
<1>4. CallInv(k)'
  BY <1>3 DEF CallInv, Idle
<1>5. Kept(k)
  BY DEF Kept, Dies, Promise!Die, NoCall, NoResult
<1> QED BY <1>1, <1>2, <1>4, <1>5 DEF StepResult

(* The three phases of a method: before execute, before its last step, and *)
(* its destructors.                                                        *)
LEMMA AtPreparing ==
  ASSUME NEW k \in Programs, Begun(call[k]), call'[k] = call[k],
         alive'[k], ~conn'[k].autocommit,
         pc'[k] \in 1 .. Length(k) - 1, Preparing(k)', Connected(k)'
  PROVE  CallInv(k)'
<1>1. Length(k)' = Length(k) /\ Length(k) \in {5, 6} /\ Begun(call[k])'
  BY Lengths DEF Length, Begun
<1>2. txn'[k] = NoChanges
  BY <1>1 DEF Preparing
<1>3. Pending(k)'
  BY <1>2 DEF Pending, NoChanges
<1>4. pc'[k] # 0 /\ pc'[k] # Length(k)' /\ ~(pc'[k] > Length(k)')
  BY <1>1
<1>5. Executed(k)' /\ Leaving(k)' /\ Idle(k)'
  BY <1>4 DEF Executed, Leaving, Idle
<1> QED BY <1>1, <1>3, <1>5 DEF CallInv

LEMMA AtEnd ==
  ASSUME NEW k \in Programs, Begun(call[k]), Begun(call'[k]),
         call'[k].method = call[k].method, alive'[k],
         pc'[k] = Length(k), Connected(k)', Pending(k)', Executed(k)'
  PROVE  CallInv(k)'
<1>1. Length(k)' = Length(k) /\ Length(k) \in {5, 6} /\ Begun(call[k])'
  BY Lengths DEF Length, Begun
<1>2. ~conn'[k].autocommit
  BY <1>1 DEF Connected
<1>3. Preparing(k)' /\ Leaving(k)' /\ Idle(k)'
  BY <1>1 DEF Preparing, Leaving, Idle
<1> QED BY <1>1, <1>2, <1>3 DEF CallInv

LEMMA AtLeaving ==
  ASSUME NEW k \in Programs, Begun(call[k]), Begun(call'[k]),
         call'[k].method = call[k].method, alive'[k], ~conn'[k].autocommit,
         pc'[k] \in {Length(k) + 1, Length(k) + 2}, Leaving(k)'
  PROVE  CallInv(k)'
<1>1. Length(k)' = Length(k) /\ Length(k) \in {5, 6} /\ Begun(call[k])'
  BY Lengths DEF Length, Begun
<1>2. txn'[k] = NoChanges
  BY <1>1 DEF Leaving
<1>3. Pending(k)'
  BY <1>2 DEF Pending, NoChanges
<1>4. Preparing(k)' /\ Connected(k)' /\ Executed(k)' /\ Idle(k)'
  BY <1>1 DEF Preparing, Connected, Executed, Idle
<1> QED BY <1>1, <1>3, <1>4 DEF CallInv

(* What Proceeds makes of a step that the program survives.                *)
Fails(k, step) == step \in Checked /\ ret'[k] # "ok"

LEMMA ProceedsOK ==
  ASSUME NEW k \in Programs, ProgramInv(k), MysqlTypeOK', NEW step,
         pc[k] \in 1 .. Length(k), Proceeds(k, step), alive'[k]
  PROVE  /\ CallTypeOK' /\ CallFrame(k) /\ UNCHANGED result
         /\ Fails(k, step) => pc'[k] = Length(k) + 1
         /\ ~Fails(k, step) => pc'[k] = pc[k] + 1
         /\ outcome'[k] = [ok |-> ~Fails(k, step), seen |-> got'[k]]
         /\ IF TakesEffect(k, step) /\ ~call[k].applied
            THEN call' = [call EXCEPT ![k].applied = TRUE,
                            ![k].seen = IF call[k].method = "query"
                                        THEN table[call[k].row] ELSE "none"]
            ELSE UNCHANGED call
<1>1. Begun(call[k]) /\ Length(k) \in {5, 6}
  BY Lengths DEF ProgramInv, CallInv
<1>2. CallTypeOK
  BY DEF ProgramInv
<1>3. /\ pc' = [pc EXCEPT ![k] = IF Fails(k, step) THEN Length(k) + 1
                                                  ELSE pc[k] + 1]
      /\ outcome' = [outcome EXCEPT ![k] = [ok |-> ~Fails(k, step),
                                            seen |-> got'[k]]]
      /\ UNCHANGED result
  BY DEF Proceeds, Fails, AfterFailure, Length
<1>4. IF TakesEffect(k, step) /\ ~call[k].applied
      THEN call' = [call EXCEPT ![k].applied = TRUE,
                      ![k].seen = IF call[k].method = "query"
                                  THEN table[call[k].row] ELSE "none"]
      ELSE UNCHANGED call
  BY DEF Proceeds
<1>5. pc' \in [Programs -> 0 .. 8]
  BY <1>1, <1>2, <1>3 DEF CallTypeOK
<1>6. outcome' \in [Programs -> Outcomes]
  <2>1. [ok |-> ~Fails(k, step), seen |-> got'[k]] \in Outcomes
    <3>1. got'[k] \in Values \cup {NoVar}
      BY DEF MysqlTypeOK
    <3>2. (~Fails(k, step)) \in BOOLEAN
      BY DEF Fails
    <3> HIDE DEF Fails
    <3> QED BY <3>1, <3>2, Zenon DEF Outcomes
  <2>2. outcome \in [Programs -> Outcomes]
    BY <1>2 DEF CallTypeOK
  <2> DEFINE o == [ok |-> ~Fails(k, step), seen |-> got'[k]]
  <2>3. o \in Outcomes /\ outcome' = [outcome EXCEPT ![k] = o]
    BY <1>3, <2>1
  <2> HIDE DEF o
  <2> QED BY <2>2, <2>3
<1>7. call' \in [Programs -> CallRecords]
  <2> DEFINE s == IF call[k].method = "query" THEN table[call[k].row] ELSE "none"
             c == [call[k] EXCEPT !.applied = TRUE, !.seen = s]
  <2>1. call \in [Programs -> CallRecords] /\ call[k] \in CallRecords
    BY <1>2 DEF CallTypeOK
  <2>2. s \in Values \cup {Absent, "none"}
    BY <1>1 DEF ProgramInv, WrapInv, MysqlTypeOK, Begun
  <2>3. c \in CallRecords
    <3> HIDE DEF s
    <3> QED BY <2>1, <2>2 DEF CallRecords
  <2>4. UNCHANGED call \/ call' = [call EXCEPT ![k] = c]
    BY <1>4, <2>1
  <2> HIDE DEF c
  <2> QED BY <2>1, <2>3, <2>4
<1>8. CallFrame(k)
  BY <1>2, <1>3, <1>4 DEF CallTypeOK, CallFrame
<1>9. CallTypeOK'
  BY <1>2, <1>3, <1>5, <1>6, <1>7 DEF CallTypeOK
<1>10. /\ Fails(k, step) => pc'[k] = Length(k) + 1
       /\ ~Fails(k, step) => pc'[k] = pc[k] + 1
       /\ outcome'[k] = [ok |-> ~Fails(k, step), seen |-> got'[k]]
  BY <1>2, <1>3 DEF CallTypeOK
<1> QED BY <1>3, <1>4, <1>8, <1>9, <1>10

LEMMA NextStep ==
  ASSUME NEW k \in Programs, ProgramInv(k), MysqlTypeOK', NEW step,
         pc[k] \in 1 .. Length(k), Proceeds(k, step), alive'[k]
  PROVE  /\ step \in Checked /\ ret'[k] # "ok" =>
              pc'[k] = Length(k) + 1 /\ ~outcome'[k].ok
         /\ step \notin Checked \/ ret'[k] = "ok" =>
              pc'[k] = pc[k] + 1 /\ outcome'[k].ok
         /\ outcome'[k].seen = got'[k]
<1> DEFINE done == ~Fails(k, step)
<1>1. /\ ~done => pc'[k] = Length(k) + 1
      /\ done => pc'[k] = pc[k] + 1
      /\ outcome'[k] = [ok |-> done, seen |-> got'[k]]
  BY ProceedsOK
<1>2. done = TRUE \/ done = FALSE
  OBVIOUS
<1>3. ~done <=> step \in Checked /\ ret'[k] # "ok"
  BY DEF Fails
<1> HIDE DEF done
<1>4. CASE done = TRUE
  BY <1>1, <1>3, <1>4
<1>5. CASE done = FALSE
  BY <1>1, <1>3, <1>5
<1> QED BY <1>2, <1>4, <1>5

(* A step that is neither execute nor commit has no effect.                *)
LEMMA QuietStep ==
  ASSUME NEW k \in Programs, ProgramInv(k), MysqlTypeOK',
         NEW step \in {"connecttodb", "stmt", "prepare", "bindin", "bindout",
                       "next"},
         pc[k] \in 1 .. Length(k), Proceeds(k, step), alive'[k],
         UNCHANGED table
  PROVE  CallTypeOK' /\ CallFrame(k) /\ UNCHANGED call /\ Kept(k)
<1>1. ~TakesEffect(k, step)
  BY DEF TakesEffect
<1> QED BY <1>1, ProceedsOK DEF Kept

-----------------------------------------------------------------------------
(* The steps of a method, one by one, when the program survives them.      *)
LEMMA ConnectStep ==
  ASSUME NEW k \in Programs, ProgramInv(k), StepOK(k), pc[k] = 1,
         ConnectToDb(k, FALSE), Proceeds(k, "connecttodb")
  PROVE  StepResult(k)
<1>1. Begun(call[k]) /\ Length(k) \in {5, 6} /\ alive[k]
  BY Lengths DEF ProgramInv, CallInv
<1>2. alive'[k] /\ UNCHANGED table
  BY <1>1 DEF ConnectToDb
<1>3. CallTypeOK' /\ CallFrame(k) /\ UNCHANGED call /\ Kept(k)
  BY <1>1, <1>2, QuietStep DEF StepOK
<1>4. /\ ~call[k].applied /\ txn[k] = NoChanges /\ got[k] = NoVar
      /\ sent[k] = NoVar /\ cursor[k] = <<>>
      /\ Closed(k) /\ Fresh(k)
  BY <1>1 DEF ProgramInv, CallInv, Preparing
<1>5. /\ txn'[k] = NoChanges /\ got'[k] = NoVar /\ sent'[k] = NoVar
      /\ cursor'[k] = <<>> /\ Fresh(k)'
  BY <1>4 DEF ConnectToDb, Fresh
<1>8. /\ conn \in [Programs -> Connections] /\ conn[k] \in Connections
      /\ ret \in [Programs -> {"ok", "error", "nodata"}]
  BY DEF ProgramInv, WrapInv, MysqlTypeOK
<1>6. CASE ret'[k] # "ok"
  <2>1. pc'[k] = Length(k) + 1 /\ ~outcome'[k].ok
    BY <1>1, <1>2, <1>6, NextStep DEF Checked, StepOK
  <2>2. ~conn'[k].autocommit
    <3>1. conn' = [conn EXCEPT ![k].m_conn = FALSE]
      BY <1>4, <1>6, <1>8 DEF ConnectToDb, Returns, Closed
    <3> QED BY <1>8, <3>1 DEF ProgramInv, CallInv, Connections
  <2>3. Leaving(k)'
    BY <1>1, <1>3, <1>4, <1>5, <2>1 DEF Leaving, Length
  <2>4. CallInv(k)'
    BY <1>1, <1>2, <1>3, <2>1, <2>2, <2>3, AtLeaving
  <2> QED BY <1>3, <2>4 DEF StepResult
<1>7. CASE ret'[k] = "ok"
  <2>1. pc'[k] = 2
    BY <1>1, <1>2, <1>7, NextStep DEF StepOK
  <2>2. conn'[k] = [m_state |-> 1, m_conn |-> TRUE, autocommit |-> FALSE]
    <3>1. conn' = [conn EXCEPT ![k] = [m_state |-> 1, m_conn |-> TRUE,
                                       autocommit |-> FALSE]]
      BY <1>4, <1>7, <1>8 DEF ConnectToDb, Returns, Closed
    <3> QED BY <1>8, <3>1
  <2>3. Preparing(k)'
    BY <1>3, <1>4, <1>5, <2>1 DEF Preparing, Fresh, NoStmt
  <2>4. Connected(k)'
    BY <2>2 DEF Connected
  <2>5. CallInv(k)'
    BY <1>1, <1>2, <1>3, <2>1, <2>2, <2>3, <2>4, AtPreparing
  <2> QED BY <1>3, <2>5 DEF StepResult
<1> QED BY <1>6, <1>7

LEMMA StmtStep ==
  ASSUME NEW k \in Programs, ProgramInv(k), StepOK(k), pc[k] = 2,
         StmtConnect(k), Proceeds(k, "stmt")
  PROVE  StepResult(k)
<1>1. Begun(call[k]) /\ Length(k) \in {5, 6} /\ alive[k]
  BY Lengths DEF ProgramInv, CallInv
<1>2. conn[k] = [m_state |-> 1, m_conn |-> TRUE, autocommit |-> FALSE]
  BY <1>1 DEF ProgramInv, CallInv, Connected
<1>3. /\ ~call[k].applied /\ txn[k] = NoChanges /\ got[k] = NoVar
      /\ sent[k] = NoVar /\ cursor[k] = <<>> /\ Fresh(k)
  BY <1>1 DEF ProgramInv, CallInv, Preparing
<1>4. /\ \/ UNCHANGED stmt
         \/ stmt' = [stmt EXCEPT ![k].m_state = 1, ![k].handle = "live"]
      /\ UNCHANGED <<alive, conn, bound, sent, out, got, cursor, txn, table>>
  BY <1>2, <1>3 DEF StmtConnect, Null, Unconnected, objects
<1>5. CallTypeOK' /\ CallFrame(k) /\ UNCHANGED call /\ Kept(k)
  BY <1>1, <1>4, QuietStep DEF StepOK
<1>6. pc'[k] = 3
  BY <1>1, <1>4, NextStep DEF Checked, StepOK
<1>7. stmt'[k].sql = NoSql /\ stmt'[k].maxbindin = Garbage
  BY <1>3, <1>4 DEF Fresh, NoStmt, ProgramInv, WrapInv, MysqlTypeOK, Statements
<1>8. Preparing(k)'
  BY <1>3, <1>4, <1>5, <1>6, <1>7 DEF Preparing
<1>9. Connected(k)'
  BY <1>2, <1>4 DEF Connected
<1>10. CallInv(k)'
  BY <1>1, <1>2, <1>4, <1>5, <1>6, <1>8, <1>9, AtPreparing
<1> QED BY <1>5, <1>10 DEF StepResult

LEMMA PrepareStep ==
  ASSUME NEW k \in Programs, ProgramInv(k), StepOK(k), pc[k] = 3,
         Prepare(k, SqlOf(call[k])), Proceeds(k, "prepare")
  PROVE  StepResult(k)
<1>1. Begun(call[k]) /\ Length(k) \in {5, 6} /\ alive[k]
  BY Lengths DEF ProgramInv, CallInv
<1>2. conn[k] = [m_state |-> 1, m_conn |-> TRUE, autocommit |-> FALSE]
  BY <1>1 DEF ProgramInv, CallInv, Connected
<1>3. /\ ~call[k].applied /\ txn[k] = NoChanges /\ got[k] = NoVar
      /\ sent[k] = NoVar /\ cursor[k] = <<>>
      /\ stmt[k].maxbindin = Garbage /\ stmt[k].sql = NoSql
  BY <1>1 DEF ProgramInv, CallInv, Preparing
<1>4. UNCHANGED <<alive, conn, session, got, txn, table>>
  BY DEF Prepare, NotBoundStmt
<1>5. CallTypeOK' /\ CallFrame(k) /\ UNCHANGED call /\ Kept(k)
  BY <1>1, <1>4, QuietStep DEF StepOK
<1>6. pc'[k] = 4
  BY <1>1, <1>4, NextStep DEF Checked, StepOK
<1>7. /\ sent'[k] = NoVar /\ cursor'[k] = <<>>
      /\ \/ stmt'[k].maxbindin = Garbage /\ stmt'[k].sql = NoSql
         \/ /\ stmt'[k].maxbindin = 0 /\ stmt'[k].m_state = 1
            /\ stmt'[k].sql = SqlOf(call[k]) /\ out'[k] = "none"
  <2>1. CASE NotBoundStmt(k)
    BY <1>3, <2>1 DEF NotBoundStmt
  <2>2. CASE /\ stmt[k].m_state = 1
             /\ \E t : stmt' = [stmt EXCEPT ![k].sql = SqlOf(call[k]),
                                  ![k].maxbindin = 0, ![k].sqltype = t]
             /\ ClearBindings(k)
             /\ cursor' = [cursor EXCEPT ![k] = <<>>]
    BY <2>2 DEF ClearBindings, ProgramInv, WrapInv, MysqlTypeOK, Statements
  <2>3. CASE /\ stmt' = [stmt EXCEPT ![k].sql = NoSql]
             /\ sent' = [sent EXCEPT ![k] = NoVar]
             /\ cursor' = [cursor EXCEPT ![k] = <<>>]
    BY <1>3, <2>3 DEF ProgramInv, WrapInv, MysqlTypeOK, Statements
  <2> QED BY <2>1, <2>2, <2>3 DEF Prepare
<1>8. Preparing(k)'
  <2>1. SqlOf(call[k])' = SqlOf(call[k])
    BY <1>5 DEF SqlOf
  <2> QED BY <1>3, <1>4, <1>5, <1>6, <1>7, <2>1 DEF Preparing, Garbage
<1>9. Connected(k)'
  BY <1>2, <1>4 DEF Connected
<1>10. CallInv(k)'
  BY <1>1, <1>2, <1>4, <1>5, <1>6, <1>8, <1>9, AtPreparing
<1> QED BY <1>5, <1>10 DEF StepResult

LEMMA BindStep ==
  ASSUME NEW k \in Programs, ProgramInv(k), StepOK(k), pc[k] = 4,
         \/ /\ call[k].method \in {"insert", "updateState"}
            /\ Bindin(k, 1, call[k].value) /\ Proceeds(k, "bindin")
         \/ /\ call[k].method = "query"
            /\ Bindout(k, 1) /\ Proceeds(k, "bindout")
  PROVE  StepResult(k)
<1>1. Begun(call[k]) /\ Length(k) = 6 /\ alive[k]
  BY Lengths DEF ProgramInv, CallInv
<1>2. conn[k] = [m_state |-> 1, m_conn |-> TRUE, autocommit |-> FALSE]
  BY <1>1 DEF ProgramInv, CallInv, Connected
<1>3. /\ ~call[k].applied /\ txn[k] = NoChanges /\ got[k] = NoVar
      /\ sent[k] = NoVar /\ cursor[k] = <<>>
      /\ stmt[k].maxbindin = Garbage => stmt[k].sql = NoSql
      /\ stmt[k].maxbindin # Garbage =>
           /\ stmt[k].m_state = 1 /\ stmt[k].sql = SqlOf(call[k])
           /\ call[k].method = "query" => out[k] = "none"
  BY <1>1 DEF ProgramInv, CallInv, Preparing
<1>4. UNCHANGED <<alive, conn, session, got, txn, table, sent, cursor>>
  BY DEF Bindin, Bindout, NotBoundStmt
<1>5. CallTypeOK' /\ CallFrame(k) /\ UNCHANGED call /\ Kept(k)
  BY <1>1, <1>4, QuietStep DEF StepOK
<1>6. pc'[k] = 5
  BY <1>1, <1>4, NextStep DEF Checked, StepOK
<1>7. /\ stmt'[k].m_state = stmt[k].m_state /\ stmt'[k].sql = stmt[k].sql
      /\ stmt'[k].maxbindin = Garbage <=> stmt[k].maxbindin = Garbage
      /\ stmt[k].maxbindin # Garbage =>
           /\ call[k].method = "query" => out'[k] = "bound"
           /\ call[k].method \in {"insert", "updateState"} =>
                bound'[k] = call[k].value
  <2>0. stmt \in [Programs -> Statements] /\ stmt[k] \in Statements
        /\ DOMAIN bound = Programs /\ DOMAIN out = Programs
    BY DEF ProgramInv, WrapInv, MysqlTypeOK
  <2>1. CASE NotBoundStmt(k)
    BY <1>3, <2>1 DEF NotBoundStmt
  <2>2. CASE /\ stmt[k].m_state = 1 /\ Bindin(k, 1, call[k].value)
             /\ call[k].method \in {"insert", "updateState"}
    <3>1. /\ bound'[k] = call[k].value
          /\ \/ UNCHANGED stmt
             \/ /\ stmt' = [stmt EXCEPT ![k].maxbindin = 1]
                /\ stmt[k].maxbindin # Garbage
      BY <2>0, <2>2 DEF Bindin, NotBoundStmt
    <3> QED BY <2>0, <2>2, <3>1 DEF Statements, Garbage
  <2>3. CASE stmt[k].m_state = 1 /\ Bindout(k, 1) /\ call[k].method = "query"
    BY <1>3, <2>0, <2>3 DEF Bindout, NotBoundStmt
  <2> QED BY <2>1, <2>2, <2>3 DEF Bindin, Bindout
<1>8. Preparing(k)'
  <2>1. SqlOf(call[k])' = SqlOf(call[k])
    BY <1>5 DEF SqlOf
  <2> QED BY <1>3, <1>4, <1>5, <1>6, <1>7, <2>1 DEF Preparing
<1>9. Connected(k)'
  BY <1>2, <1>4 DEF Connected
<1>10. CallInv(k)'
  BY <1>1, <1>2, <1>4, <1>5, <1>6, <1>8, <1>9, AtPreparing
<1> QED BY <1>5, <1>10 DEF StepResult

(* The rows a write has changed, seen from the committed table.            *)
Written(k, value) == Changes(k, SqlOf(call[k]), value)

LEMMA WriteChanges ==
  ASSUME NEW k \in Programs, ProgramInv(k), txn[k] = NoChanges,
         Begun(call[k]), call[k].method # "query", NEW value,
         call[k].method # "resetState" => value = call[k].value
  PROVE  /\ call[k].method \in {"insert", "updateState"} =>
              \A r \in Rows : Written(k, value)[r] =
                IF r = call[k].row /\ (call[k].method = "updateState" =>
                                         table[r] # Absent)
                THEN call[k].value ELSE Same
         /\ call[k].method = "resetState" =>
              \A r \in Rows : Written(k, value)[r] =
                IF table[r] = "online" THEN "offline" ELSE Same
<1>1. View(k) = table /\ \A r \in Rows : txn[k][r] = Same
  BY ViewOK, NoChangesOK DEF ProgramInv
<1>2. CASE call[k].method = "insert"
  BY <1>1, <1>2, SqlOfOK DEF Changes, Written
<1>3. CASE call[k].method = "updateState"
  BY <1>1, <1>3, SqlOfOK DEF Changes, Written
<1>4. CASE call[k].method = "resetState"
  BY <1>1, <1>4, SqlOfOK DEF Changes, Written
<1> QED BY <1>2, <1>3, <1>4 DEF Begun

(* What a transaction holds is the effect of its call, when it commits.    *)
LEMMA CommitIsEffect ==
  ASSUME NEW k \in Programs, ProgramInv(k), pc[k] # 0, Begun(call[k]),
         txn[k] # NoChanges, table' = View(k)
  PROVE  Promise!Effect(call[k])
<1> DEFINE c == call[k]
<1>1. /\ table \in [Rows -> Values \cup {Absent}]
      /\ txn[k] \in [Rows -> Values \cup {Same}]
  BY DEF ProgramInv, WrapInv, MysqlTypeOK
<1>2. PICK r \in Rows : txn[k][r] # Same
  BY <1>1 DEF NoChanges
<1>3. Pending(k)
  BY DEF ProgramInv, CallInv
<1>4. /\ table' \in [Rows -> Values \cup {Absent}]
      /\ \A q \in Rows : table'[q] = IF txn[k][q] = Same THEN table[q]
                                                         ELSE txn[k][q]
  BY ViewOK DEF ProgramInv, View
<1>5. CASE c.method = "insert"
  <2>1. /\ r = c.row /\ table[r] = Absent
        /\ \A q \in Rows : table'[q] = IF q = r THEN c.value ELSE table[q]
    BY <1>2, <1>3, <1>4, <1>5 DEF Pending
  <2>2. table' = [table EXCEPT ![c.row] = c.value]
    BY <1>1, <1>4, <2>1
  <2> QED BY <1>5, <2>1, <2>2 DEF Promise!Effect, Absent
<1>6. CASE c.method = "updateState"
  <2>1. /\ r = c.row /\ table[r] # Absent
        /\ \A q \in Rows : table'[q] = IF q = r THEN c.value ELSE table[q]
    BY <1>2, <1>3, <1>4, <1>6 DEF Pending
  <2>2. table' = [table EXCEPT ![c.row] = c.value]
    BY <1>1, <1>4, <2>1
  <2> QED BY <1>6, <2>1, <2>2 DEF Promise!Effect, Absent
<1>7. CASE c.method = "resetState"
  <2> DEFINE S == {q \in Rows : txn[k][q] # Same}
  <2>1. \A q \in Rows : txn[k][q] # Same =>
          txn[k][q] = "offline" /\ table[q] = "online"
    BY <1>3, <1>7 DEF Pending
  <2>2. S \in SUBSET {q \in Rows : table[q] = "online"}
    BY <2>1
  <2>3. table' = [q \in Rows |-> IF q \in S THEN "offline" ELSE table[q]]
    BY <1>1, <1>4, <2>1
  <2> HIDE DEF S
  <2> QED BY <1>7, <2>2, <2>3 DEF Promise!Effect
<1>8. CASE c.method = "query"
  BY <1>2, <1>3, <1>8 DEF Pending
<1> QED BY <1>5, <1>6, <1>7, <1>8 DEF Begun

(* An effect that is recorded is a step of UserTable.                      *)
LEMMA AppliesOK ==
  ASSUME NEW k \in Programs, ProgramInv(k), Begun(call[k]),
         ~call[k].applied, Promise!Effect(call[k]), UNCHANGED result,
         call' = [call EXCEPT ![k].applied = TRUE,
                    ![k].seen = IF call[k].method = "query"
                                THEN table[call[k].row] ELSE "none"]
  PROVE  /\ Kept(k)
         /\ Begun(call'[k]) /\ call'[k].method = call[k].method
         /\ call'[k].row = call[k].row /\ call'[k].value = call[k].value
         /\ call'[k].applied
         /\ call'[k].seen = IF call[k].method = "query"
                            THEN table[call[k].row] ELSE "none"
<1>1. call[k] # NoCall
  BY DEF Begun, NoCall, Promise!NoCall
<1>2. Kept(k)
  BY <1>1 DEF Kept, Promise!Apply, NoCall
<1>3. call \in [Programs -> CallRecords] /\ call[k] \in CallRecords
  BY DEF ProgramInv, CallTypeOK
<1>4. call'[k] = [call[k] EXCEPT !.applied = TRUE,
                    !.seen = IF call[k].method = "query"
                             THEN table[call[k].row] ELSE "none"]
  BY <1>3
<1>5. /\ call'[k].method = call[k].method
      /\ call'[k].row = call[k].row /\ call'[k].value = call[k].value
      /\ call'[k].applied
      /\ call'[k].seen = IF call[k].method = "query"
                         THEN table[call[k].row] ELSE "none"
  BY <1>3, <1>4 DEF CallRecords
<1>6. Begun(call'[k])
  BY <1>5 DEF Begun, ProgramInv, WrapInv, MysqlTypeOK
<1> QED BY <1>2, <1>5, <1>6

LEMMA ExecuteStep ==
  ASSUME NEW k \in Programs, ProgramInv(k), StepOK(k), pc[k] # 0,
         pc[k] = Length(k) - 1,
         Execute(k), Proceeds(k, "execute")
  PROVE  StepResult(k)
<1>1. Begun(call[k]) /\ Length(k) \in {5, 6} /\ alive[k]
  BY Lengths DEF ProgramInv, CallInv
<1>2. conn[k] = [m_state |-> 1, m_conn |-> TRUE, autocommit |-> FALSE]
  BY <1>1 DEF ProgramInv, CallInv, Connected
<1>3. /\ ~call[k].applied /\ txn[k] = NoChanges /\ got[k] = NoVar
      /\ sent[k] = NoVar /\ cursor[k] = <<>>
      /\ stmt[k].sql # NoSql =>
           /\ stmt[k].sql = SqlOf(call[k])
           /\ call[k].method = "query" => out[k] = "bound"
           /\ call[k].method \in {"insert", "updateState"} =>
                bound[k] = call[k].value
  BY <1>1, Lengths DEF ProgramInv, CallInv, Preparing
<1>4. View(k) = table
  BY <1>3, ViewOK DEF ProgramInv
<1>5. /\ ret \in [Programs -> {"ok", "error", "nodata"}]
      /\ DOMAIN alive = Programs /\ DOMAIN cursor = Programs
      /\ DOMAIN txn = Programs
      /\ out \in [Programs -> {"none", "bound", "taken", "lost"}]
  BY DEF ProgramInv, WrapInv, MysqlTypeOK
<1>6. CASE Dies(k)
  <2>1. ~alive'[k]
    BY <1>5, <1>6 DEF Dies
  <2> QED BY <1>6, <2>1, DeadOK DEF Proceeds
<1>7. CASE (NotBoundStmt(k) \/ ExecuteFails(k))
             /\ UNCHANGED <<alive, session, conn, got>>
  <2>1. ret'[k] = "error" /\ UNCHANGED <<alive, conn, got, txn, table>>
    BY <1>5, <1>7 DEF NotBoundStmt, ExecuteFails, Returns
  <2>2. ~TakesEffect(k, "execute")
    BY <2>1 DEF TakesEffect
  <2>3. alive'[k] /\ pc[k] \in 1 .. Length(k)
    BY <1>1, <2>1
  <2>4. CallTypeOK' /\ CallFrame(k) /\ UNCHANGED result /\ UNCHANGED call
    BY <2>2, <2>3, ProceedsOK DEF StepOK
  <2>5. pc'[k] = Length(k) + 1 /\ ~outcome'[k].ok
    BY <2>1, <2>3, NextStep DEF Checked, StepOK
  <2>6. Leaving(k)'
    BY <1>1, <1>3, <2>1, <2>4, <2>5 DEF Leaving, Length
  <2>7. CallInv(k)'
    BY <1>1, <1>2, <2>1, <2>3, <2>4, <2>5, <2>6, AtLeaving
  <2>8. Kept(k)
    BY <2>1, <2>4 DEF Kept
  <2> QED BY <2>4, <2>7, <2>8 DEF StepResult
<1>8. CASE /\ stmt[k].sql # NoSql /\ IsQuery(stmt[k].sql)
           /\ ExecuteQuery(k) /\ TakeOutOnce(k)
           /\ UNCHANGED <<alive, session, conn, stmt, bound, got>>
  <2>1. call[k].method = "query" /\ stmt[k].sql.row = call[k].row
    BY <1>1, <1>3, <1>8, SqlOfOK DEF IsQuery, Begun
  <2>2. /\ ret'[k] = "ok" /\ UNCHANGED <<txn, table>>
        /\ cursor'[k] = IF table[call[k].row] = Absent THEN <<>>
                                            ELSE <<table[call[k].row]>>
    BY <1>4, <1>5, <1>8, <2>1 DEF ExecuteQuery, Returns
  <2>3. out'[k] = "taken"
    BY <1>3, <1>5, <1>8, <2>1 DEF TakeOutOnce
  <2>4. TakesEffect(k, "execute") /\ Promise!Effect(call[k])
    BY <1>3, <2>1, <2>2 DEF TakesEffect, Promise!Effect
  <2>5. alive'[k] /\ pc[k] \in 1 .. Length(k)
    BY <1>1, <1>8
  <2>6. /\ CallTypeOK' /\ CallFrame(k) /\ UNCHANGED result
        /\ call' = [call EXCEPT ![k].applied = TRUE,
                      ![k].seen = IF call[k].method = "query"
                                  THEN table[call[k].row] ELSE "none"]
    BY <1>3, <2>4, <2>5, ProceedsOK DEF StepOK
  <2>7. /\ Kept(k) /\ Begun(call'[k]) /\ call'[k].method = "query"
        /\ call'[k].applied /\ call'[k].seen = table[call[k].row]
    BY <1>1, <1>3, <2>1, <2>4, <2>6, AppliesOK
  <2>8. pc'[k] = Length(k)
    BY <1>1, <2>2, <2>5, NextStep DEF StepOK
  <2>9. Connected(k)'
    BY <1>2, <1>8 DEF Connected
  <2>10. txn'[k] = NoChanges
    BY <1>3, <2>2
  <2>11. Pending(k)'
    BY <2>10, NoChangesOK DEF Pending
  <2>12. Executed(k)'
    BY <1>3, <1>8, <2>2, <2>3, <2>7, <2>10 DEF Executed
  <2>13. CallInv(k)'
    BY <1>1, <2>1, <2>5, <2>7, <2>8, <2>9, <2>11, <2>12, AtEnd
  <2> QED BY <2>6, <2>7, <2>13 DEF StepResult
<1>9. CASE /\ stmt[k].sql # NoSql /\ ~IsQuery(stmt[k].sql)
           /\ ExecuteWrite(k, TakeOnce(k))
           /\ UNCHANGED <<alive, session, conn, stmt, bound, got>>
  <2> DEFINE new == Written(k, TakeOnce(k))
  <2>1. call[k].method # "query" /\ stmt[k].sql = SqlOf(call[k])
    BY <1>1, <1>3, <1>9, SqlOfOK DEF IsQuery
  <2>2. call[k].method # "resetState" => TakeOnce(k) = call[k].value
    BY <1>1, <1>3, <1>9, <2>1 DEF TakeOnce, Begun
  <2>3. /\ call[k].method \in {"insert", "updateState"} =>
             \A r \in Rows : new[r] =
               IF r = call[k].row /\ (call[k].method = "updateState" =>
                                        table[r] # Absent)
               THEN call[k].value ELSE Same
        /\ call[k].method = "resetState" =>
             \A r \in Rows : new[r] =
               IF table[r] = "online" THEN "offline" ELSE Same
    BY <1>1, <1>3, <2>1, <2>2, WriteChanges
  <2>4. /\ ret'[k] = "ok" /\ txn'[k] = new /\ UNCHANGED table
        /\ cursor'[k] = <<>>
        /\ call[k].method = "insert" => table[call[k].row] = Absent
    BY <1>1, <1>2, <1>4, <1>5, <1>9, <2>1, SqlOfOK DEF ExecuteWrite, Returns, Written
  <2> HIDE DEF new
  <2>5. alive'[k] /\ pc[k] \in 1 .. Length(k)
    BY <1>1, <1>9
  <2>6. /\ CallTypeOK' /\ CallFrame(k) /\ UNCHANGED result
        /\ IF TakesEffect(k, "execute")
           THEN call' = [call EXCEPT ![k].applied = TRUE,
                           ![k].seen = IF call[k].method = "query"
                                       THEN table[call[k].row] ELSE "none"]
           ELSE UNCHANGED call
    BY <1>3, <2>5, ProceedsOK DEF StepOK
  <2>7. TakesEffect(k, "execute") <=> new = NoChanges
    BY <2>4 DEF TakesEffect
  <2>8. new = NoChanges => Promise!Effect(call[k])
    <3> SUFFICES ASSUME new = NoChanges PROVE Promise!Effect(call[k])
      OBVIOUS
    <3>1. \A r \in Rows : new[r] = Same
      BY NoChangesOK
    <3>2. table \in [Rows -> Values \cup {Absent}]
      BY DEF ProgramInv, WrapInv, MysqlTypeOK
    <3>3. CASE call[k].method \in {"insert", "updateState"}
      <4>1. call[k].method = "updateState" /\ table[call[k].row] = Absent
        BY <1>1, <2>3, <2>4, <3>1, <3>3 DEF Begun, Values, Same
      <4> QED BY <2>4, <4>1 DEF Promise!Effect, Absent
    <3>4. CASE call[k].method = "resetState"
      <4>1. table' = [r \in Rows |-> IF r \in {} THEN "offline" ELSE table[r]]
        BY <2>4, <3>2
      <4>2. {} \in SUBSET {r \in Rows : table[r] = "online"}
        OBVIOUS
      <4> QED BY <3>4, <4>1, <4>2 DEF Promise!Effect
    <3> QED BY <1>1, <2>1, <3>3, <3>4 DEF Begun
  <2>9. /\ Kept(k) /\ Begun(call'[k]) /\ call'[k].method = call[k].method
        /\ call'[k].row = call[k].row /\ call'[k].value = call[k].value
        /\ call'[k].applied <=> new = NoChanges
    <3>1. CASE new = NoChanges
      BY <1>1, <1>3, <2>6, <2>7, <2>8, <3>1, AppliesOK
    <3>2. CASE new # NoChanges
      BY <1>1, <1>3, <2>4, <2>6, <2>7, <3>2 DEF Kept
    <3> QED BY <3>1, <3>2
  <2>10. pc'[k] = Length(k)
    BY <1>1, <2>4, <2>5, NextStep DEF StepOK
  <2>11. Connected(k)'
    BY <1>2, <1>9 DEF Connected
  <2>12. Pending(k)'
    <3> SUFFICES ASSUME NEW r \in Rows, new[r] # Same
                 PROVE  (CASE call[k].method = "insert" ->
                               /\ r = call[k].row /\ new[r] = call[k].value
                               /\ table[r] = Absent
                          [] call[k].method = "updateState" ->
                               /\ r = call[k].row /\ new[r] = call[k].value
                               /\ table[r] # Absent
                          [] call[k].method = "resetState" ->
                               new[r] = "offline" /\ table[r] = "online"
                          [] call[k].method = "query" -> FALSE)
      BY <2>4, <2>9 DEF Pending
    <3> QED BY <1>1, <2>1, <2>3, <2>4 DEF Begun
  <2>13. Executed(k)'
    BY <1>3, <1>9, <2>1, <2>4, <2>9 DEF Executed
  <2>14. CallInv(k)'
    BY <1>1, <2>5, <2>9, <2>10, <2>11, <2>12, <2>13, AtEnd
  <2> QED BY <2>6, <2>9, <2>14 DEF StepResult
<1> QED BY <1>6, <1>7, <1>8, <1>9 DEF Execute

LEMMA FetchStep ==
  ASSUME NEW k \in Programs, ProgramInv(k), StepOK(k), pc[k] = 6,
         call[k].method = "query", FetchNext(k), Proceeds(k, "next")
  PROVE  StepResult(k)
<1>1. Begun(call[k]) /\ Length(k) = 6 /\ alive[k]
  BY Lengths DEF ProgramInv, CallInv
<1>2. conn[k] = [m_state |-> 1, m_conn |-> TRUE, autocommit |-> FALSE]
  BY <1>1 DEF ProgramInv, CallInv, Connected
<1>3. /\ call[k].applied /\ out[k] = "taken" /\ txn[k] = NoChanges
      /\ cursor[k] = IF call[k].seen = Absent THEN <<>>
                                              ELSE <<call[k].seen>>
  BY <1>1 DEF ProgramInv, CallInv, Executed
<1>4. UNCHANGED <<alive, conn, session, txn, table>>
  BY DEF FetchNext, NotBoundStmt
<1>5. CallTypeOK' /\ CallFrame(k) /\ UNCHANGED call /\ Kept(k)
  BY <1>1, <1>4, QuietStep DEF StepOK
<1>6. /\ pc'[k] = 7
      /\ ret'[k] # "ok" => ~outcome'[k].ok
      /\ outcome'[k].seen = got'[k]
  BY <1>1, <1>4, NextStep DEF Checked, StepOK
<1>7. ASSUME ret'[k] = "ok"
      PROVE  call[k].seen # Absent /\ got'[k] = call[k].seen
  <2>1. /\ ret \in [Programs -> {"ok", "error", "nodata"}]
        /\ DOMAIN got = Programs
    BY DEF ProgramInv, WrapInv, MysqlTypeOK
  <2>2. cursor[k] # <<>> /\ FetchRow(k)
    BY <1>7, <2>1 DEF FetchNext, NotBoundStmt, NoMoreRows, Returns
  <2>3. call[k].seen # Absent /\ Head(cursor[k]) = call[k].seen
    BY <1>3, <2>2
  <2> QED BY <1>3, <2>1, <2>2, <2>3 DEF FetchRow
<1>8. Leaving(k)'
  <2>1. Length(k)' = 6
    BY <1>1, <1>5 DEF Length
  <2> QED BY <1>2, <1>3, <1>4, <1>5, <1>6, <1>7, <2>1 DEF Leaving
<1>9. CallInv(k)'
  BY <1>1, <1>2, <1>4, <1>5, <1>6, <1>8, AtLeaving
<1> QED BY <1>5, <1>9 DEF StepResult

LEMMA CommitStep ==
  ASSUME NEW k \in Programs, ProgramInv(k), StepOK(k), pc[k] # 0,
         pc[k] = Length(k), call[k].method # "query",
         Commit(k), Proceeds(k, "commit")
  PROVE  StepResult(k)
<1>1. Begun(call[k]) /\ Length(k) \in {5, 6} /\ alive[k]
  BY Lengths DEF ProgramInv, CallInv
<1>2. conn[k] = [m_state |-> 1, m_conn |-> TRUE, autocommit |-> FALSE]
  BY <1>1 DEF ProgramInv, CallInv, Connected
<1>3. /\ got[k] = NoVar
      /\ call[k].applied => txn[k] = NoChanges
      /\ session[k] = "up" /\ ~call[k].applied => txn[k] # NoChanges
  BY <1>1 DEF ProgramInv, CallInv, Executed
<1>4. /\ conn \in [Programs -> Connections] /\ DOMAIN txn = Programs
      /\ DOMAIN ret = Programs
  BY DEF ProgramInv, WrapInv, MysqlTypeOK
<1>5. /\ UNCHANGED <<alive, got>> /\ txn'[k] = NoChanges
      /\ table' \in {table, View(k)}
      /\ \/ session[k] = "up" /\ table' = View(k) /\ conn' = conn
         \/ conn' = [conn EXCEPT ![k].m_conn = FALSE]
  <2>1. conn[k].m_state = 1 /\ conn[k].m_conn
    BY <1>2
  <2>2. CASE /\ session[k] = "up"
             /\ table' = View(k)
             /\ txn' = [txn EXCEPT ![k] = NoChanges]
             /\ UNCHANGED <<alive, objects, session>>
    BY <1>4, <2>2 DEF objects
  <2>3. CASE /\ table' \in {table, View(k)}
             /\ CloseHandle(k)
             /\ UNCHANGED <<alive, bound, sent, out, got, found, cda>>
    BY <1>4, <2>3 DEF CloseHandle, EndSession
  <2>4. \/ /\ session[k] = "up"
           /\ table' = View(k)
           /\ txn' = [txn EXCEPT ![k] = NoChanges]
           /\ UNCHANGED <<alive, objects, session>>
        \/ /\ table' \in {table, View(k)}
           /\ CloseHandle(k)
           /\ UNCHANGED <<alive, bound, sent, out, got, found, cda>>
    BY <2>1 DEF Commit, Null
  <2> QED BY <2>2, <2>3, <2>4
<1>6. /\ alive'[k] /\ got'[k] = NoVar /\ ~conn'[k].autocommit
      /\ conn'[k].m_state = 1
      /\ conn'[k].m_conn => session[k] = "up" /\ table' = View(k)
  BY <1>1, <1>2, <1>3, <1>4, <1>5 DEF Connections
<1>7. /\ CallTypeOK' /\ CallFrame(k) /\ UNCHANGED result
      /\ IF TakesEffect(k, "commit") /\ ~call[k].applied
         THEN call' = [call EXCEPT ![k].applied = TRUE,
                         ![k].seen = IF call[k].method = "query"
                                     THEN table[call[k].row] ELSE "none"]
         ELSE UNCHANGED call
  <2>1. pc[k] \in 1 .. Length(k) /\ MysqlTypeOK'
    BY <1>1 DEF StepOK
  <2> QED BY <1>6, <2>1, ProceedsOK
<1>8. pc'[k] = Length(k) + 1 /\ outcome'[k].ok /\ outcome'[k].seen = NoVar
  BY <1>1, <1>6, NextStep DEF Checked, StepOK
<1>9. TakesEffect(k, "commit") <=> txn[k] # NoChanges /\ table' = View(k)
  BY DEF TakesEffect
<1>10. /\ Kept(k) /\ Begun(call'[k]) /\ call'[k].method = call[k].method
       /\ conn'[k].m_conn => call'[k].applied
  <2>1. CASE TakesEffect(k, "commit")
    <3>1. ~call[k].applied /\ Promise!Effect(call[k])
      BY <1>1, <1>3, <1>9, <2>1, CommitIsEffect
    <3> QED BY <1>1, <1>7, <2>1, <3>1, AppliesOK
  <2>2. CASE ~TakesEffect(k, "commit")
    <3>1. UNCHANGED <<table, call, result>>
      BY <1>5, <1>7, <1>9, <2>2, ViewOK DEF ProgramInv
    <3>2. conn'[k].m_conn => call[k].applied
      BY <1>3, <1>6, <1>9, <2>2
    <3> QED BY <1>1, <3>1, <3>2 DEF Kept
  <2> QED BY <2>1, <2>2
<1>11. Leaving(k)'
  <2>1. Length(k)' = Length(k)
    BY <1>10 DEF Length
  <2>2. call'[k].seen = "none"
    BY <1>10 DEF Begun
  <2> QED BY <1>1, <1>5, <1>6, <1>8, <1>10, <2>1, <2>2
          DEF Leaving, NoVar, Absent
<1>12. CallInv(k)'
  BY <1>1, <1>6, <1>8, <1>10, <1>11, AtLeaving
<1> QED BY <1>7, <1>10, <1>12 DEF StepResult

LEMMA StepKeeps ==
  ASSUME NEW k \in Programs, ProgramInv(k), Step(k)
  PROVE  StepOK(k) /\ StepResult(k)
<1>1. pc[k] # 0 /\ pc[k] \in Nat
  BY DEF Step, ProgramInv, CallTypeOK
<1>2. Begun(call[k])
  BY <1>1 DEF ProgramInv, CallInv
<1>3. StepOK(k)
  BY <1>1, <1>2, StepIsMethod DEF ProgramInv
<1>4. CASE /\ pc[k] = 1
           /\ ConnectToDb(k, FALSE) /\ Proceeds(k, "connecttodb")
  BY <1>3, <1>4, ConnectStep
<1>5. CASE pc[k] = 2 /\ StmtConnect(k) /\ Proceeds(k, "stmt")
  BY <1>3, <1>5, StmtStep
<1>6. CASE pc[k] = 3 /\ Prepare(k, SqlOf(call[k])) /\ Proceeds(k, "prepare")
  BY <1>3, <1>6, PrepareStep
<1>7. CASE /\ pc[k] = 4
           /\ \/ /\ call[k].method \in {"insert", "updateState"}
                 /\ Bindin(k, 1, call[k].value) /\ Proceeds(k, "bindin")
              \/ /\ call[k].method = "query"
                 /\ Bindout(k, 1) /\ Proceeds(k, "bindout")
  BY <1>3, <1>7, BindStep
<1>8. CASE pc[k] = Length(k) - 1 /\ Execute(k) /\ Proceeds(k, "execute")
  BY <1>1, <1>3, <1>8, ExecuteStep
<1>9. CASE /\ pc[k] = 6 /\ call[k].method = "query"
           /\ FetchNext(k) /\ Proceeds(k, "next")
  BY <1>3, <1>9, FetchStep
<1>10. CASE /\ pc[k] = Length(k) /\ call[k].method # "query"
            /\ Commit(k) /\ Proceeds(k, "commit")
  BY <1>1, <1>3, <1>10, CommitStep
<1>11. StepOf(k)
  BY <1>1, <1>2, StepCases
<1> QED
  BY <1>4, <1>5, <1>6, <1>7, <1>8, <1>9, <1>10, <1>11, Zenon DEF StepOf

-----------------------------------------------------------------------------
(* The destructors.                                                        *)
LEMMA UnwindKeeps ==
  ASSUME NEW k \in Programs, ProgramInv(k), Unwind(k)
  PROVE  StepOK(k) /\ StepResult(k)
<1>1. /\ pc[k] # 0 /\ Begun(call[k]) /\ Length(k) \in {5, 6} /\ alive[k]
      /\ pc \in [Programs -> 0 .. 8]
  BY Lengths DEF Unwind, ProgramInv, CallInv, CallTypeOK
<1>2. CASE /\ pc[k] = Length(k) + 1 /\ StmtDestroy(k)
           /\ pc' = [pc EXCEPT ![k] = @ + 1]
           /\ UNCHANGED <<call, result, outcome>>
  <2>1. StepOK(k)
    BY <1>2, StmtDestroyOK DEF ProgramInv
  <2>2. pc' \in [Programs -> 0 .. 8] /\ pc'[k] = Length(k) + 2
    BY <1>1, <1>2
  <2>3. CallTypeOK' /\ CallFrame(k) /\ Kept(k)
    BY <1>2, <2>2 DEF ProgramInv, CallTypeOK, CallFrame, Kept, StmtDestroy
  <2>4. UNCHANGED <<alive, conn, txn>> /\ Fresh(k)'
    BY <1>2 DEF StmtDestroy, Fresh, ProgramInv, WrapInv, MysqlTypeOK
  <2>5. Leaving(k) /\ ~conn[k].autocommit
    BY <1>1 DEF ProgramInv, CallInv
  <2>6. Leaving(k)'
    BY <1>1, <1>2, <2>2, <2>4, <2>5 DEF Leaving, Length
  <2>7. CallInv(k)'
    BY <1>1, <1>2, <2>2, <2>4, <2>5, <2>6, AtLeaving
  <2> QED BY <2>1, <2>3, <2>7 DEF StepResult
<1>3. CASE /\ pc[k] = Length(k) + 2 /\ ConnDisconnect(k)
           /\ ~alive'[k] /\ Forget(k)
  <2>1. StepOK(k)
    BY <1>3, ConnDisconnectOK DEF ProgramInv
  <2>2. Dies(k)
    BY <1>1, <1>3 DEF ConnDisconnect
  <2> QED BY <1>3, <2>1, <2>2, DeadOK
<1>4. CASE /\ pc[k] = Length(k) + 2 /\ ConnDisconnect(k) /\ alive'[k]
           /\ call' = [call EXCEPT ![k] = NoCall]
           /\ result' = [result EXCEPT ![k] =
                [method |-> call[k].method, row |-> call[k].row,
                 ok |-> outcome[k].ok,
                 seen |-> IF outcome[k].ok THEN outcome[k].seen ELSE NoVar]]
           /\ pc' = [pc EXCEPT ![k] = 0]
           /\ UNCHANGED outcome
  <2> DEFINE seen == IF outcome[k].ok THEN outcome[k].seen ELSE NoVar
             answer == [method |-> call[k].method, row |-> call[k].row,
                        ok |-> outcome[k].ok, seen |-> seen]
  <2>1. StepOK(k)
    BY <1>4, ConnDisconnectOK DEF ProgramInv
  <2>2. /\ call \in [Programs -> CallRecords] /\ call[k] \in CallRecords
        /\ result \in [Programs -> ResultRecords]
        /\ outcome \in [Programs -> Outcomes] /\ outcome[k] \in Outcomes
    BY DEF ProgramInv, CallTypeOK
  <2>3. answer \in ResultRecords
    <3>1. seen \in Values \cup {"none"}
      BY <2>2 DEF Outcomes, NoVar
    <3>2. outcome[k].ok \in BOOLEAN
      BY <2>2 DEF Outcomes
    <3>3. /\ call[k].method \in {"none", "insert", "updateState", "query",
                                 "resetState"}
          /\ call[k].row \in Rows \cup {"none"}
      BY <2>2 DEF CallRecords
    <3> HIDE DEF seen
    <3> QED BY <3>1, <3>2, <3>3, Zenon DEF ResultRecords
  <2>4. NoCall \in CallRecords
    BY DEF CallRecords, NoCall, Promise!NoCall
  <2>5. /\ call' \in [Programs -> CallRecords]
        /\ result' \in [Programs -> ResultRecords]
        /\ pc' \in [Programs -> 0 .. 8]
        /\ call'[k] = NoCall /\ pc'[k] = 0
    <3> HIDE DEF answer
    <3>1. result' = [result EXCEPT ![k] = answer]
      BY <1>4 DEF answer
    <3> QED BY <1>1, <1>4, <2>2, <2>3, <2>4, <3>1
  <2>6. CallTypeOK'
    BY <1>4, <2>2, <2>5 DEF CallTypeOK
  <2>7. CallFrame(k)
    BY <1>1, <1>4, <2>2 DEF CallFrame
  <2>8. Leaving(k) /\ Fresh(k) /\ ~conn[k].autocommit
    BY <1>1, <1>4 DEF ProgramInv, CallInv, Leaving
  <2>9. /\ conn[k].m_state = 0 => session[k] = "none"
        /\ conn \in [Programs -> Connections] /\ conn[k] \in Connections
        /\ DOMAIN stmt = Programs /\ DOMAIN session = Programs
        /\ DOMAIN alive = Programs
    BY <1>1 DEF ProgramInv, WrapInv, MysqlTypeOK, Handles
  <2>10. \/ /\ conn[k].m_state = 0
            /\ UNCHANGED <<conn, stmt, bound, sent, out, got, session, table>>
         \/ /\ conn[k].m_state = 1 /\ conn[k].m_conn
            /\ conn' = [conn EXCEPT ![k].m_conn = FALSE, ![k].m_state = 0]
            /\ stmt' = [stmt EXCEPT ![k] = Stale(@)]
            /\ session' = [session EXCEPT ![k] = "none"]
            /\ UNCHANGED <<bound, sent, out, got, table>>
    <3>1. ~Dies(k)
      BY <1>4, <2>9 DEF Dies
    <3> QED BY <1>4, <3>1 DEF ConnDisconnect, EndSession, objects
  <2>11. ~conn'[k].autocommit /\ Closed(k)'
    BY <2>8, <2>9, <2>10 DEF Closed, Connections
  <2>12. Fresh(k)'
    BY <2>8, <2>9, <2>10 DEF Fresh, Stale, NoStmt
  <2>13. CallInv(k)'
    BY <2>5, <2>11, <2>12 DEF CallInv, Idle
  <2>14. Kept(k)
    <3>1. call[k] # NoCall
      BY <1>1 DEF Begun, NoCall, Promise!NoCall
    <3>2. outcome[k].ok => /\ call[k].applied /\ call[k].seen # Absent
                           /\ outcome[k].seen = call[k].seen
      BY <1>1, <1>4, <2>8, <2>10 DEF Leaving
    <3>3. ~outcome[k].ok /\ call[k].method # "query" => ~call[k].applied
      BY <1>1, <1>4, <2>8 DEF Leaving
    <3>4. outcome[k].ok \in BOOLEAN
      BY <2>2 DEF Outcomes
    <3>5. CASE outcome[k].ok = TRUE
      <4>1. result' = [result EXCEPT ![k] =
              [method |-> call[k].method, row |-> call[k].row, ok |-> TRUE,
               seen |-> call[k].seen]]
        BY <1>4, <3>2, <3>5
      <4> QED BY <1>4, <2>10, <3>1, <3>2, <3>5, <4>1
              DEF Kept, Promise!End, NoCall, Absent
    <3>6. CASE outcome[k].ok = FALSE
      <4>1. result' = [result EXCEPT ![k] =
              [method |-> call[k].method, row |-> call[k].row, ok |-> FALSE,
               seen |-> "none"]]
        BY <1>4, <3>6 DEF NoVar
      <4> QED BY <1>4, <2>10, <3>1, <3>3, <3>6, <4>1
              DEF Kept, Promise!End, NoCall
    <3> QED BY <3>4, <3>5, <3>6
  <2> QED BY <2>1, <2>6, <2>7, <2>13, <2>14 DEF StepResult
<1>5. Length(k) = Len(Script[call[k].method])
  BY DEF Length
<1>6. pc[k] \in Nat /\ Length(k) \in Nat
  BY <1>1
<1>7. CASE /\ pc[k] - Length(k) = 1 /\ StmtDestroy(k)
           /\ pc' = [pc EXCEPT ![k] = @ + 1]
           /\ UNCHANGED <<call, result, outcome>>
  <2>1. pc[k] = Length(k) + 1
    BY <1>6, <1>7
  <2> QED BY <1>2, <1>7, <2>1
<1>8. CASE /\ pc[k] - Length(k) = 2 /\ ConnDisconnect(k)
           /\ IF alive'[k]
              THEN /\ call' = [call EXCEPT ![k] = NoCall]
                   /\ result' = [result EXCEPT ![k] =
                        [method |-> call[k].method, row |-> call[k].row,
                         ok |-> outcome[k].ok,
                         seen |-> IF outcome[k].ok THEN outcome[k].seen
                                                   ELSE NoVar]]
                   /\ pc' = [pc EXCEPT ![k] = 0]
                   /\ UNCHANGED outcome
              ELSE Forget(k)
  <2>1. pc[k] = Length(k) + 2
    BY <1>6, <1>8
  <2> QED BY <1>3, <1>4, <1>8, <2>1
<1> QED BY <1>5, <1>7, <1>8 DEF Unwind, DestroyConnection

-----------------------------------------------------------------------------
(* The other steps of the programs.                                        *)
LEMMA CallsHaveBegun ==
  ASSUME NEW c \in Promise!Calls
  PROVE  c \in CallRecords /\ Begun(c) /\ ~c.applied
<1>1. \/ \E r \in Rows : c = Promise!Starts("insert", r, "offline")
      \/ \E r \in Rows, v \in Values : c = Promise!Starts("updateState", r, v)
      \/ \E r \in Rows : c = Promise!Starts("query", r, "none")
      \/ c = Promise!Starts("resetState", "none", "none")
  <2>1. CASE c \in {Promise!Starts("insert", r, "offline") : r \in Rows}
    BY <2>1
  <2>2. CASE c \in {Promise!Starts("updateState", r, v) :
                     r \in Rows, v \in {"offline", "online"}}
    BY <2>2 DEF Values
  <2>3. CASE c \in {Promise!Starts("query", r, "none") : r \in Rows}
    BY <2>3
  <2>4. CASE c \in {Promise!Starts("resetState", "none", "none")}
    BY <2>4
  <2> QED BY <2>1, <2>2, <2>3, <2>4 DEF Promise!Calls
<1>2. c \in CallRecords
  BY <1>1 DEF CallRecords, Values, Promise!Starts, Promise!NoCall
<1>3. Begun(c) /\ ~c.applied
  BY <1>1 DEF Begun, Values, Promise!Starts, Promise!NoCall
<1> QED BY <1>2, <1>3

LEMMA BeginKeeps ==
  ASSUME NEW k \in Programs, ProgramInv(k), BeginCall(k)
  PROVE  StepOK(k) /\ StepResult(k)
<1>1. PICK c \in Promise!Calls : call' = [call EXCEPT ![k] = c]
  BY DEF BeginCall
<1>2. /\ alive[k] /\ pc[k] = 0 /\ UNCHANGED mysqlVars
      /\ pc' = [pc EXCEPT ![k] = 1]
      /\ outcome' = [outcome EXCEPT ![k] = Done]
      /\ result' = [result EXCEPT ![k] = NoResult]
  BY DEF BeginCall
<1>3. StepOK(k)
  BY <1>2, StutterOK DEF ProgramInv
<1>4. c \in CallRecords /\ Begun(c) /\ ~c.applied
  BY CallsHaveBegun
<1>5. NoResult \in ResultRecords /\ Done \in Outcomes
  BY DEF NoResult, Promise!NoResult, ResultRecords, Done, Outcomes
<1>6. CallTypeOK' /\ CallFrame(k) /\ call'[k] = c /\ pc'[k] = 1
  <2>1. CallTypeOK
    BY DEF ProgramInv
  <2> HIDE DEF Done, NoResult
  <2> QED BY <1>1, <1>2, <1>4, <1>5, <2>1 DEF CallTypeOK, CallFrame
<1>7. /\ UNCHANGED <<alive, conn, session, stmt, bound, sent, out, got,
                     cursor, txn, table>>
      /\ alive'[k]
  BY <1>2 DEF mysqlVars
<1>8. call[k] = NoCall /\ Closed(k) /\ Fresh(k) /\ ~conn[k].autocommit
  BY <1>2 DEF ProgramInv, CallInv, Idle
<1>9. txn[k] = NoChanges /\ cursor[k] = <<>>
  BY <1>8 DEF Closed, ProgramInv, WrapInv, Handles
<1>10. Begun(call[k])' /\ Length(k)' \in {5, 6}
  <2>1. Begun(call[k])'
    BY <1>4, <1>6 DEF Begun
  <2>2. Length(k)' = Len(Script[c.method])
    BY <1>6 DEF Length
  <2>3. Len(Script[c.method]) \in {5, 6}
    BY <1>4 DEF Begun, Script, Write
  <2> QED BY <2>1, <2>2, <2>3
<1>11. Preparing(k)'
  BY <1>4, <1>6, <1>7, <1>8, <1>9 DEF Preparing, Fresh, Closed, NoStmt
<1>12. Connected(k)' /\ Executed(k)' /\ Leaving(k)' /\ Idle(k)'
  BY <1>6, <1>10 DEF Connected, Executed, Leaving, Idle
<1>13. Pending(k)'
  BY <1>7, <1>9, NoChangesOK DEF Pending
<1>14. CallInv(k)'
  BY <1>6, <1>7, <1>8, <1>10, <1>11, <1>12, <1>13 DEF CallInv
<1>15. Kept(k)
  BY <1>1, <1>2, <1>7, <1>8 DEF Kept, Promise!Begin, NoCall, NoResult
<1> QED BY <1>3, <1>6, <1>14, <1>15 DEF StepResult

LEMMA SessionLostKeeps ==
  ASSUME NEW k \in Programs, ProgramInv(k), SessionLost(k),
         UNCHANGED <<call, result, pc, outcome>>
  PROVE  StepOK(k) /\ StepResult(k)
<1>1. StepOK(k)
  BY SessionLostOK DEF ProgramInv
<1>2. CallTypeOK' /\ CallFrame(k) /\ Kept(k)
  BY DEF ProgramInv, CallTypeOK, CallFrame, Kept, SessionLost
<1>3. /\ session[k] = "up" /\ session'[k] = "lost" /\ txn'[k] = NoChanges
      /\ UNCHANGED <<alive, conn, stmt, bound, sent, out, got, cursor, table>>
  BY DEF SessionLost, objects, ProgramInv, WrapInv, MysqlTypeOK
<1>4. CallInv(k)
  BY DEF ProgramInv
<1>5. Length(k)' = Length(k) /\ SqlOf(call[k])' = SqlOf(call[k])
        /\ Begun(call[k])' = Begun(call[k])
  BY DEF Length, SqlOf, Begun
<1>6. alive[k] => Fresh(k)' = Fresh(k)
  BY <1>3 DEF Fresh
<1>7. pc[k] # 0
  <2>1. alive[k]
    BY <1>3 DEF ProgramInv, WrapInv, Handles
  <2> QED BY <1>3, <1>4, <2>1 DEF CallInv, Idle, Closed
<1>8. Fresh(k)' = Fresh(k)
  BY <1>3 DEF Fresh
<1>9. pc[k] # 1
  <2>1. pc[k] = 1 => 1 \in 1 .. Length(k) - 1
    BY <1>4, <1>7, Lengths DEF CallInv
  <2> QED BY <1>3, <1>4, <1>7, <2>1 DEF CallInv, Preparing, Closed
<1>10. Preparing(k)'
  BY <1>3, <1>4, <1>5, <1>7, <1>8, <1>9 DEF CallInv, Preparing
<1>11. Connected(k)' /\ Idle(k)'
  BY <1>3, <1>4, <1>5, <1>7 DEF CallInv, Connected, Idle
<1>12. Executed(k)'
  BY <1>3, <1>4, <1>5, <1>7 DEF CallInv, Executed, IsQuery
<1>13. Leaving(k)'
  BY <1>3, <1>4, <1>5, <1>7, <1>8 DEF CallInv, Leaving
<1>14. Pending(k)'
  BY <1>3, NoChangesOK DEF Pending
<1>15. CallInv(k)'
  BY <1>3, <1>4, <1>5, <1>7, <1>10, <1>11, <1>12, <1>13, <1>14 DEF CallInv
<1> QED BY <1>1, <1>2, <1>15 DEF StepResult

LEMMA StartAgainKeeps ==
  ASSUME NEW k \in Programs, ProgramInv(k), StartAgain(k),
         UNCHANGED <<call, result, pc, outcome>>
  PROVE  StepOK(k) /\ StepResult(k)
<1>1. StepOK(k)
  BY StartAgainOK DEF ProgramInv
<1>2. CallTypeOK' /\ CallFrame(k) /\ Kept(k)
  BY DEF ProgramInv, CallTypeOK, CallFrame, Kept, StartAgain
<1>3. pc[k] = 0 /\ call[k] = NoCall
  BY DEF ProgramInv, CallInv, Idle, StartAgain
<1>4. session'[k] = "none"
  BY DEF ProgramInv, WrapInv, Handles, StartAgain
<1>5. conn'[k] = NoConn
  BY DEF ProgramInv, WrapInv, MysqlTypeOK, StartAgain
<1>6. Fresh(k)'
  BY DEF ProgramInv, WrapInv, MysqlTypeOK, StartAgain, Fresh
<1>7. Closed(k)' /\ ~conn'[k].autocommit
  BY <1>4, <1>5 DEF Closed, NoConn
<1>8. CallInv(k)'
  BY <1>3, <1>6, <1>7 DEF CallInv, Idle
<1> QED BY <1>1, <1>2, <1>8 DEF StepResult

-----------------------------------------------------------------------------
(* The invariant of the database is inductive.                             *)
LEMMA UserStepKeeps ==
  ASSUME WrapInv, CallTypeOK, \A k \in Programs : CallInv(k), UserNext
  PROVE  /\ WrapInv' /\ CallTypeOK' /\ \A k \in Programs : CallInv(k)'
         /\ \E k \in Programs : Kept(k)
<1>1. PICK k \in Programs :
        \/ BeginCall(k) \/ Step(k) \/ Unwind(k)
        \/ SessionLost(k) /\ UNCHANGED <<call, result, pc, outcome>>
        \/ StartAgain(k) /\ UNCHANGED <<call, result, pc, outcome>>
  BY DEF UserNext
<1>2. ProgramInv(k)
  BY DEF ProgramInv
<1>3. StepOK(k) /\ StepResult(k)
  BY <1>1, <1>2, BeginKeeps, StepKeeps, UnwindKeeps, SessionLostKeeps,
     StartAgainKeeps
<1>4. WrapInv'
  BY <1>3, StepKeepsWrapInv
<1>5. CallTypeOK' /\ CallFrame(k) /\ CallInv(k)' /\ Kept(k)
  BY <1>3 DEF StepResult
<1>6. ASSUME NEW j \in Programs PROVE CallInv(j)'
  <2>1. CASE j = k
    BY <1>5, <2>1
  <2>2. CASE j # k
    <3>1. j \in Programs \ {k} /\ CallInv(j)
      BY <2>2
    <3> QED BY <1>3, <1>5, <3>1, OthersKeepCallInv
  <2> QED BY <2>1, <2>2
<1> QED BY <1>4, <1>5, <1>6

LEMMA DatabaseInvInit == DatabaseInit => DatabaseInv
<1> SUFFICES ASSUME DatabaseInit PROVE DatabaseInv
  OBVIOUS
<1>1. WrapInv
  BY WrapInvInit DEF DatabaseInit, UserInit
<1>2. /\ call = [k \in Programs |-> NoCall]
      /\ result = [k \in Programs |-> NoResult]
      /\ pc = [k \in Programs |-> 0]
      /\ outcome = [k \in Programs |-> Done]
  BY DEF DatabaseInit, UserInit
<1>3. CallTypeOK
  <2>1. NoCall \in CallRecords
    BY DEF CallRecords, NoCall, Promise!NoCall
  <2>2. NoResult \in ResultRecords /\ Done \in Outcomes
    BY DEF NoResult, Promise!NoResult, ResultRecords, Done, Outcomes
  <2> HIDE DEF NoCall, NoResult, Done
  <2> QED BY <1>2, <2>1, <2>2 DEF CallTypeOK
<1>4. ASSUME NEW k \in Programs PROVE CallInv(k)
  <2>1. pc[k] = 0 /\ call[k] = NoCall
    BY <1>2
  <2>2. Closed(k) /\ Fresh(k) /\ ~conn[k].autocommit
    BY DEF DatabaseInit, UserInit, MysqlInit, Closed, Fresh, NoConn
  <2> QED BY <2>1, <2>2 DEF CallInv, Idle
<1> QED BY <1>1, <1>2, <1>3, <1>4 DEF DatabaseInv, DatabaseInit

LEMMA DatabaseInvStep ==
  DatabaseInv /\ [DatabaseNext]_databaseVars => DatabaseInv'
<1> SUFFICES ASSUME DatabaseInv, [DatabaseNext]_databaseVars
             PROVE  DatabaseInv'
  OBVIOUS
<1>1. CASE layer = "models" /\ UserNext /\ UNCHANGED layer
  BY <1>1, UserStepKeeps DEF DatabaseInv
<1>2. CASE layer = "wrapper" /\ AnyOrder /\ UNCHANGED layer
  <2>1. /\ MethodCall(First) \/ SessionLost(First) \/ StartAgain(First)
        /\ UNCHANGED <<call, result, pc, outcome>>
    BY <1>2 DEF AnyOrder
  <2>2. WrapInv'
    BY <2>1, FirstAssumption, MethodCallOK, StepKeepsWrapInv DEF DatabaseInv
  <2> QED BY <1>2, <2>1, <2>2 DEF DatabaseInv, CallTypeOK
<1>3. CASE UNCHANGED databaseVars
  <2>1. UNCHANGED <<layer, mysqlVars, call, result, pc, outcome>>
    BY <1>3 DEF databaseVars, callVars
  <2>2. WrapInv'
    BY <2>1, FirstAssumption, StutterOK, StepKeepsWrapInv DEF DatabaseInv
  <2>3. ASSUME NEW k \in Programs, CallInv(k) PROVE CallInv(k)'
    <3>1. UNCHANGED <<alive, conn, session, stmt, bound, sent, out, got,
                      cursor, txn, table, call, result, pc, outcome>>
      BY <2>1 DEF mysqlVars
    <3>2. Length(k)' = Length(k) /\ SqlOf(call[k])' = SqlOf(call[k])
            /\ Begun(call[k])' = Begun(call[k])
      BY <3>1 DEF Length, SqlOf, Begun
    <3>3. Fresh(k)' = Fresh(k) /\ Closed(k)' = Closed(k)
      BY <3>1 DEF Fresh, Closed
    <3>4. Idle(k)' = Idle(k) /\ Preparing(k)' = Preparing(k)
            /\ Connected(k)' = Connected(k)
      BY <3>1, <3>2, <3>3 DEF Idle, Preparing, Connected
    <3>5. Pending(k)' = Pending(k) /\ Executed(k)' = Executed(k)
            /\ Leaving(k)' = Leaving(k)
      BY <3>1, <3>2, <3>3 DEF Pending, Executed, Leaving, IsQuery
    <3> QED BY <2>3, <3>1, <3>2, <3>4, <3>5 DEF CallInv
  <2>4. CallTypeOK'
    BY <2>1 DEF DatabaseInv, CallTypeOK
  <2> QED BY <2>1, <2>2, <2>3, <2>4 DEF DatabaseInv
<1> QED BY <1>1, <1>2, <1>3 DEF DatabaseNext

(* The invariant that the proofs about the database rest on: what each     *)
(* method of the models has done between two calls on the wrapper, and     *)
(* what is in the transaction of its session.                              *)
THEOREM DatabaseInvariant == DatabaseSpec => []DatabaseInv
BY DatabaseInvInit, DatabaseInvStep, PTL DEF DatabaseSpec

-----------------------------------------------------------------------------
(* WrapperIsSound: in whatever order a program calls the methods of        *)
(* connection and sqlstatement, and wherever the session is lost, no       *)
(* statement keeps a handle on a MYSQL object that was closed under it,    *)
(* and rpc with the rows still to come makes up the result set.            *)
THEOREM WrapperSound == DatabaseSpec => []WrapperIsSound
<1>1. DatabaseInv => WrapperIsSound
  <2> SUFFICES ASSUME DatabaseInv PROVE WrapperIsSound
    OBVIOUS
  <2>1. ASSUME NEW k \in Programs PROVE call[k] = NoCall <=> pc[k] = 0
    <3>1. CASE layer = "models"
      <4>1. CallInv(k)
        BY <3>1 DEF DatabaseInv
      <4> QED BY <4>1 DEF CallInv, Idle, Begun, NoCall, Promise!NoCall
    <3>2. CASE layer = "wrapper"
      BY <3>2 DEF DatabaseInv
    <3> QED BY <3>1, <3>2 DEF DatabaseInv
  <2>2. DatabaseTypeOK
    BY <2>1 DEF DatabaseTypeOK, DatabaseInv, WrapInv, CallTypeOK
  <2>3. StatementHasHandle
    BY DEF StatementHasHandle, DatabaseInv, WrapInv, Handles
  <2>4. RpcCountsRows
    BY DEF RpcCountsRows, DatabaseInv, WrapInv, Counted
  <2> QED BY <2>2, <2>3, <2>4 DEF WrapperIsSound
<1> QED BY <1>1, DatabaseInvariant, PTL

(* The safety half of MethodsEnd: whichever way a method of the models has *)
(* ended, its session, its transaction and its statement are gone.         *)
THEOREM MethodsLeaveNothing ==
  DatabaseSpec => [](layer = "models" => NothingLeftOpen)
<1>1. DatabaseInv => (layer = "models" => NothingLeftOpen)
  <2> SUFFICES ASSUME DatabaseInv, layer = "models",
                      NEW k \in Programs, alive[k], pc[k] = 0
               PROVE  /\ session[k] = "none" /\ txn[k] = NoChanges
                      /\ conn[k].m_state = 0 /\ stmt[k].m_state = 0
    BY DEF NothingLeftOpen
  <2>1. CallInv(k) /\ Handles(k)
    BY DEF DatabaseInv, WrapInv
  <2>2. Closed(k) /\ Fresh(k)
    BY <2>1 DEF CallInv, Idle
  <2> QED BY <2>1, <2>2 DEF Closed, Fresh, NoStmt, Handles
<1> QED BY <1>1, DatabaseInvariant, PTL

(* A step of a program is one of UserTable, seen through the layer.        *)
LEMMA KeptIsTableStep ==
  ASSUME layer = "models", UNCHANGED layer, NEW k \in Programs, Kept(k)
  PROVE  [Models!TableNext]_(Models!tableVars)
<1>1. CASE Promise!Begin(k)
  <2>1. Models!NoCall = Promise!NoCall /\ Models!NoResult = Promise!NoResult
    BY DEF Promise!NoCall, Models!NoCall, Promise!NoResult, Models!NoResult
  <2>2. Models!Calls = Promise!Calls
    BY <2>1 DEF Promise!Calls, Models!Calls, Promise!Starts, Models!Starts
  <2>3. Models!Begin(k)
    BY <1>1, <2>1, <2>2 DEF Promise!Begin, Models!Begin
  <2> QED BY <2>3 DEF Models!TableNext
<1>2. CASE Promise!Apply(k)
  <2>1. Models!Effect(call[k])
    BY <1>2 DEF Promise!Apply, Promise!Effect, Models!Effect
  <2>2. Models!Apply(k)
    BY <1>2, <2>1 DEF Promise!Apply, Models!Apply, Promise!NoCall,
                      Models!NoCall
  <2> QED BY <2>2 DEF Models!TableNext
<1>3. CASE Promise!End(k)
  <2>1. Models!End(k)
    BY <1>3 DEF Promise!End, Models!End, Promise!NoCall, Models!NoCall
  <2> QED BY <2>1 DEF Models!TableNext
<1>4. CASE Promise!Die(k)
  <2>1. Models!Die(k)
    BY <1>4 DEF Promise!Die, Models!Die, Promise!NoCall, Models!NoCall,
                Promise!NoResult, Models!NoResult
  <2> QED BY <2>1 DEF Models!TableNext
<1>5. CASE UNCHANGED <<table, call, result>>
  BY <1>5 DEF Models!tableVars
<1> QED BY <1>1, <1>2, <1>3, <1>4, <1>5 DEF Kept

(* ModelsKeepPromise, the refinement of UserTable: what a method returns   *)
(* as done is committed, once, what it returns as failed is not, and a     *)
(* query returns what was in the table at one moment of the call, although *)
(* the result of no commit is looked at (userModel.h:41, :106).            *)
THEOREM ModelsRefineUserTable == DatabaseSpec => ModelsKeepPromise
<1>1. DatabaseInit => Models!TableInit
  <2> SUFFICES ASSUME DatabaseInit PROVE Models!TableInit
    OBVIOUS
  <2>1. /\ table \in [Rows -> Values \cup {Absent}]
        /\ call = [k \in Programs |-> NoCall]
        /\ result = [k \in Programs |-> NoResult]
    BY DEF DatabaseInit, UserInit, MysqlInit
  <2> QED BY <2>1 DEF Models!TableInit, Values, Absent, NoCall, NoResult,
             Promise!NoCall, Promise!NoResult, Models!NoCall, Models!NoResult
<1>2. DatabaseInv /\ [DatabaseNext]_databaseVars
        => [Models!TableNext]_(Models!tableVars)
  <2> SUFFICES ASSUME DatabaseInv, [DatabaseNext]_databaseVars
               PROVE  [Models!TableNext]_(Models!tableVars)
    OBVIOUS
  <2>1. CASE layer = "models" /\ UserNext /\ UNCHANGED layer
    BY <2>1, UserStepKeeps, KeptIsTableStep DEF DatabaseInv
  <2>2. CASE layer = "wrapper" /\ AnyOrder /\ UNCHANGED layer
    BY <2>2 DEF AnyOrder, Models!tableVars
  <2>3. CASE UNCHANGED databaseVars
    BY <2>3 DEF databaseVars, callVars, mysqlVars, Models!tableVars
  <2> QED BY <2>1, <2>2, <2>3 DEF DatabaseNext
<1> QED
  BY <1>1, <1>2, DatabaseInvariant, PTL
  DEF DatabaseSpec, ModelsKeepPromise, Models!TableSpec
=============================================================================
