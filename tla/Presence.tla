------------------------------ MODULE Presence ------------------------------
(***************************************************************************)
(* Who is online: the User and Friend tables of the database, written by   *)
(* the callbacks of LogicSystem through UserModel and FriendModel, beside  *)
(* the sessions of the server, which come and go on their own.             *)
(*                                                                         *)
(* The worker runs one callback at a time.  A callback is two steps: what  *)
(* it does to the database, and the reply; the server may die in between,  *)
(* and the tables survive it.  A request may be dealt with long after its  *)
(* session has disconnected.                                               *)
(***************************************************************************)
EXTENDS Integers, FiniteSets

CONSTANTS Users,    (* rows the User table may get                         *)
          Sessions  (* uuids: each is used for one connection              *)

None == "none"  (* the empty string of the code *)

ASSUME NoneAssumption == None \notin Users \cup Sessions

VARIABLES
  up,        (* the server process runs                                    *)
  connected, (* the sessions in the map of the server                      *)
  used,      (* sessions of this server process, disconnected ones as well *)
  spent,     (* uuids that have been used                                  *)
  exists,    (* users that have a row                                      *)
  state,     (* User.state                                                 *)
  uuid,      (* User.uuid                                                  *)
  friend,    (* the rows of Friend                                         *)
  reply,     (* the reply the callback has to send; with is the friend of  *)
             (* an addfriend, the session a onechat was forwarded to       *)
  told,      (* sessions told of their login, and not logged out           *)
  misled     (* users whose login was acknowledged though the update had   *)
             (* failed, and who have not logged out                        *)

server == <<up, connected, used, spent>>
tables == <<exists, state, uuid, friend>>
logins == <<told, misled>>
vars == <<up, connected, used, spent, exists, state, uuid, friend, reply, told, misled>>

Ops == {"register", "login", "addfriend", "onechat"}

NoReply == [to |-> None, op |-> None, user |-> None, with |-> None, ok |-> FALSE]

Init ==
  /\ up = TRUE
  /\ connected = {} /\ used = {} /\ spent = {}
  /\ exists = {}
  /\ state = [u \in Users |-> "offline"]
  /\ uuid = [u \in Users |-> None]
  /\ friend = {}
  /\ reply = NoReply
  /\ told = [u \in Users |-> {}]
  /\ misled = {}

-----------------------------------------------------------------------------
(* The server and its sessions.                                            *)

Connect ==
  /\ up
  /\ \E s \in Sessions \ spent :
       /\ connected' = connected \cup {s}
       /\ used' = used \cup {s}
       /\ spent' = spent \cup {s}
  /\ UNCHANGED <<up, tables, reply, logins>>

(* ClearSession, after an error: the user's row is left as it is (todo).   *)
Disconnect ==
  /\ up
  /\ \E s \in connected : connected' = connected \ {s}
  /\ UNCHANGED <<up, used, spent, tables, reply, logins>>

(* Whatever the process knew is gone.                                      *)
Gone ==
  /\ up' = FALSE
  /\ connected' = {} /\ used' = {}
  /\ reply' = NoReply
  /\ told' = [u \in Users |-> {}]
  /\ misled' = {}
  /\ UNCHANGED spent

Crash ==
  /\ up
  /\ Gone
  /\ UNCHANGED tables

(* A new process: nothing resets the state of the users.                   *)
Restart ==
  /\ ~up
  /\ up' = TRUE
  /\ UNCHANGED <<connected, used, spent, tables, reply, logins>>

-----------------------------------------------------------------------------
(* The callbacks, one at a time, each for a session of this process.       *)

Serving(s) == up /\ reply = NoReply /\ s \in used

WillReply(s, op, u, w, ok) ==
  reply' = [to |-> s, op |-> op, user |-> u, with |-> w, ok |-> ok]

(* UserModel::insert: the name of the user is unique.                      *)
InsertUser(u) == u \notin exists /\ exists' = exists \cup {u}

(* The row is put and committed, or the database refuses it, or the commit *)
(* fails: then the connection is closed but still marked open, so that its *)
(* destructor rolls back on a null pointer and the process dies, and the   *)
(* row is there or not.                                                    *)
Register(s) ==
  /\ Serving(s)
  /\ \E u \in Users :
       \/ /\ InsertUser(u)
          /\ WillReply(s, "register", u, None, TRUE)
          /\ UNCHANGED <<server, logins>>
       \/ /\ WillReply(s, "register", u, None, FALSE)
          /\ UNCHANGED <<server, logins, exists>>
       \/ (InsertUser(u) \/ UNCHANGED exists) /\ Gone
  /\ UNCHANGED <<state, uuid, friend>>

RowFirstUuid(u, st, id) ==
  /\ state' = [state EXCEPT ![u] = st]
  /\ uuid' = [uuid EXCEPT ![u] = IF @ = None THEN id ELSE @]

(* UPDATE User SET state, uuid WHERE id.                                   *)
Row(u, st, id) ==
  /\ state' = [state EXCEPT ![u] = st]
  /\ uuid' = [uuid EXCEPT ![u] = id]

SameRow == UNCHANGED <<state, uuid>>

UpdateLost(u, st, id) == Row(u, st, id) \/ SameRow

(* updateState(user) executes and commits.                                 *)
UpdateState(u, st, id) == Row(u, st, id)

(* It cannot connect or not execute, and returns false, which both callers *)
(* ignore.                                                                 *)
UpdateFails == SameRow

(* The failed commit, again: the database may have committed or not.       *)
UpdateDies(u, st, id) == (Row(u, st, id) \/ SameRow) /\ Gone

(* query(id) finds the row: otherwise the id of its result is -1.          *)
Found(u) == u \in exists

AnyState(u) == Found(u)

(* Nobody is online as this user.                                          *)
MayLogin(u) == Found(u) /\ state[u] # "online"

(* Name and password match too.                                            *)
LoginAccepted(s) ==
  /\ Serving(s)
  /\ \E u \in Users :
       /\ MayLogin(u)
       /\ \/ /\ UpdateState(u, "online", s)
             /\ WillReply(s, "login", u, None, TRUE)
             /\ UNCHANGED <<server, logins>>
          \/ /\ UpdateFails
             /\ WillReply(s, "login", u, None, TRUE)
             /\ misled' = misled \cup {u}
             /\ UNCHANGED <<server, told>>
          \/ UpdateDies(u, "online", s)
  /\ UNCHANGED <<exists, friend>>

(* The query fails, or something does not match.                           *)
LoginRefused(s) ==
  /\ Serving(s)
  /\ \E u \in Users : WillReply(s, "login", u, None, FALSE)
  /\ UNCHANGED <<server, tables, logins>>

(* Any session may log out any id.  No reply.                              *)
Logout(s) ==
  /\ Serving(s)
  /\ \E u \in exists :
       \/ /\ UpdateState(u, "offline", None)
          /\ told' = [told EXCEPT ![u] = {}]
          /\ misled' = misled \ {u}
          /\ UNCHANGED <<server, reply>>
       \/ /\ UpdateFails
          /\ UNCHANGED <<server, reply, logins>>
       \/ UpdateDies(u, "offline", None)
  /\ UNCHANGED <<exists, friend>>

(* FriendModel::insert: the foreign keys and the primary key decide.       *)
InsertFriend(u, v) ==
  /\ u \in exists /\ v \in exists /\ <<u, v>> \notin friend
  /\ friend' = friend \cup {<<u, v>>}

(* Nobody asks v; the commit is as in Register.                            *)
AddFriend(s) ==
  /\ Serving(s)
  /\ \E u, v \in Users :
       \/ /\ InsertFriend(u, v)
          /\ WillReply(s, "addfriend", u, v, TRUE)
          /\ UNCHANGED <<server, logins>>
       \/ /\ WillReply(s, "addfriend", u, v, FALSE)
          /\ UNCHANGED <<server, logins, friend>>
       \/ (InsertFriend(u, v) \/ UNCHANGED friend) /\ Gone
  /\ UNCHANGED <<exists, state, uuid>>

Online(u) == u \in exists /\ state[u] = "online"

(* The chat counts as sent even when the session is not in the map.        *)
OneChatSent(s) ==
  /\ Serving(s)
  /\ \E u \in Users :
       /\ Online(u)
       /\ WillReply(s, "onechat", u,
                    IF uuid[u] \in connected THEN uuid[u] ELSE None, TRUE)
  /\ UNCHANGED <<server, tables, logins>>

(* The user is offline, or the query fails.                                *)
OneChatFailed(s) ==
  /\ Serving(s)
  /\ \E u \in Users : WillReply(s, "onechat", u, None, FALSE)
  /\ UNCHANGED <<server, tables, logins>>

(* The end of the callback.                                                *)
SendReply ==
  /\ up
  /\ reply # NoReply
  /\ told' = IF reply.op = "login" /\ reply.ok
               THEN [told EXCEPT ![reply.user] = @ \cup {reply.to}] ELSE told
  /\ reply' = NoReply
  /\ UNCHANGED <<server, tables, misled>>

Callback(s) == \/ Register(s) \/ LoginAccepted(s) \/ LoginRefused(s)
               \/ Logout(s) \/ AddFriend(s) \/ OneChatSent(s) \/ OneChatFailed(s)

Next == \/ Connect \/ Disconnect \/ Crash \/ Restart
        \/ \E s \in Sessions : Callback(s)
        \/ SendReply

Spec == Init /\ [][Next]_vars

-----------------------------------------------------------------------------
(* Types; a user without a row has the defaults of the table, and sessions *)
(* belong to the process that runs.                                        *)
TypeOK ==
  /\ up \in BOOLEAN
  /\ connected \subseteq used /\ used \subseteq spent /\ spent \subseteq Sessions
  /\ exists \subseteq Users
  /\ state \in [Users -> {"online", "offline"}]
  /\ uuid \in [Users -> spent \cup {None}]
  /\ \A u \in Users \ exists : state[u] = "offline" /\ uuid[u] = None
  /\ friend \subseteq exists \X exists
  /\ reply \in {NoReply} \cup
       [to : used, op : Ops, user : Users,
        with : Users \cup Sessions \cup {None}, ok : BOOLEAN]
  /\ told \in [Users -> SUBSET used]
  /\ misled \subseteq exists

(* The sessions that hold a login of u: told so, or about to be.           *)
LoggedIn(u) ==
  told[u] \cup (IF reply.op = "login" /\ reply.ok /\ reply.user = u
                  THEN {reply.to} ELSE {})

(* A user is never logged in twice: the sessions that were told "login     *)
(* success" and have not logged out are at most the one in the user's row, *)
(* across disconnections, logouts by others, crashes and restarts of the   *)
(* server; except for a user whose login was acknowledged after a failed   *)
(* update.                                                                 *)
NoDoubleLogin ==
  \A u \in Users \ misled :
    LoggedIn(u) \subseteq (IF state[u] = "online" THEN {uuid[u]} ELSE {})

(* A success code of login: the user is online, with this session's uuid.  *)
(* (Violated: the result of updateState is ignored.)                       *)
LoginSuccessIsOnline ==
  reply.op = "login" /\ reply.ok =>
    state[reply.user] = "online" /\ uuid[reply.user] = reply.to

(* What a success code says has happened has happened in the database when *)
(* it is sent, and is still so: the registration, the friendship, and the  *)
(* login, except where its update had failed.                              *)
AckIsStored ==
  /\ reply.user \notin misled => LoginSuccessIsOnline
  /\ reply.op = "register" /\ reply.ok => reply.user \in exists
  /\ reply.op = "addfriend" /\ reply.ok => <<reply.user, reply.with>> \in friend

(* A chat for a user goes to no session but one that logged in as this     *)
(* user in this process and has not logged out, whatever updates failed    *)
(* and whatever an earlier process left in the table.                      *)
ForwardedToOwner ==
  reply.op = "onechat" /\ reply.with # None => reply.with \in told[reply.user]
=============================================================================
