------------------------------ MODULE UserTable ------------------------------
(***************************************************************************)
(* What UserModel and FriendModel promise of their methods: a call takes   *)
(* effect at one moment between its start and its end, or not at all, and  *)
(* what it returns says which.  A program may die during a call, and then  *)
(* the call has taken effect or not.                                       *)
(***************************************************************************)
CONSTANTS Programs, Rows

VARIABLES table,  (* the committed rows: "absent", "offline" or "online"   *)
          call,   (* the call of each program                              *)
          result  (* what the last call of each program returned           *)

tableVars == <<table, call, result>>

NoCall == [method |-> "none", row |-> "none", value |-> "none",
           applied |-> FALSE, seen |-> "none"]

NoResult == [method |-> "none", row |-> "none", ok |-> FALSE, seen |-> "none"]

(* A new user is offline.                                                  *)
Starts(method, row, value) == [NoCall EXCEPT !.method = method, !.row = row,
                                             !.value = value]

Calls ==
  {Starts("insert", r, "offline") : r \in Rows}
    \cup {Starts("updateState", r, v) : r \in Rows, v \in {"offline", "online"}}
    \cup {Starts("query", r, "none") : r \in Rows}
    \cup {Starts("resetState", "none", "none")}

TableInit ==
  /\ table \in [Rows -> {"absent", "offline", "online"}]
  /\ call = [k \in Programs |-> NoCall]
  /\ result = [k \in Programs |-> NoResult]

Begin(k) ==
  /\ call[k] = NoCall
  /\ \E c \in Calls : call' = [call EXCEPT ![k] = c]
  /\ result' = [result EXCEPT ![k] = NoResult]
  /\ UNCHANGED table

(* The effect of a call on the table; a reset may miss rows that other     *)
(* calls are changing.                                                     *)
Effect(c) ==
  CASE c.method = "insert" ->
         /\ table[c.row] = "absent"
         /\ table' = [table EXCEPT ![c.row] = c.value]
    [] c.method = "updateState" ->
         table' = IF table[c.row] = "absent" THEN table
                                ELSE [table EXCEPT ![c.row] = c.value]
    [] c.method = "resetState" ->
         \E S \in SUBSET {r \in Rows : table[r] = "online"} :
           table' = [r \in Rows |-> IF r \in S THEN "offline" ELSE table[r]]
    [] c.method = "query" -> table' = table

Apply(k) ==
  /\ call[k] # NoCall
  /\ ~call[k].applied
  /\ Effect(call[k])
  /\ call' = [call EXCEPT ![k].applied = TRUE,
                ![k].seen = IF call[k].method = "query"
                            THEN table[call[k].row] ELSE "none"]
  /\ UNCHANGED result

(* Success means the effect; failure means none, but a query may fail      *)
(* after it has looked.                                                    *)
End(k) ==
  /\ call[k] # NoCall
  /\ \E ok \in BOOLEAN :
       /\ ok => call[k].applied /\ call[k].seen # "absent"
       /\ ~ok /\ call[k].method # "query" => ~call[k].applied
       /\ result' = [result EXCEPT ![k] =
            [method |-> call[k].method, row |-> call[k].row, ok |-> ok,
             seen |-> IF ok THEN call[k].seen ELSE "none"]]
  /\ call' = [call EXCEPT ![k] = NoCall]
  /\ UNCHANGED table

(* The program dies, in or outside of a call, perhaps as the call takes    *)
(* effect.                                                                 *)
Die(k) ==
  /\ call' = [call EXCEPT ![k] = NoCall]
  /\ result' = [result EXCEPT ![k] = NoResult]
  /\ UNCHANGED table

TableNext == \E k \in Programs : Begin(k) \/ Apply(k) \/ End(k) \/ Die(k)

TableSpec == TableInit /\ [][TableNext]_tableVars
=============================================================================
