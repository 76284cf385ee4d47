----------------------------- MODULE MCDatabase -----------------------------
(***************************************************************************)
(* The database wrapper, for TLC: a behaviour is one of the methods of     *)
(* UserModel and FriendModel in two programs at once, or one of a single   *)
(* program that calls the methods of the wrapper in any order.             *)
(***************************************************************************)
EXTENDS UserCalls

CONSTANT First   (* the program that calls the wrapper itself              *)

ASSUME FirstAssumption == First \in Programs

VARIABLE layer   (* which of the two this behaviour is about               *)

databaseVars == <<layer, callVars>>

DatabaseInit == layer \in {"models", "wrapper"} /\ UserInit

AnyOrder ==
  /\ MethodCall(First) \/ SessionLost(First) \/ StartAgain(First)
  /\ UNCHANGED <<call, result, pc, outcome>>

DatabaseNext ==
  \/ layer = "models" /\ UserNext /\ UNCHANGED layer
  \/ layer = "wrapper" /\ AnyOrder /\ UNCHANGED layer

DatabaseSpec ==
  /\ DatabaseInit /\ [][DatabaseNext]_databaseVars
  /\ \A k \in Programs : WF_databaseVars(layer = "models" /\ Goes(k) /\ UNCHANGED layer)

(* The ranges of the variables of the wrapper and of its callers.          *)
DatabaseTypeOK ==
  /\ MysqlTypeOK
  /\ pc \in [Programs -> 0 .. 8]
  /\ \A k \in Programs : call[k] = NoCall <=> pc[k] = 0

Models == INSTANCE UserTable WITH
            table <- IF layer = "models" THEN table
                                         ELSE [r \in Rows |-> "absent"]

(* Whatever the order of the calls, no statement holds a handle on a MYSQL *)
(* object that was closed under it, and rpc counts the rows fetched.       *)
WrapperIsSound == DatabaseTypeOK /\ StatementHasHandle /\ RpcCountsRows

(* KeepsPromise of UserCalls, for the behaviours of the models: what is    *)
(* returned as done is committed, what is returned as failed is not.       *)
ModelsKeepPromise == Models!TableSpec

(* A call of the models ends, or its program does, and whichever way it    *)
(* ends no session, transaction or statement of it stays behind.           *)
MethodsEnd == [](layer = "models" => NothingLeftOpen) /\ CallsEnd
=============================================================================
