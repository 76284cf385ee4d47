--------------------------- MODULE OrderedService ---------------------------
(***************************************************************************)
(* What the logic system promises to the sessions: the messages they post  *)
(* are taken one by one in the order in which they were posted, each of    *)
(* them once; a message whose id has a callback is given to the callback,  *)
(* any other is skipped.  A callback that throws ends the process.         *)
(***************************************************************************)
EXTENDS Integers, Sequences

CONSTANTS Producers, Kinds, Registered

VARIABLES posted, (* every message posted so far                           *)
          passed, (* how many of them are dealt with                       *)
          called, (* the messages given to a callback                      *)
          down    (* the process has been terminated                       *)

vars == <<posted, passed, called, down>>

Init == posted = <<>> /\ passed = 0 /\ called = <<>> /\ down = FALSE

Post == /\ ~down
        /\ \E p \in Producers, k \in Kinds :
             posted' = Append(posted, [from |-> p, kind |-> k])
        /\ UNCHANGED <<passed, called, down>>

Call == /\ ~down
        /\ passed < Len(posted)
        /\ posted[passed + 1].kind \in Registered
        /\ passed' = passed + 1
        /\ called' = Append(called, posted[passed + 1])
        /\ UNCHANGED <<posted, down>>

Skip == /\ ~down
        /\ passed < Len(posted)
        /\ posted[passed + 1].kind \notin Registered
        /\ passed' = passed + 1
        /\ UNCHANGED <<posted, called, down>>

Die == /\ ~down
       /\ down' = TRUE
       /\ UNCHANGED <<posted, passed, called>>

Next == Post \/ Call \/ Skip \/ Die

Spec == Init /\ [][Next]_vars

(* Every message posted is dealt with unless the process dies.             *)
LiveSpec == Spec /\ WF_vars(Call \/ Skip)
=============================================================================
