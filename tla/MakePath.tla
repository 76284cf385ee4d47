------------------------------ MODULE MakePath ------------------------------
(***************************************************************************)
(* MKDIR of src/public/_public.cpp: several programs make the directories  *)
(* of one path at the same time, level by level, from 1 to Depth.          *)
(***************************************************************************)
EXTENDS Integers

CONSTANTS Makers,        \* the programs that call MKDIR for the path
          Depth,         \* its levels
          MaxRefusals    \* bound: calls of mkdir that fail for want of permission

ASSUME MakersAssumption ==
  Makers # {} /\ Depth \in Nat \ {0} /\ MaxRefusals \in Nat

VARIABLES
  level,     \* the level that each maker is at
  doing,     \* what a maker does next, or what MKDIR returned
  levels,    \* the levels of the path that exist
  refusals

mvars == <<level, doing, levels, refusals>>

MakeInit ==
  /\ level = [p \in Makers |-> 1] /\ doing = [p \in Makers |-> "access"]
  /\ levels = {} /\ refusals = 0

\* On to the next level, or MKDIR is true.
Deeper(p) ==
  /\ level' = [level EXCEPT ![p] = IF level[p] = Depth THEN Depth ELSE level[p] + 1]
  /\ doing' = [doing EXCEPT ![p] = IF level[p] = Depth THEN "true" ELSE "access"]

Access(p) ==
  /\ doing[p] = "access"
  /\ IF level[p] \in levels
     THEN Deeper(p)
     ELSE doing' = [doing EXCEPT ![p] = "mkdir"] /\ level' = level
  /\ UNCHANGED <<levels, refusals>>

\* A mutated form: what mkdir returns is not looked at.
MkdirUnseen(p) ==
  /\ doing[p] = "mkdir"
  /\ \/ /\ level[p] \notin levels
        /\ levels' = levels \cup {level[p]}
        /\ refusals' = refusals
     \/ /\ \/ level[p] \in levels /\ refusals' = refusals
           \/ refusals < MaxRefusals /\ refusals' = refusals + 1
        /\ levels' = levels
  /\ Deeper(p)

\* mkdir of a level that another maker made in between fails with EEXIST, and
\* MKDIR takes that for a failure.
Mkdir(p) ==
  /\ doing[p] = "mkdir"
  /\ \/ /\ level[p] \notin levels
        /\ levels' = levels \cup {level[p]}
        /\ Deeper(p)
        /\ refusals' = refusals
     \/ /\ \/ level[p] \in levels /\ refusals' = refusals
           \/ refusals < MaxRefusals /\ refusals' = refusals + 1
        /\ doing' = [doing EXCEPT ![p] = "false"]
        /\ UNCHANGED <<level, levels>>

MakeNext == \E p \in Makers : Access(p) \/ Mkdir(p)

MakeSpec == MakeInit /\ [][MakeNext]_mvars

-----------------------------------------------------------------------------
(* Properties *)

MakeTypeOK ==
  /\ level \in [Makers -> 1 .. Depth] /\ levels \subseteq 1 .. Depth
  /\ doing \in [Makers -> {"access", "mkdir", "true", "false"}]
  /\ refusals \in 0 .. MaxRefusals

\* MKDIR that returns true leaves all levels in place, and of several programs
\* that make one path at the same time one at least is told so.  (The others
\* may be told false although the path is there: mkdir after access.)
OneMakerSucceeds ==
  /\ MakeTypeOK
  /\ \A p \in Makers : doing[p] = "true" => levels = 1 .. Depth
  /\ refusals = 0 /\ (\A p \in Makers : doing[p] \in {"true", "false"})
       => \E p \in Makers : doing[p] = "true"
=============================================================================
