------------------------------ MODULE FileList ------------------------------
(***************************************************************************)
(* The list of files of CDir (src/public/_public.cpp): OpenDir fills it,   *)
(* ReadDir returns its files one after the other.  What OpenDir finds in a *)
(* tree of directories is in Directories.                                  *)
(***************************************************************************)
EXTENDS Integers, Sequences, SequencesExt

VARIABLES
  list,      \* m_vFileName
  position,  \* m_pos
  listed,    \* what the last OpenDir collected
  seen       \* the files that ReadDir returned since

listVars == <<list, position, listed, seen>>

ListInit == list = <<>> /\ position = 0 /\ listed = <<>> /\ seen = <<>>

\* OpenDir, when _OpenDir found these files: the list is cleared before it.
Fills(found) ==
  /\ list' = found /\ position' = 0
  /\ listed' = list' /\ seen' = <<>>

\* A mutated form: m_pos is moved on before it is used.
NextFileSkips ==
  /\ IF position + 1 >= Len(list)
     THEN list' = <<>> /\ position' = 0 /\ seen' = seen
     ELSE /\ seen' = Append(seen, list[position + 2])
          /\ position' = position + 1
          /\ list' = list
  /\ UNCHANGED listed

\* ReadDir: the next file, with sizes and times out of a stat that may fail and
\* leaves them undefined; at the end the list is emptied.
NextFile ==
  /\ IF position >= Len(list)
     THEN list' = <<>> /\ position' = 0 /\ seen' = seen
     ELSE /\ seen' = Append(seen, list[position + 1])
          /\ position' = position + 1
          /\ list' = list
  /\ UNCHANGED listed

\* Names of files are numbers, in the order that the sort of OpenDir goes by.
ListNext == NextFile \/ \E found \in Seq(Int) : Fills(found)

ListSpec == ListInit /\ [][ListNext]_listVars

-----------------------------------------------------------------------------
(* Properties *)

DirectoriesTypeOK == position \in 0 .. Len(list)

\* ReadDir goes once through what OpenDir collected, in its order, whatever is
\* removed meanwhile, and reports the end only behind the last file.
ReadsWholeList ==
  /\ IsPrefix(seen, listed)
  /\ list = <<>> => seen = listed
=============================================================================
