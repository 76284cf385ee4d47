----------------------------- MODULE Directories -----------------------------
(***************************************************************************)
(* CDir of src/public/_public.cpp (OpenDir, _OpenDir, ReadDir) while       *)
(* another program removes files.                                          *)
(*                                                                         *)
(* A directory to read is a sequence of entries in the order of readdir(); *)
(* an entry is a file or a directory of its own.                           *)
(***************************************************************************)
EXTENDS FileList

CONSTANTS Trees,         \* the directories that are read
          Counts         \* the values of in_MaxCount

VARIABLES
  opened,    \* the arguments of the last OpenDir
  removed    \* the files that another program removed

dvars == <<opened, list, position, removed, listed, seen>>

Never == [tree |-> <<>>, count |-> 0, child |-> FALSE]

DirectoriesInit == ListInit /\ opened = Never /\ removed = {}

-----------------------------------------------------------------------------
(* CDir *)

\* An entry: a directory, or one that may not be read, or a file that MatchStr
\* accepts or not.
Entry(name, kind, sub) == [name |-> name, kind |-> kind, sub |-> sub]

\* What stat says of an entry: of one that was lost since readdir() returned it
\* nothing, and the record keeps what it held.
Stat(entry, lost, kept) ==
  IF entry.name \in lost THEN kept
  ELSE IF entry.kind \in {"dir", "denied"} THEN "dir" ELSE "file"

\* _OpenDir: the list grows until it has count names; the loop of a directory
\* above then goes on, and stops after one more.  Each loop has a record for
\* stat of its own, which nobody has written before.
RECURSIVE Collect(_, _, _, _, _, _, _)
Collect(entries, names, count, child, lost, unwritten, kept) ==
  IF entries = <<>> THEN [ok |-> TRUE, names |-> names]
  ELSE LET entry == Head(entries)
           st_filestat == Stat(entry, lost, kept)
           GoOn(more) == Collect(Tail(entries), more, count, child, lost, unwritten, st_filestat)
           below == Collect(entry.sub, names, count, child, lost, unwritten, unwritten) IN
    CASE entry.name \in removed ->
           Collect(Tail(entries), names, count, child, lost, unwritten, kept)
      [] entry.name \notin removed /\ st_filestat = "dir" ->
           IF ~child THEN GoOn(names)
           ELSE IF entry.kind # "dir" THEN [ok |-> FALSE, names |-> names]
           ELSE IF below.ok THEN GoOn(below.names) ELSE below
      [] entry.name \notin removed /\ st_filestat = "file" ->
           IF entry.kind # "file" THEN GoOn(names)
           ELSE IF Len(names) + 1 >= count
           THEN [ok |-> TRUE, names |-> Append(names, entry.name)]
           ELSE GoOn(Append(names, entry.name))

\* A mutated form: the list of the last OpenDir is not cleared.
OpenDirAppends(tree, count, child, sort, lost, unwritten) ==
  LET found == Collect(tree, <<>>, count, child, lost, unwritten, unwritten).names IN
  /\ Fills(list \o IF sort THEN SortSeq(found, <) ELSE found)
  /\ opened' = [tree |-> tree, count |-> count, child |-> child]
  /\ removed' = removed \cup lost

\* OpenDir, of a directory that exists or that MKDIR makes (an empty one), while
\* the other program removes the files of lost.
OpenDir(tree, count, child, sort, lost, unwritten) ==
  LET found == Collect(tree, <<>>, count, child, lost, unwritten, unwritten).names IN
  /\ Fills(IF sort THEN SortSeq(found, <) ELSE found)
  /\ opened' = [tree |-> tree, count |-> count, child |-> child]
  /\ removed' = removed \cup lost

ReadDir == NextFile /\ UNCHANGED <<opened, removed>>

RECURSIVE Files(_, _)
Files(tree, child) ==
  UNION {CASE e.kind = "file" -> {e.name}
           [] e.kind = "dir" /\ child -> Files(e.sub, child)
           [] OTHER -> {} : e \in Range(tree)}

Unlink(f) ==
  /\ f \in Files(opened.tree, TRUE) \ removed
  /\ removed' = removed \cup {f}
  /\ UNCHANGED <<opened, list, position, listed, seen>>

DirectoriesNext ==
  \/ \E tree \in Trees, count \in Counts, child, sort \in BOOLEAN, unwritten \in {"file", "dir"} :
       \E lost \in {{}} \cup {{f} : f \in Files(tree, TRUE) \ removed} :
         OpenDir(tree, count, child, sort, lost, unwritten)
  \/ ReadDir
  \/ \E f \in Files(opened.tree, TRUE) : Unlink(f)

-----------------------------------------------------------------------------
(* Properties *)

RECURSIVE Subdirectories(_)
Subdirectories(tree) ==
  FoldSeq(LAMBDA e, n : n + 1 + Subdirectories(e.sub), 0,
          SelectSeq(tree, LAMBDA e : e.kind = "dir"))

\* OpenDir collects matching files only, each once, also when stat misses some
\* of them and the record of another entry is taken for theirs, and not more than
\* in_MaxCount and one for each directory below (the loops of the directories
\* above do not know that the list is full).
ListIsBounded ==
  /\ IsInjective(listed)
  /\ Range(listed) \subseteq Files(opened.tree, opened.child)
  /\ Len(listed) <= opened.count + IF opened.child THEN Subdirectories(opened.tree) ELSE 0
=============================================================================
