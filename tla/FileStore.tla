------------------------------ MODULE FileStore ------------------------------
(***************************************************************************)
(* How the library publishes files: CFile (OpenForRename, CloseAndRename), *)
(* COPY, RENAME and REMOVE of src/public/_public.cpp, filetobuf and        *)
(* buftofile of src/public/db/_mysql.cpp.                                  *)
(*                                                                         *)
(* Three programs share a directory: a writer (one CFile object, and       *)
(* buftofile), a copier (COPY of a to b) and a reader (filetobuf).  A name *)
(* leads to an inode, an open file is an inode: a rename does not disturb  *)
(* who has the old file open.  A document is a sequence of chunks.  The    *)
(* disk may be full, calls may be refused, and a program may crash.        *)
(***************************************************************************)
EXTENDS Integers, Sequences, SequencesExt

CONSTANTS Sizes,        \* the chunks of each document
          MaxFiles,     \* bound: files created
          MaxFaults,    \* bound: calls that fail, writes to a full disk, crashes
          Times         \* the tries of RENAME

ASSUME FilesAssumption ==
  /\ Sizes \in Seq(Nat) /\ MaxFiles \in Nat /\ MaxFaults \in Nat
  /\ Times \in Nat \ {0}

Docs == DOMAIN Sizes
Whole(d) == [i \in 1 .. Sizes[d] |-> <<d, i>>]

\* a is written by rename only, b is COPY's target, c is also written in place.
Names == {"a", "b", "c"}
Tmp(n) == CASE n = "a" -> "a.tmp" [] n = "b" -> "b.tmp" [] n = "c" -> "c.tmp"
Paths == Names \cup {Tmp(n) : n \in Names}

VARIABLES
  dir,       \* the inode that each path leads to, 0 for none
  data,      \* the chunks of each inode
  inodes,    \* inodes made so far
  file,      \* the CFile: m_fp, m_filename, m_filenametmp; the document written
  saving,    \* buftofile: its program counter, file and document
  copy,      \* COPY: its program counter and local variables
  load,      \* filetobuf: its file and what it has read
  refused, full, crashes

fvars == <<dir, data, inodes, file, saving, copy, load, refused, full, crashes>>

NoFile == [fp |-> 0, name |-> "", tmp |-> "", doc |-> 1, at |-> 0]
NoCopy == [pc |-> "idle", size |-> 0, src |-> 0, dst |-> 0, total |-> 0, tries |-> 0]
NoSave == [pc |-> "idle", fp |-> 0, doc |-> 1]

FilesInit ==
  /\ dir = [n \in Paths |-> 0] /\ data = [i \in 1 .. MaxFiles |-> <<>>] /\ inodes = 0
  /\ file = NoFile /\ saving = NoSave /\ copy = NoCopy
  /\ load = [fp |-> 0, got |-> <<>>]
  /\ refused = 0 /\ full = 0 /\ crashes = 0

-----------------------------------------------------------------------------
(* The file system *)

\* Of the files of the bound one is kept for a COPY that is about to open its own.
Reserved(path) == IF copy.pc = "open" /\ path # "b.tmp" THEN 1 ELSE 0

\* FOPEN for writing: the file is emptied, or it is made.
Opens(path) ==
  IF dir[path] # 0
  THEN /\ data' = [data EXCEPT ![dir[path]] = <<>>]
       /\ UNCHANGED <<dir, inodes>>
  ELSE /\ inodes < MaxFiles - Reserved(path)
       /\ inodes' = inodes + 1
       /\ dir' = [dir EXCEPT ![path] = inodes + 1]
       /\ data' = [data EXCEPT ![inodes + 1] = <<>>]

Handle(path) == IF dir[path] # 0 THEN dir[path] ELSE inodes + 1

\* remove and rename of a path that may not exist ("" never does).
Removed(path) == [n \in Paths |-> IF n = path THEN 0 ELSE dir[n]]
Exists(path) == path \in Paths /\ dir[path] # 0
Renamed(from, to) == [n \in Paths |-> CASE n = from -> 0
                                        [] n = to -> dir[from]
                                        [] OTHER -> dir[n]]

Fault == refused + full + crashes < MaxFaults
Refuse == Fault /\ refused' = refused + 1
Granted == refused' = refused

\* A write of a chunk: on a full disk it is lost, and nobody looks.
Writes(fp, chunk) ==
  \/ data' = [data EXCEPT ![fp] = Append(@, chunk)] /\ full' = full
  \/ Fault /\ full' = full + 1 /\ data' = data

-----------------------------------------------------------------------------
(* CFile *)

Busy == saving.pc # "idle"

\* A mutated form: m_filenametmp is not reset.
CloseKeepsTmp ==
  /\ file.fp # 0
  /\ dir' = Removed(file.tmp)
  /\ file' = [NoFile EXCEPT !.tmp = file.tmp]
  /\ UNCHANGED <<data, inodes, saving, copy, load, refused, full, crashes>>

\* Close; also the destructor.
CloseFile ==
  /\ file.fp # 0
  /\ dir' = Removed(file.tmp)
  /\ file' = NoFile
  /\ UNCHANGED <<data, inodes, saving, copy, load, refused, full, crashes>>

\* Open: Close first (a step of its own when a file is open); m_filenametmp is
\* not touched.
OpenFile(n, d) ==
  /\ ~Busy /\ file.fp = 0 /\ n = "c"
  /\ Opens(n) /\ Granted
  /\ file' = [fp |-> Handle(n), name |-> n, tmp |-> file.tmp, doc |-> d,
              at |-> 0]
  /\ UNCHANGED <<saving, copy, load, full, crashes>>

OpenForRename(n, d) ==
  /\ ~Busy /\ file.fp = 0 /\ n # "b"
  /\ Opens(Tmp(n)) /\ Granted
  /\ file' = [fp |-> Handle(Tmp(n)), name |-> n, tmp |-> Tmp(n), doc |-> d,
              at |-> 0]
  /\ UNCHANGED <<saving, copy, load, full, crashes>>

\* FOPEN refuses: m_fp stays 0, and m_filenametmp names a file not opened.
OpenForRenameFails(n) ==
  /\ ~Busy /\ file.fp = 0 /\ n # "b"
  /\ Refuse
  /\ file' = [NoFile EXCEPT !.name = n, !.tmp = Tmp(n)]
  /\ UNCHANGED <<dir, data, inodes, saving, copy, load, full, crashes>>

\* Fprintf and Fwrite.
Fwrite ==
  /\ file.fp # 0 /\ file.at < Sizes[file.doc]
  /\ file' = [file EXCEPT !.at = @ + 1]
  /\ Writes(file.fp, <<file.doc, file.at + 1>>)
  /\ UNCHANGED <<dir, inodes, saving, copy, load, refused, crashes>>

\* The program renames what it has written to the end.
CloseAndRename ==
  /\ file.fp # 0 /\ file.at = Sizes[file.doc]
  /\ IF Exists(file.tmp)
     THEN \/ dir' = Renamed(file.tmp, file.name) /\ Granted
          \/ dir' = Removed(file.tmp) /\ Refuse
     ELSE dir' = dir /\ Granted
  /\ file' = NoFile
  /\ UNCHANGED <<data, inodes, saving, copy, load, full, crashes>>

\* CloseAndRemove removes m_filename, also when the file open is the other one;
\* when that fails, as for a file that was never published, m_filenametmp stays.
CloseAndRemove ==
  /\ file.fp # 0
  /\ \/ /\ Exists(file.name) /\ Granted
        /\ dir' = Removed(file.name) /\ file' = NoFile
     \/ /\ Refuse
        /\ dir' = dir /\ file' = [NoFile EXCEPT !.tmp = file.tmp]
  /\ UNCHANGED <<data, inodes, saving, copy, load, full, crashes>>

-----------------------------------------------------------------------------
(* buftofile, by the same program; filetobuf, by the reader *)

\* A mutated form: buftofile writes the file itself.
SaveInPlace(d) ==
  /\ ~Busy /\ file.fp = 0
  /\ Opens("a") /\ Granted
  /\ saving' = [pc |-> "write", fp |-> Handle("a"), doc |-> d]
  /\ UNCHANGED <<file, copy, load, full, crashes>>

SaveOpen(d) ==
  /\ ~Busy /\ file.fp = 0
  /\ Opens("a.tmp") /\ Granted
  /\ saving' = [pc |-> "write", fp |-> Handle("a.tmp"), doc |-> d]
  /\ UNCHANGED <<file, copy, load, full, crashes>>

\* fwrite: what it counts may still be lost when fclose finds the disk full; a
\* short count removes the file.
SaveWrite ==
  /\ saving.pc = "write"
  /\ \/ /\ data' = [data EXCEPT ![saving.fp] = Whole(saving.doc)]
        /\ saving' = [saving EXCEPT !.pc = "rename"]
        /\ UNCHANGED <<dir, full>>
     \/ /\ Fault /\ full' = full + 1
        /\ data' = data
        /\ \/ saving' = [saving EXCEPT !.pc = "rename"] /\ dir' = dir
           \/ saving' = NoSave /\ dir' = Removed("a.tmp")
  /\ UNCHANGED <<inodes, file, copy, load, refused, crashes>>

SaveRename ==
  /\ saving.pc = "rename"
  /\ saving' = NoSave
  /\ \/ dir' = Renamed("a.tmp", "a") /\ Granted
     \/ dir' = dir /\ Refuse
  /\ UNCHANGED <<data, inodes, file, copy, load, full, crashes>>

LoadOpen ==
  /\ load.fp = 0 /\ dir["a"] # 0
  /\ load' = [fp |-> dir["a"], got |-> <<>>]
  /\ UNCHANGED <<dir, data, inodes, file, saving, copy, refused, full, crashes>>

\* fread: the next chunk, or the end.
Load ==
  /\ load.fp # 0
  /\ load' = IF Len(load.got) < Len(data[load.fp])
             THEN [load EXCEPT !.got = Append(@, data[load.fp][Len(@) + 1])]
             ELSE [fp |-> 0, got |-> <<>>]
  /\ UNCHANGED <<dir, data, inodes, file, saving, copy, refused, full, crashes>>

-----------------------------------------------------------------------------
(* COPY from a to b *)

\* FileSize comes before open, and is -1 for a file that is not there.
CopySize ==
  /\ copy.pc = "idle" /\ (dir["b.tmp"] # 0 \/ inodes < MaxFiles)
  /\ copy' = [NoCopy EXCEPT !.pc = "open",
                            !.size = IF dir["a"] = 0 THEN -1 ELSE Len(data[dir["a"]])]
  /\ UNCHANGED <<dir, data, inodes, file, saving, load, refused, full, crashes>>

CopyOpen ==
  /\ copy.pc = "open" /\ dir["a"] # 0
  /\ Opens("b.tmp") /\ Granted
  /\ copy' = [copy EXCEPT !.pc = "loop", !.src = dir["a"], !.dst = Handle("b.tmp")]
  /\ UNCHANGED <<file, saving, load, full, crashes>>

CopyOpenFails ==
  /\ copy.pc = "open"
  /\ IF dir["a"] = 0 THEN Granted ELSE Refuse
  /\ copy' = NoCopy
  /\ UNCHANGED <<dir, data, inodes, file, saving, load, full, crashes>>

\* A mutated form: the loop goes on until the total is above the size.
CopyPastEnd ==
  /\ copy.pc = "loop"
  /\ IF copy.size = -1
     THEN /\ copy' = [copy EXCEPT !.total = -1, !.pc = "rename", !.tries = Times]
          /\ UNCHANGED <<data, full>>
     ELSE IF copy.total > copy.size
     THEN /\ copy' = [copy EXCEPT !.pc = "rename", !.tries = Times]
          /\ UNCHANGED <<data, full>>
     ELSE /\ copy.total < Len(data[copy.src])
          /\ copy' = [copy EXCEPT !.total = @ + 1]
          /\ Writes(copy.dst, data[copy.src][copy.total + 1])
  /\ UNCHANGED <<dir, inodes, file, saving, load, refused, crashes>>

\* A mutated form: the last chunk is left out.
CopyShort ==
  /\ copy.pc = "loop"
  /\ IF copy.size = -1
     THEN /\ copy' = [copy EXCEPT !.total = -1, !.pc = "rename", !.tries = Times]
          /\ UNCHANGED <<data, full>>
     ELSE IF copy.total + 1 >= copy.size
     THEN /\ copy' = [copy EXCEPT !.pc = "rename", !.tries = Times]
          /\ UNCHANGED <<data, full>>
     ELSE /\ copy.total < Len(data[copy.src])
          /\ copy' = [copy EXCEPT !.total = @ + 1]
          /\ Writes(copy.dst, data[copy.src][copy.total + 1])
  /\ UNCHANGED <<dir, inodes, file, saving, load, refused, crashes>>

\* The loop stops only when the total is the size; read() of -1 bytes is -1,
\* and read() behind the end is 0, so that the loop goes on as it is.
CopyChunk ==
  /\ copy.pc = "loop"
  /\ IF copy.size = -1
     THEN /\ copy' = [copy EXCEPT !.total = -1, !.pc = "rename", !.tries = Times]
          /\ UNCHANGED <<data, full>>
     ELSE IF copy.total = copy.size
     THEN /\ copy' = [copy EXCEPT !.pc = "rename", !.tries = Times]
          /\ UNCHANGED <<data, full>>
     ELSE /\ copy.total < Len(data[copy.src])
          /\ copy' = [copy EXCEPT !.total = @ + 1]
          /\ Writes(copy.dst, data[copy.src][copy.total + 1])
  /\ UNCHANGED <<dir, inodes, file, saving, load, refused, crashes>>

\* RENAME: so many tries; when the last one fails REMOVE takes the copy away.
CopyRename ==
  /\ copy.pc = "rename"
  /\ \/ /\ dir' = Renamed("b.tmp", "b") /\ Granted
        /\ copy' = NoCopy
     \/ /\ Refuse
        /\ copy' = IF copy.tries = 1 THEN NoCopy ELSE [copy EXCEPT !.tries = @ - 1]
        /\ dir' = IF copy.tries = 1 THEN Removed("b.tmp") ELSE dir
  /\ UNCHANGED <<data, inodes, file, saving, load, full, crashes>>

-----------------------------------------------------------------------------
\* A program dies: what it had on the disk stays as it is.
ProgramDies ==
  /\ Fault
  /\ crashes' = crashes + 1
  /\ \/ file.fp # 0 /\ file' = NoFile /\ UNCHANGED <<saving, copy>>
     \/ Busy /\ saving' = NoSave /\ UNCHANGED <<file, copy>>
     \/ copy.pc # "idle" /\ copy' = NoCopy /\ UNCHANGED <<file, saving>>
  /\ UNCHANGED <<dir, data, inodes, load, refused, full>>

Copying == CopyOpen \/ CopyOpenFails \/ CopyChunk \/ CopyRename

FilesNext ==
  \/ CloseFile \/ Fwrite \/ CloseAndRename \/ CloseAndRemove
  \/ \E d \in Docs : SaveOpen(d) \/ \E n \in Names : OpenFile(n, d) \/ OpenForRename(n, d)
  \/ \E n \in Names : OpenForRenameFails(n)
  \/ SaveWrite \/ SaveRename
  \/ LoadOpen \/ Load
  \/ CopySize \/ Copying \/ ProgramDies

FilesSpec == FilesInit /\ [][FilesNext]_fvars

-----------------------------------------------------------------------------
(* Properties *)

FilesTypeOK ==
  /\ dir \in [Paths -> 0 .. inodes] /\ inodes \in 0 .. MaxFiles
  /\ file.fp \in 0 .. inodes /\ file.tmp \in Paths \cup {""} /\ file.name \in Names \cup {""}
  /\ copy.pc \in {"idle", "open", "loop", "rename"} /\ (copy.size >= 0 => copy.total <= copy.size)
  /\ load.fp \in 0 .. inodes /\ refused + full + crashes <= MaxFaults

\* Whoever reads a file that is written by rename gets one whole document: a
\* reader meets no half-written file, at whatever point a writer crashed, was
\* refused or replaced the file, unless the disk was full (nobody looks at
\* what fclose says).
ReaderGetsWhole ==
  full = 0 /\ load.fp # 0 =>
    \E d \in Docs : data[load.fp] = Whole(d) /\ IsPrefix(load.got, Whole(d))

\* The temporary name that closing a file removes or renames is that of the
\* file that is open, unless an open or a remove failed before: then m_filenametmp
\* stays set, and closing another file removes or publishes a stranger's.
TmpIsOwn ==
  refused = 0 /\ file.fp # 0 /\ file.tmp # "" => dir[file.tmp] = file.fp

\* What COPY is about to publish are the chunks of the file it opened, all of
\* them if the file was not replaced after its size was taken.
CopyIsExact ==
  copy.pc = "rename" /\ full = 0 =>
    /\ IsPrefix(data[copy.dst], data[copy.src])
    /\ copy.size = Len(data[copy.src]) => data[copy.dst] = data[copy.src]

\* Who reads a file published by rename gets one whole document, wherever a
\* writer was refused or died; no close touches the temporary name of another
\* file; COPY publishes what it opened.
PublishedWhole == FilesTypeOK /\ ReaderGetsWhole /\ TmpIsOwn /\ CopyIsExact

\* COPY returns, unless the file was replaced by a shorter one after its size
\* was taken: then it reads behind the end for ever.
CopyReturns ==
  copy.pc # "idle" ~>
    copy.pc = "idle" \/ (copy.pc = "loop" /\ copy.size > Len(data[copy.src]))
=============================================================================
