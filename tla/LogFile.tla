------------------------------- MODULE LogFile -------------------------------
(***************************************************************************)
(* CLogFile of src/public/_public.cpp: a log that Write() rotates when it  *)
(* has grown too long.  The backup is named after the second in which it   *)
(* is made.  A line is its number; the limit is counted in lines.          *)
(***************************************************************************)
EXTENDS Integers, Sequences, SequencesExt

CONSTANTS MaxLogSize,   \* m_MaxLogSize
          Modes,        \* the values of m_openmode
          MaxLines,     \* bound: lines accepted
          MaxSeconds,   \* bound: seconds that pass
          MaxOpens,     \* bound: calls of Open
          MaxFailures   \* bound: rename and fopen calls that fail

ASSUME LogAssumption ==
  /\ MaxLogSize \in Nat /\ Modes \subseteq {"a+", "w"}
  /\ MaxLines \in Nat /\ MaxSeconds \in Nat

Seconds == 0 .. MaxSeconds

VARIABLES
  second,    \* the time of day, in the seconds of a backup's name
  tracefp,   \* m_tracefp # 0
  openmode,  \* m_openmode: "a+" or "w"
  backup,    \* m_bBackup
  tell,      \* what ftell() says
  current,   \* the lines in the log
  backups,   \* the lines in the backup of each second
  accepted,  \* lines that Write and WriteEx reported as written
  unrotated, \* lines that no rotation counts: of WriteEx, after an Open ...
  rotations, \* the seconds in which the log was moved away
  emptied,   \* lines that an fopen with "w" threw away
  failures, opens

lvars == <<second, tracefp, openmode, backup, tell, current, backups, accepted,
           unrotated, rotations, emptied, failures, opens>>

LogInit ==
  /\ second = 0 /\ tracefp = FALSE /\ openmode = "" /\ backup = TRUE /\ tell = 0
  /\ current = <<>> /\ backups = [s \in Seconds |-> <<>>]
  /\ accepted = 0 /\ unrotated = 0 /\ rotations = <<>> /\ emptied = {} /\ failures = 0 /\ opens = 0

Tick ==
  /\ second < MaxSeconds
  /\ second' = second + 1
  /\ UNCHANGED <<tracefp, openmode, backup, tell, current, backups, accepted,
                 unrotated, rotations, emptied, failures, opens>>

Fails == failures < MaxFailures /\ failures' = failures + 1
Succeeds == failures' = failures

\* FOPEN: "w" empties the file.  For "a+" the C library may put the position at
\* the start of the file until the first write.
Opened(mode) == IF mode = "w" THEN <<>> ELSE current
Emptied(mode) == IF mode = "w" THEN emptied \cup Range(current) ELSE emptied
Positions(lines) == {0, Len(lines)}

\* Open closes the log first.
OpenLog(mode, rotates) ==
  /\ opens < MaxOpens
  /\ opens' = opens + 1
  /\ openmode' = mode /\ backup' = rotates
  /\ \/ /\ Succeeds
        /\ tracefp' = TRUE
        /\ current' = Opened(mode) /\ emptied' = Emptied(mode)
        /\ tell' \in Positions(current')
        /\ unrotated' = unrotated + 1
     \/ /\ Fails
        /\ tracefp' = FALSE
        /\ UNCHANGED <<current, tell, unrotated, emptied>>
  /\ UNCHANGED <<second, backups, accepted, rotations>>

\* A mutated form: m_tracefp is not reset.
CloseKeepsPointer ==
  /\ tracefp
  /\ tracefp' = tracefp /\ openmode' = "" /\ backup' = TRUE
  /\ UNCHANGED <<second, tell, current, backups, accepted, unrotated, rotations,
                 emptied, failures, opens>>

CloseLog ==
  /\ tracefp
  /\ tracefp' = FALSE /\ openmode' = "" /\ backup' = TRUE
  /\ UNCHANGED <<second, tell, current, backups, accepted, unrotated, rotations,
                 emptied, failures, opens>>

Puts(lines) ==
  /\ accepted' = accepted + 1
  /\ current' = Append(lines, accepted + 1)
  /\ tell' = Len(lines) + 1

\* A mutated form: BackupLogFile is not called.
WriteOnly ==
  /\ tracefp /\ accepted < MaxLines
  /\ Puts(current)
  /\ unrotated' = IF backup THEN unrotated ELSE unrotated + 1
  /\ UNCHANGED <<second, tracefp, openmode, backup, backups, rotations, emptied,
                 failures, opens>>

\* Write with BackupLogFile finding nothing to do.
WriteLog ==
  /\ tracefp /\ accepted < MaxLines
  /\ ~backup \/ tell <= MaxLogSize
  /\ Puts(current)
  /\ unrotated' = IF backup THEN unrotated ELSE unrotated + 1
  /\ UNCHANGED <<second, tracefp, openmode, backup, backups, rotations, emptied,
                 failures, opens>>

\* A mutated form: the name of a backup does not hold the time.
MoveAwaySameName ==
  /\ backups' = [backups EXCEPT ![0] = current]
  /\ rotations' = Append(rotations, second)

MoveAway ==
  /\ backups' = [backups EXCEPT ![second] = current]
  /\ rotations' = Append(rotations, second)

\* Write with a rotation: rename overwrites a backup of the same second.
WriteRotates ==
  /\ tracefp /\ accepted < MaxLines
  /\ backup /\ tell > MaxLogSize
  /\ Succeeds
  /\ MoveAway
  /\ Puts(<<>>)
  /\ unrotated' = 0
  /\ UNCHANGED <<second, tracefp, openmode, backup, emptied, opens>>

\* rename fails, nobody looks, and the same file is opened again.
WriteRenameFails ==
  /\ tracefp /\ accepted < MaxLines
  /\ backup /\ tell > MaxLogSize
  /\ Fails
  /\ Puts(Opened(openmode)) /\ emptied' = Emptied(openmode)
  /\ unrotated' = unrotated + 1
  /\ UNCHANGED <<second, tracefp, openmode, backup, backups, rotations, opens>>

\* The log was moved away and cannot be opened again: Write is false, and so is
\* every later one.
WriteReopenFails ==
  /\ tracefp /\ accepted < MaxLines
  /\ backup /\ tell > MaxLogSize
  /\ Fails
  /\ MoveAway
  /\ current' = <<>> /\ tracefp' = FALSE
  /\ UNCHANGED <<second, openmode, backup, tell, accepted, unrotated, emptied, opens>>

\* WriteEx does not rotate.
WriteEx ==
  /\ tracefp /\ accepted < MaxLines
  /\ Puts(current)
  /\ unrotated' = unrotated + 1
  /\ UNCHANGED <<second, tracefp, openmode, backup, backups, rotations,
                 emptied, failures, opens>>

LogNext ==
  \/ Tick \/ CloseLog \/ WriteLog \/ WriteRotates \/ WriteRenameFails
  \/ WriteReopenFails \/ WriteEx
  \/ \E mode \in Modes, rotates \in BOOLEAN : OpenLog(mode, rotates)

LogSpec == LogInit /\ [][LogNext]_lvars

-----------------------------------------------------------------------------
(* Properties *)

LogTypeOK ==
  /\ second \in Seconds /\ accepted \in 0 .. MaxLines
  /\ openmode \in Modes \cup {""} /\ backup \in BOOLEAN
  /\ tell \in 0 .. MaxLines /\ Len(current) <= accepted
  /\ tracefp => openmode # ""

\* The backups by the second of their names, then the log.
Places == 0 .. MaxSeconds + 1
Kept == [s \in Places |-> IF s = MaxSeconds + 1 THEN current ELSE backups[s]]

\* Nothing that was reported as written is lost or out of order: backups and log
\* hold every line once and in the order in which they were accepted, but for
\* those an fopen with "w" threw away, when no two rotations fall in one second
\* (the second one writes the first one's backup over).
NoLineLost ==
  IsInjective(rotations) =>
    /\ UNION {Range(Kept[s]) : s \in Places} = (1 .. accepted) \ emptied
    /\ \A s, r \in Places : \A i \in 1 .. Len(Kept[s]), j \in 1 .. Len(Kept[r]) :
         s < r \/ (s = r /\ i < j) => Kept[s][i] < Kept[r][j]

\* The log outgrows its limit by one line, the lines written while rotation is
\* off or by WriteEx, and a line for each Open: a program that opens the log,
\* writes one line and ends, over and over, never rotates it.
LogIsBounded == Len(current) <= MaxLogSize + 1 + unrotated

\* Backups and log hold every line once and in order, and the log is moved away
\* before it is much longer than its limit.
LinesAreKept == LogTypeOK /\ NoLineLost /\ LogIsBounded
=============================================================================
